-------------------------- MODULE DocumentsProofs --------------------------
(***************************************************************************)
(* Theorems about Documents, for any number of documents and bson_t's and  *)
(* whatever a program does with them.                                      *)
(***************************************************************************)
EXTENDS Documents, SequenceTheorems, TLAPS

Docs == Declared \cap Variables

(* Nothing is declared twice, so that nothing is destroyed twice.          *)
DefersInv == \A i, j \in DOMAIN defers : defers[i] = defers[j] => i = j

(* Each document has a bson_t of its own.                                  *)
BlockInv ==
    \A v \in Docs : points[v] \in Blocks =>
        /\ points[v] \in allocated
        /\ \A u \in Docs : points[u] = points[v] => u = v

(* A bson_t that says it has a buffer has one.  A child never says so.     *)
BufferInv ==
    /\ \A v \in Docs : points[v] \in Blocks /\ OwnsItsBuffer(points[v])
                         => points[v] \in buffer \cup cleared
    /\ \A b \in Blocks : "CHILD" \in flags[b] => "NO_FREE" \in flags[b]

(* What is destroyed after the cursor was declared before it.              *)
CursorInv ==
    /\ \A v \in Docs : points[v] = Cursor => Cursor \in Declared \/ v \in early
    /\ \A i, j \in DOMAIN defers : defers[i] = Cursor /\ i < j => defers[j] \in early

(* An open child and its parent are in use, and the child is the only one. *)
ChildInv ==
    ~leaving => \A b \in Blocks : IsOpen(b) =>
        /\ b \in allocated /\ parent[b] \in allocated
        /\ "IN_CHILD" \in flags[parent[b]]
        /\ IsOpen(parent[b]) \/ parent[b] \in buffer
        /\ \A a \in Blocks : parent[a] = parent[b] => a = b

(* A bson_t that no call has overwritten is that of a document, and its    *)
(* destroy() frees it and its buffer.                                      *)
LeakInv ==
    /\ lost \subseteq overwritten
    /\ \A b \in allocated \ overwritten :
          /\ flags[b] \subseteq {"INLINE", "IN_CHILD"}
          /\ \E v \in Docs : points[v] = b
    /\ \A b \in buffer \ overwritten : b \in allocated /\ "INLINE" \notin flags[b]

Inv == TypeOK /\ DefersInv /\ BlockInv /\ BufferInv /\ CursorInv /\ ChildInv /\ LeakInv
-----------------------------------------------------------------------------
(* Declaring adds one thing to destroy, before the others.                 *)
LEMMA Push ==
    ASSUME TypeOK, DefersInv, NEW x \in Variables \cup {Cursor}, x \notin Declared,
           defers' = <<x>> \o defers
    PROVE  /\ defers' \in Seq(Variables \cup {Cursor})
           /\ Declared' = Declared \cup {x}
           /\ DefersInv'
           /\ \A i, j \in DOMAIN defers' : i < j =>
                 \/ defers'[i] = x /\ defers'[j] \in Declared
                 \/ \E k, l \in DOMAIN defers :
                       k < l /\ defers'[i] = defers[k] /\ defers'[j] = defers[l]
<1> DEFINE S == Variables \cup {Cursor}
           n == Len(defers)
<1>1. defers \in Seq(S) /\ <<x>> \in Seq(S) /\ Len(<<x>>) = 1 /\ <<x>>[1] = x
  BY DEF TypeOK
<1>2. n \in Nat /\ DOMAIN defers = 1 .. n
  BY <1>1, LenProperties
<1>3. /\ defers' \in Seq(S)
      /\ DOMAIN defers' = 1 .. n + 1
      /\ defers'[1] = x
      /\ \A i \in 2 .. n + 1 : defers'[i] = defers[i - 1] /\ i - 1 \in DOMAIN defers
  <2>1. defers' \in Seq(S) /\ Len(defers') = 1 + n
    BY <1>1, ConcatProperties
  <2>2. \A i \in 1 .. 1 + n :
           defers'[i] = IF i <= 1 THEN <<x>>[i] ELSE defers[i - 1]
    BY <1>1, ConcatProperties
  <2>3. DOMAIN defers' = 1 .. Len(defers')
    BY <2>1, LenProperties
  <2> HIDE DEF n
  <2> QED BY <1>1, <1>2, <2>1, <2>2, <2>3
<1> HIDE DEF n, S
<1>4. \A i \in DOMAIN defers : i + 1 \in 2 .. n + 1 /\ defers'[i + 1] = defers[i]
  BY <1>2, <1>3
<1>5. Declared' = Declared \cup {x}
  <2>1. \A y \in Declared' : y \in Declared \cup {x}
    BY <1>2, <1>3 DEF Declared
  <2>2. x \in Declared'
    <3>1. 1 \in DOMAIN defers'
      BY <1>2, <1>3
    <3> QED BY <3>1, <1>3 DEF Declared
  <2>3. ASSUME NEW y \in Declared PROVE y \in Declared'
    <3>1. PICK i \in DOMAIN defers : y = defers[i]
      BY DEF Declared
    <3>2. i + 1 \in DOMAIN defers'
      BY <1>3, <1>4, <1>2
    <3> QED BY <3>1, <3>2, <1>4 DEF Declared
  <2> QED BY <2>1, <2>2, <2>3
<1>6. DefersInv'
  BY <1>2, <1>3 DEF DefersInv, Declared
<1>7. ASSUME NEW i \in DOMAIN defers', NEW j \in DOMAIN defers', i < j
      PROVE  \/ defers'[i] = x /\ defers'[j] \in Declared
             \/ \E k, l \in DOMAIN defers :
                   k < l /\ defers'[i] = defers[k] /\ defers'[j] = defers[l]
  <2>1. j \in 2 .. n + 1 /\ i \in 1 .. n + 1
    BY <1>2, <1>3, <1>7
  <2>2. CASE i = 1
    BY <2>1, <2>2, <1>3 DEF Declared
  <2>3. CASE i # 1
    <3>1. i - 1 \in DOMAIN defers /\ j - 1 \in DOMAIN defers /\ i - 1 < j - 1
      BY <2>1, <2>3, <1>2, <1>3, <1>7
    <3>2. defers'[i] = defers[i - 1] /\ defers'[j] = defers[j - 1]
      BY <2>1, <2>3, <1>2, <1>3
    <3> QED BY <3>1, <3>2
  <2> QED BY <2>2, <2>3
<1> QED BY <1>3, <1>5, <1>6, <1>7 DEF S

(* Destroying takes the first of them away.                                *)
LEMMA Pop ==
    ASSUME TypeOK, DefersInv, defers # <<>>, defers' = Tail(defers)
    PROVE  /\ defers' \in Seq(Variables \cup {Cursor})
           /\ Head(defers) \in Declared
           /\ Declared' = Declared \ {Head(defers)}
           /\ DefersInv'
           /\ \A i, j \in DOMAIN defers' : i < j =>
                 \E k, l \in DOMAIN defers :
                    k < l /\ defers'[i] = defers[k] /\ defers'[j] = defers[l]
           /\ Head(defers) = Cursor /\ CursorInv => Declared' \subseteq early
<1> DEFINE S == Variables \cup {Cursor}
           n == Len(defers)
<1>1. defers \in Seq(S)
  BY DEF TypeOK
<1>2. n \in Nat \ {0} /\ DOMAIN defers = 1 .. n
  BY <1>1, LenProperties, EmptySeq
<1>3. /\ defers' \in Seq(S)
      /\ Head(defers) = defers[1]
      /\ DOMAIN defers' = 1 .. n - 1
      /\ \A i \in 1 .. n - 1 : defers'[i] = defers[i + 1]
  <2>1. defers' \in Seq(S) /\ Len(defers') = n - 1 /\ Head(defers) = defers[1]
        /\ \A i \in 1 .. n - 1 : defers'[i] = defers[i + 1]
    BY <1>1, HeadTailProperties
  <2>2. DOMAIN defers' = 1 .. Len(defers')
    BY <2>1, LenProperties
  <2> HIDE DEF n
  <2> QED BY <2>1, <2>2
<1> HIDE DEF n, S
<1>4. \A i \in 1 .. n - 1 : i + 1 \in DOMAIN defers /\ i + 1 > 1
  BY <1>2
<1>5. 1 \in DOMAIN defers
  BY <1>2
<1>6. Declared' = Declared \ {Head(defers)}
  <2>1. ASSUME NEW y \in Declared' PROVE y \in Declared \ {Head(defers)}
    <3>1. PICK i \in 1 .. n - 1 : y = defers[i + 1]
      BY <1>3 DEF Declared
    <3>2. i + 1 \in DOMAIN defers /\ i + 1 # 1
      BY <1>4
    <3> QED BY <3>1, <3>2, <1>3, <1>5 DEF Declared, DefersInv
  <2>2. ASSUME NEW y \in Declared, y # Head(defers) PROVE y \in Declared'
    <3>1. PICK i \in DOMAIN defers : y = defers[i]
      BY DEF Declared
    <3>2. i - 1 \in 1 .. n - 1 /\ (i - 1) + 1 = i
      BY <3>1, <2>2, <1>2, <1>3
    <3> QED BY <3>1, <3>2, <1>3 DEF Declared
  <2> QED BY <2>1, <2>2
<1>7. DefersInv'
  <2> SUFFICES ASSUME NEW i \in 1 .. n - 1, NEW j \in 1 .. n - 1,
                      defers'[i] = defers'[j]
               PROVE  i = j
    BY <1>3 DEF DefersInv
  <2>1. defers[i + 1] = defers[j + 1]
    BY <1>3
  <2>2. i + 1 = j + 1
    BY <2>1, <1>4 DEF DefersInv
  <2> QED BY <2>2, <1>2
<1>8. ASSUME NEW i \in DOMAIN defers', NEW j \in DOMAIN defers', i < j
      PROVE  \E k, l \in DOMAIN defers :
                k < l /\ defers'[i] = defers[k] /\ defers'[j] = defers[l]
  <2>1. i \in 1 .. n - 1 /\ j \in 1 .. n - 1 /\ i + 1 < j + 1
    BY <1>2, <1>3, <1>8
  <2> QED BY <2>1, <1>3, <1>4
<1>9. ASSUME Head(defers) = Cursor, CursorInv PROVE Declared' \subseteq early
  <2> SUFFICES ASSUME NEW i \in 1 .. n - 1 PROVE defers[i + 1] \in early
    BY <1>3 DEF Declared
  <2>1. i + 1 \in DOMAIN defers /\ 1 < i + 1 /\ defers[1] = Cursor
    BY <1>3, <1>4, <1>9
  <2> QED BY <2>1, <1>5, <1>9 DEF CursorInv
<1> QED BY <1>3, <1>5, <1>6, <1>7, <1>8, <1>9 DEF S, Declared
-----------------------------------------------------------------------------
(* The invariant holds when the scope is entered.                          *)
LEMMA InvInit == Init => Inv
<1> SUFFICES ASSUME Init PROVE Inv
  OBVIOUS
<1>1. defers \in Seq(Variables \cup {Cursor}) /\ DOMAIN defers = {}
  <2>1. defers = <<>> /\ Len(<<>>) = 0
    BY EmptySeq DEF Init
  <2> QED BY <2>1, EmptySeq, LenProperties
<1>2. Declared = {}
  BY <1>1 DEF Declared
<1>3. TypeOK
  BY <1>1 DEF Init, TypeOK, Flags, NewFlags
<1>4. DefersInv /\ BlockInv /\ CursorInv
  BY <1>1, <1>2 DEF DefersInv, BlockInv, CursorInv, Docs
<1>5. BufferInv
  BY <1>2 DEF BufferInv, Docs, Init, NewFlags
<1>6. ChildInv /\ LeakInv
  BY PointerAssumption DEF Init, ChildInv, LeakInv, IsOpen
<1> QED BY <1>3, <1>4, <1>5, <1>6 DEF Inv

(* A step that declares nothing and destroys nothing keeps the order.      *)
LEMMA SameDefers ==
    ASSUME Inv, UNCHANGED <<defers, early>>
    PROVE  /\ DefersInv'
           /\ Declared' = Declared
           /\ Docs' = Docs
           /\ \A i, j \in DOMAIN defers' :
                 defers'[i] = Cursor /\ i < j => defers'[j] \in early'
BY DEF Inv, DefersInv, CursorInv, Declared, Docs

(* A document with a bson_t.                                               *)
LEMMA BlockOfDocument ==
    ASSUME Inv, NEW v \in Variables, HasBlock(v)
    PROVE  /\ v \in Docs
           /\ points[v] \in Blocks
           /\ points[v] \in allocated
           /\ \A u \in Docs : points[u] = points[v] => u = v
BY DEF Inv, BlockInv, HasBlock, Docs

LEMMA DeclareKeepsInv ==
    ASSUME Inv, NEW v \in Variables, NEW b \in Blocks, NEW long \in BOOLEAN,
           Declare(v, b, long)
    PROVE  Inv'
<1>1. /\ ~leaving /\ v \notin Declared /\ b \notin allocated
      /\ points' = [points EXCEPT ![v] = b]
      /\ allocated' = allocated \cup {b}
      /\ flags' = [flags EXCEPT ![b] = IF long THEN {} ELSE NewFlags]
      /\ buffer' = IF long THEN buffer \cup {b} ELSE buffer
      /\ defers' = <<v>> \o defers
      /\ UNCHANGED <<parent, leaving, overwritten, lost, cleared, early>>
  BY DEF Declare
<1>2. /\ defers' \in Seq(Variables \cup {Cursor})
      /\ Declared' = Declared \cup {v}
      /\ DefersInv'
      /\ \A i, j \in DOMAIN defers' : i < j =>
            \/ defers'[i] = v /\ defers'[j] \in Declared
            \/ \E k, l \in DOMAIN defers :
                  k < l /\ defers'[i] = defers[k] /\ defers'[j] = defers[l]
  BY <1>1, Push DEF Inv
<1>3. Docs' = Docs \cup {v} /\ v \notin Docs
  BY <1>1, <1>2 DEF Docs
<1>4. /\ points'[v] = b
      /\ \A u \in Docs : points'[u] = points[u]
      /\ \A u \in Docs : points[u] # b
  BY <1>1, <1>3 DEF Inv, TypeOK, BlockInv, Docs
<1>5. /\ flags'[b] = IF long THEN {} ELSE NewFlags
      /\ \A a \in Blocks \ {b} : flags'[a] = flags[a]
  BY <1>1 DEF Inv, TypeOK
<1>6. TypeOK'
  BY <1>1, <1>2 DEF Inv, TypeOK, Flags, NewFlags
<1>7. BlockInv'
  BY <1>1, <1>3, <1>4 DEF Inv, BlockInv
<1>8. BufferInv'
  <2>1. \A d \in Blocks : "CHILD" \in flags'[d] => "NO_FREE" \in flags'[d]
    BY <1>5 DEF Inv, BufferInv, NewFlags
  <2>2. ASSUME NEW u \in Docs', points'[u] \in Blocks, OwnsItsBuffer(points[u])'
        PROVE  points'[u] \in buffer' \cup cleared'
    <3>1. CASE u = v
      <4>1. points'[u] = b /\ flags'[b] \cap {"INLINE", "RDONLY", "NO_FREE"} = {}
        BY <3>1, <2>2, <1>4 DEF OwnsItsBuffer
      <4>2. CASE long
        BY <4>1, <4>2, <1>1
      <4>3. CASE ~long
        <5>1. "INLINE" \in flags'[b]
          BY <4>3, <1>5 DEF NewFlags
        <5> QED BY <4>1, <5>1
      <4> QED BY <4>2, <4>3
    <3>2. CASE u # v
      <4>1. u \in Docs /\ points'[u] = points[u] /\ flags'[points[u]] = flags[points[u]]
        BY <3>2, <2>2, <1>3, <1>4, <1>5
      <4>2. points[u] \in buffer \cup cleared
        BY <4>1, <2>2 DEF Inv, BufferInv, OwnsItsBuffer
      <4> QED BY <4>1, <4>2, <1>1
    <3> QED BY <3>1, <3>2
  <2> QED BY <2>1, <2>2 DEF BufferInv
<1>9. CursorInv'
  <2>1. \A u \in Docs' : points'[u] = Cursor => Cursor \in Declared' \/ u \in early'
    BY <1>1, <1>2, <1>3, <1>4, PointerAssumption DEF Inv, CursorInv
  <2>2. \A i, j \in DOMAIN defers' : defers'[i] = Cursor /\ i < j => defers'[j] \in early'
    BY <1>1, <1>2, PointerAssumption DEF Inv, CursorInv
  <2> QED BY <2>1, <2>2 DEF CursorInv
<1>10. ChildInv'
  <2> SUFFICES ASSUME NEW a \in Blocks, IsOpen(a)
               PROVE  /\ a \in allocated' /\ parent[a] \in allocated'
                      /\ "IN_CHILD" \in flags'[parent[a]]
                      /\ IsOpen(parent[a]) \/ parent[a] \in buffer'
                      /\ \A c \in Blocks : parent[c] = parent[a] => c = a
    BY <1>1 DEF ChildInv, IsOpen
  <2>1. /\ a \in allocated /\ parent[a] \in allocated
        /\ "IN_CHILD" \in flags[parent[a]]
        /\ IsOpen(parent[a]) \/ parent[a] \in buffer
        /\ \A c \in Blocks : parent[c] = parent[a] => c = a
    BY <1>1 DEF Inv, ChildInv
  <2>2. parent[a] # b /\ parent[a] \in Blocks
    BY <1>1, <2>1 DEF Inv, TypeOK
  <2> QED BY <1>1, <1>5, <2>1, <2>2
<1>11. LeakInv'
  <2>1. lost' \subseteq overwritten'
    BY <1>1 DEF Inv, LeakInv
  <2>2. \A a \in allocated' \ overwritten' :
          /\ flags'[a] \subseteq {"INLINE", "IN_CHILD"}
          /\ \E u \in Docs' : points'[u] = a
    BY <1>1, <1>3, <1>4, <1>5 DEF Inv, TypeOK, LeakInv, NewFlags
  <2>3. \A a \in buffer' \ overwritten' : a \in allocated' /\ "INLINE" \notin flags'[a]
    BY <1>1, <1>5 DEF Inv, TypeOK, LeakInv
  <2> QED BY <2>1, <2>2, <2>3 DEF LeakInv
<1> QED BY <1>2, <1>6, <1>7, <1>8, <1>9, <1>10, <1>11 DEF Inv

LEMMA GrowKeepsInv ==
    ASSUME Inv, NEW v \in Variables, Grow(v)
    PROVE  Inv'
<1> DEFINE b == points[v]
<1>1. /\ ~leaving /\ HasBlock(v) /\ "IN_CHILD" \notin flags[b]
      /\ "CHILD" \in flags[b] => IsOpen(b)
      /\ flags' = [flags EXCEPT ![b] = @ \ {"INLINE"}]
      /\ buffer' = buffer \cup {b}
      /\ UNCHANGED <<points, allocated, parent, defers, leaving,
                     overwritten, lost, cleared, early>>
  BY DEF Grow, Appendable
<1>2. v \in Docs /\ b \in Blocks /\ b \in allocated
  BY <1>1, BlockOfDocument
<1>3. /\ flags'[b] = flags[b] \ {"INLINE"}
      /\ \A a \in Blocks \ {b} : flags'[a] = flags[a]
  BY <1>1, <1>2 DEF Inv, TypeOK
<1> HIDE DEF b
<1>4. TypeOK'
  <2>1. flags' \in [Blocks -> SUBSET Flags]
    BY <1>1, <1>2 DEF Inv, TypeOK
  <2> QED BY <1>1, <1>2, <2>1 DEF Inv, TypeOK
<1>5. DefersInv' /\ Declared' = Declared /\ Docs' = Docs /\ BlockInv' /\ CursorInv'
  BY <1>1, SameDefers DEF Inv, BlockInv, CursorInv
<1>6. BufferInv'
  BY <1>1, <1>2, <1>3, <1>5 DEF Inv, BufferInv, OwnsItsBuffer, Docs
<1>7. ChildInv'
  BY <1>1, <1>2, <1>3 DEF Inv, TypeOK, ChildInv, IsOpen
<1>8. LeakInv'
  <2>1. \A a \in allocated' \ overwritten' :
          /\ flags'[a] \subseteq {"INLINE", "IN_CHILD"}
          /\ \E u \in Docs' : points'[u] = a
    BY <1>1, <1>2, <1>3, <1>5 DEF Inv, TypeOK, LeakInv
  <2>2. \A a \in buffer' \ overwritten' : a \in allocated' /\ "INLINE" \notin flags'[a]
    BY <1>1, <1>2, <1>3 DEF Inv, TypeOK, LeakInv
  <2> QED BY <1>1, <2>1, <2>2 DEF Inv, LeakInv
<1> QED BY <1>4, <1>5, <1>6, <1>7, <1>8 DEF Inv

LEMMA BeginKeepsInv ==
    ASSUME Inv, NEW p \in Variables, NEW c \in Variables, Begin(p, c)
    PROVE  Inv'
<1> DEFINE a == points[p]
           b == points[c]
<1>1. /\ ~leaving /\ HasBlock(p) /\ "IN_CHILD" \notin flags[a]
      /\ "CHILD" \in flags[a] => IsOpen(a)
      /\ HasBlock(c) /\ "IN_CHILD" \notin flags[b] /\ ~IsOpen(b)
      /\ p # c
      /\ flags' = [flags EXCEPT ![a] = (@ \ {"INLINE"}) \cup {"IN_CHILD"},
                                ![b] = ChildFlags]
      /\ parent' = [parent EXCEPT ![b] = a]
      /\ overwritten' = overwritten \cup {b}
      /\ lost' = IF b \in buffer THEN lost \cup {b} ELSE lost
      /\ buffer' = (buffer \ {b}) \cup (IF "CHILD" \in flags[a] THEN {} ELSE {a})
      /\ UNCHANGED <<points, allocated, defers, leaving, cleared, early>>
  BY DEF Begin, Appendable, Replaceable, Overwrite, BuffersWithChild
<1>2. /\ p \in Docs /\ a \in Blocks /\ a \in allocated
      /\ c \in Docs /\ b \in Blocks /\ b \in allocated
      /\ a # b
      /\ \A u \in Docs : points[u] = b => u = c
  BY <1>1, BlockOfDocument
<1> HIDE DEF a, b
<1>3. /\ flags'[a] = (flags[a] \ {"INLINE"}) \cup {"IN_CHILD"}
      /\ flags'[b] = ChildFlags
      /\ \A d \in Blocks \ {a, b} : flags'[d] = flags[d]
      /\ parent'[b] = a
      /\ \A d \in Blocks \ {b} : parent'[d] = parent[d]
  BY <1>1, <1>2 DEF Inv, TypeOK
<1>4. TypeOK'
  <2>1. flags' \in [Blocks -> SUBSET Flags]
    BY <1>1, <1>2 DEF Inv, TypeOK, Flags, ChildFlags
  <2> QED BY <1>1, <1>2, <2>1 DEF Inv, TypeOK
<1>5. DefersInv' /\ Declared' = Declared /\ Docs' = Docs /\ BlockInv' /\ CursorInv'
  BY <1>1, SameDefers DEF Inv, BlockInv, CursorInv
<1>6. BufferInv'
  <2>1. \A d \in Blocks : "CHILD" \in flags'[d] => "NO_FREE" \in flags'[d]
    BY <1>2, <1>3 DEF Inv, BufferInv, ChildFlags
  <2>2. ASSUME NEW v \in Docs, points[v] \in Blocks, OwnsItsBuffer(points[v])'
        PROVE  points[v] \in buffer' \cup cleared
    <3>1. CASE points[v] = b
      BY <3>1, <2>2, <1>1, <1>3 DEF OwnsItsBuffer, ChildFlags
    <3>2. CASE points[v] = a
      BY <3>2, <2>1, <2>2, <1>1, <1>2, <1>3 DEF OwnsItsBuffer
    <3>3. CASE points[v] \notin {a, b}
      BY <3>3, <2>2, <1>1, <1>3 DEF Inv, BufferInv, OwnsItsBuffer
    <3> QED BY <3>1, <3>2, <3>3
  <2> QED BY <2>1, <2>2, <1>1, <1>5 DEF BufferInv
<1>7. ChildInv'
  <2>1. \A d \in Blocks : IsOpen(d) => parent[d] # a /\ parent[d] # b
    BY <1>1 DEF Inv, ChildInv
  <2> SUFFICES ASSUME NEW d \in Blocks, parent'[d] # Null
               PROVE  /\ d \in allocated /\ parent'[d] \in allocated
                      /\ "IN_CHILD" \in flags'[parent'[d]]
                      /\ parent'[parent'[d]] # Null \/ parent'[d] \in buffer'
                      /\ \A e \in Blocks : parent'[e] = parent'[d] => e = d
    BY <1>1 DEF ChildInv, IsOpen
  <2>2. CASE d = b
    <3>1. \A e \in Blocks : parent'[e] = a => e = b
      BY <2>1, <1>2, <1>3, PointerAssumption DEF IsOpen
    <3>2. parent'[a] # Null \/ a \in buffer'
      BY <1>1, <1>2, <1>3 DEF IsOpen
    <3> QED BY <2>2, <3>1, <3>2, <1>2, <1>3
  <2>3. CASE d # b
    <3>1. parent'[d] = parent[d] /\ IsOpen(d) /\ parent[d] \notin {a, b}
      BY <2>1, <2>3, <1>3 DEF IsOpen
    <3>2. parent[d] \in Blocks
      BY <3>1 DEF Inv, TypeOK, IsOpen
    <3>3. /\ d \in allocated /\ parent[d] \in allocated
          /\ "IN_CHILD" \in flags[parent[d]]
          /\ IsOpen(parent[d]) \/ parent[d] \in buffer
          /\ \A e \in Blocks : parent[e] = parent[d] => e = d
      BY <3>1, <1>1 DEF Inv, ChildInv
    <3>4. \A e \in Blocks : parent'[e] = parent[d] => e = d
      BY <3>1, <3>3, <1>3
    <3>5. "IN_CHILD" \in flags'[parent[d]] /\ parent'[parent[d]] = parent[parent[d]]
      BY <3>1, <3>2, <3>3, <1>3
    <3>6. parent[d] \in buffer => parent[d] \in buffer'
      BY <3>1, <1>1
    <3> QED BY <3>1, <3>3, <3>4, <3>5, <3>6, <1>1 DEF IsOpen
  <2> QED BY <2>2, <2>3
<1>8. LeakInv'
  <2>1. lost' \subseteq overwritten'
    BY <1>1 DEF Inv, LeakInv
  <2>2. \A d \in allocated' \ overwritten' :
          /\ flags'[d] \subseteq {"INLINE", "IN_CHILD"}
          /\ \E u \in Docs' : points'[u] = d
    BY <1>1, <1>2, <1>3, <1>5 DEF Inv, TypeOK, LeakInv
  <2>3. \A d \in buffer' \ overwritten' : d \in allocated' /\ "INLINE" \notin flags'[d]
    BY <1>1, <1>2, <1>3 DEF Inv, TypeOK, LeakInv
  <2> QED BY <2>1, <2>2, <2>3 DEF LeakInv
<1> QED BY <1>4, <1>5, <1>6, <1>7, <1>8 DEF Inv

LEMMA EndKeepsInv ==
    ASSUME Inv, NEW c \in Variables, End(c)
    PROVE  Inv'
<1> DEFINE b == points[c]
           a == parent[b]
<1>1. /\ ~leaving /\ HasBlock(c) /\ "IN_CHILD" \notin flags[b] /\ IsOpen(b)
      /\ flags' = [flags EXCEPT ![a] = @ \ {"IN_CHILD"}]
      /\ parent' = [parent EXCEPT ![b] = Null]
      /\ UNCHANGED <<points, allocated, buffer, defers, leaving,
                     overwritten, lost, cleared, early>>
  BY DEF End, Appendable
<1>2. b \in Blocks /\ a \in Blocks
  BY <1>1, BlockOfDocument DEF Inv, TypeOK, IsOpen
<1>3. /\ flags'[a] = flags[a] \ {"IN_CHILD"}
      /\ \A d \in Blocks \ {a} : flags'[d] = flags[d]
      /\ parent'[b] = Null
      /\ \A d \in Blocks \ {b} : parent'[d] = parent[d]
  BY <1>1, <1>2 DEF Inv, TypeOK
<1>4. TypeOK'
  <2>1. flags' \in [Blocks -> SUBSET Flags]
    BY <1>1, <1>2 DEF Inv, TypeOK
  <2>2. parent' \in [Blocks -> Blocks \cup {Null}]
    BY <1>1, <1>2 DEF Inv, TypeOK
  <2> QED BY <1>1, <2>1, <2>2 DEF Inv, TypeOK
<1>5. DefersInv' /\ Declared' = Declared /\ Docs' = Docs /\ BlockInv' /\ CursorInv'
  BY <1>1, SameDefers DEF Inv, BlockInv, CursorInv
<1>6. BufferInv'
  <2>1. \A d \in Blocks : "CHILD" \in flags'[d] => "NO_FREE" \in flags'[d]
    BY <1>3 DEF Inv, BufferInv
  <2>2. \A d \in Blocks : OwnsItsBuffer(d)' => OwnsItsBuffer(d)
    BY <1>3 DEF OwnsItsBuffer
  <2> QED BY <2>1, <2>2, <1>1, <1>5 DEF Inv, BufferInv
<1> DEFINE Sound(d) == /\ d \in allocated /\ parent[d] \in allocated
                       /\ "IN_CHILD" \in flags[parent[d]]
                       /\ IsOpen(parent[d]) \/ parent[d] \in buffer
                       /\ \A e \in Blocks : parent[e] = parent[d] => e = d
<1>7. ChildInv'
  <2>1. \A d \in Blocks : IsOpen(d) => Sound(d)
    BY <1>1 DEF Inv, ChildInv
  <2> SUFFICES ASSUME NEW d \in Blocks, parent'[d] # Null
               PROVE  /\ d \in allocated /\ parent'[d] \in allocated
                      /\ "IN_CHILD" \in flags'[parent'[d]]
                      /\ parent'[parent'[d]] # Null \/ parent'[d] \in buffer
                      /\ \A e \in Blocks : parent'[e] = parent'[d] => e = d
    BY <1>1 DEF ChildInv, IsOpen
  <2>2. d # b /\ parent'[d] = parent[d] /\ IsOpen(d)
    BY <1>3 DEF IsOpen
  <2>3. Sound(d) /\ parent[d] \in Blocks
    BY <2>1, <2>2 DEF Inv, TypeOK, IsOpen
  <2>4. parent[d] # a /\ parent[d] # b
    BY <2>2, <2>3, <1>1, <1>2
  <2> HIDE DEF a, b
  <2>5. \A e \in Blocks : parent'[e] = parent[d] => e = d
    BY <2>2, <2>3, <1>3
  <2>6. "IN_CHILD" \in flags'[parent[d]] /\ parent'[parent[d]] = parent[parent[d]]
    BY <2>3, <2>4, <1>3
  <2> QED BY <2>2, <2>3, <2>5, <2>6 DEF IsOpen
<1>8. LeakInv'
  <2> HIDE DEF a, b
  <2>1. \A d \in allocated' \ overwritten' :
          /\ flags'[d] \subseteq {"INLINE", "IN_CHILD"}
          /\ \E u \in Docs' : points'[u] = d
    BY <1>1, <1>3, <1>5 DEF Inv, TypeOK, LeakInv
  <2>2. \A d \in buffer' \ overwritten' : d \in allocated' /\ "INLINE" \notin flags'[d]
    BY <1>1, <1>3 DEF Inv, TypeOK, LeakInv
  <2> QED BY <1>1, <2>1, <2>2 DEF Inv, LeakInv
<1> QED BY <1>4, <1>5, <1>6, <1>7, <1>8 DEF Inv

(* A document whose bson_t is written anew owns the buffer it says it has, *)
(* or the C library has cleared it; it is nobody's parent.                 *)
LEMMA WrittenKeepsInv ==
    ASSUME Inv, NEW v \in Variables, NEW long \in BOOLEAN, Written(v, long),
           leaving' \in BOOLEAN,
           points[v] \notin buffer' \cup cleared' => ~long,
           buffer' \ {points[v]} = buffer \ {points[v]},
           cleared \subseteq cleared', cleared' \subseteq Blocks,
           UNCHANGED <<points, allocated, parent, defers, early>>
    PROVE  Inv'
<1> DEFINE b == points[v]
<1>1. /\ ~leaving /\ HasBlock(v) /\ "IN_CHILD" \notin flags[b] /\ ~IsOpen(b)
      /\ flags' = [flags EXCEPT ![b] = IF long THEN ReplyFlags \ {"INLINE"} ELSE ReplyFlags]
      /\ overwritten' = overwritten \cup {b}
      /\ lost' = IF b \in buffer THEN lost \cup {b} ELSE lost
      /\ b \notin buffer' \cup cleared' => ~long
      /\ buffer' \ {b} = buffer \ {b}
  BY DEF Written, Replaceable, Overwrite
<1>2. b \in Blocks /\ b \in allocated /\ v \in Docs
  BY <1>1, BlockOfDocument
<1> HIDE DEF b
<1>3. /\ flags'[b] = IF long THEN ReplyFlags \ {"INLINE"} ELSE ReplyFlags
      /\ \A d \in Blocks \ {b} : flags'[d] = flags[d]
  BY <1>1, <1>2 DEF Inv, TypeOK
<1>4. TypeOK'
  <2>1. flags' \in [Blocks -> SUBSET Flags]
    BY <1>1, <1>2 DEF Inv, TypeOK, Flags, ReplyFlags
  <2>2. buffer' \subseteq Blocks
    BY <1>1, <1>2 DEF Inv, TypeOK
  <2> QED BY <1>1, <1>2, <2>1, <2>2 DEF Inv, TypeOK
<1>5. DefersInv' /\ Declared' = Declared /\ Docs' = Docs /\ BlockInv' /\ CursorInv'
  BY SameDefers DEF Inv, BlockInv, CursorInv
<1>6. BufferInv'
  <2>1. \A d \in Blocks : "CHILD" \in flags'[d] => "NO_FREE" \in flags'[d]
    BY <1>3 DEF Inv, BufferInv, ReplyFlags
  <2>2. ASSUME NEW u \in Docs, points[u] \in Blocks, OwnsItsBuffer(points[u])'
        PROVE  points[u] \in buffer' \cup cleared'
    <3>1. CASE points[u] = b
      BY <3>1, <2>2, <1>1, <1>3 DEF OwnsItsBuffer, ReplyFlags
    <3>2. CASE points[u] # b
      <4>1. flags'[points[u]] = flags[points[u]]
        BY <3>2, <2>2, <1>3
      <4>2. points[u] \in buffer \cup cleared
        BY <4>1, <2>2 DEF Inv, BufferInv, OwnsItsBuffer
      <4> QED BY <3>2, <4>2, <1>1
    <3> QED BY <3>1, <3>2
  <2> QED BY <2>1, <2>2, <1>5 DEF BufferInv
<1>7. ChildInv'
  <2> SUFFICES ASSUME NEW d \in Blocks, IsOpen(d)
               PROVE  /\ d \in allocated /\ parent[d] \in allocated
                      /\ "IN_CHILD" \in flags'[parent[d]]
                      /\ IsOpen(parent[d]) \/ parent[d] \in buffer'
                      /\ \A e \in Blocks : parent[e] = parent[d] => e = d
    BY DEF ChildInv, IsOpen
  <2>1. /\ d \in allocated /\ parent[d] \in allocated
        /\ "IN_CHILD" \in flags[parent[d]]
        /\ IsOpen(parent[d]) \/ parent[d] \in buffer
        /\ \A e \in Blocks : parent[e] = parent[d] => e = d
    BY <1>1 DEF Inv, ChildInv
  <2>2. parent[d] \in Blocks /\ parent[d] # b
    BY <2>1, <1>1 DEF Inv, TypeOK
  <2> QED BY <2>1, <2>2, <1>1, <1>3
<1>8. LeakInv'
  <2>1. \A d \in allocated' \ overwritten' :
          /\ flags'[d] \subseteq {"INLINE", "IN_CHILD"}
          /\ \E u \in Docs' : points'[u] = d
    BY <1>1, <1>3, <1>5 DEF Inv, TypeOK, LeakInv
  <2>2. \A d \in buffer' \ overwritten' : d \in allocated' /\ "INLINE" \notin flags'[d]
    BY <1>1, <1>3 DEF Inv, TypeOK, LeakInv
  <2> QED BY <1>1, <2>1, <2>2 DEF Inv, LeakInv
<1> QED BY <1>4, <1>5, <1>6, <1>7, <1>8 DEF Inv

LEMMA ReplyKeepsInv ==
    ASSUME Inv, NEW v \in Variables, NEW long \in BOOLEAN, Reply(v, long)
    PROVE  Inv'
<1>1. /\ Written(v, long)
      /\ buffer' = IF long THEN buffer \cup {points[v]} ELSE buffer \ {points[v]}
      /\ UNCHANGED <<points, allocated, parent, defers, leaving, cleared, early>>
  BY DEF Reply
<1>2. leaving' \in BOOLEAN /\ cleared' \subseteq Blocks
  BY <1>1 DEF Inv, TypeOK
<1> QED BY <1>1, <1>2, WrittenKeepsInv

LEMMA InitFailsKeepsInv ==
    ASSUME Inv, NEW v \in Variables, NEW long \in BOOLEAN, InitFails(v, long)
    PROVE  Inv'
<1>1. /\ Written(v, long)
      /\ buffer' = buffer \ {points[v]}
      /\ leaving' = TRUE
      /\ cleared' = cleared \cup {points[v]}
      /\ UNCHANGED <<points, allocated, parent, defers, early>>
  BY DEF InitFails
<1>2. points[v] \in Blocks
  BY <1>1 DEF Written, Replaceable, HasBlock
<1>3. leaving' \in BOOLEAN /\ cleared' \subseteq Blocks
  BY <1>1, <1>2 DEF Inv, TypeOK
<1> QED BY <1>1, <1>3, WrittenKeepsInv

LEMMA FindKeepsInv == Inv /\ Find => Inv'
<1> SUFFICES ASSUME Inv, Find PROVE Inv'
  OBVIOUS
<1>1. /\ ~leaving /\ Cursor \notin Declared
      /\ defers' = <<Cursor>> \o defers
      /\ early' = Declared
      /\ UNCHANGED <<points, allocated, flags, buffer, parent, leaving,
                     overwritten, lost, cleared>>
  BY DEF Find
<1>2. /\ defers' \in Seq(Variables \cup {Cursor})
      /\ Declared' = Declared \cup {Cursor}
      /\ DefersInv'
      /\ \A i, j \in DOMAIN defers' : i < j =>
            \/ defers'[i] = Cursor /\ defers'[j] \in Declared
            \/ \E k, l \in DOMAIN defers :
                  k < l /\ defers'[i] = defers[k] /\ defers'[j] = defers[l]
  BY <1>1, Push DEF Inv
<1>3. Docs' = Docs
  BY <1>2, PointerAssumption DEF Docs
<1>4. early' \subseteq Variables
  BY <1>1, ElementOfSeq, LenProperties DEF Inv, TypeOK, Declared
<1>5. TypeOK' /\ BlockInv' /\ LeakInv'
  BY <1>1, <1>2, <1>3, <1>4 DEF Inv, TypeOK, BlockInv, LeakInv
<1>6. BufferInv' /\ ChildInv'
  BY <1>1, <1>3 DEF Inv, BufferInv, OwnsItsBuffer, ChildInv, IsOpen
<1>7. CursorInv'
  <2>1. \A i, j \in DOMAIN defers' : defers'[i] = Cursor /\ i < j => defers'[j] \in early'
    BY <1>1, <1>2 DEF Declared
  <2> QED BY <2>1, <1>2 DEF CursorInv
<1> QED BY <1>2, <1>5, <1>6, <1>7 DEF Inv

LEMMA ReadNextKeepsInv ==
    ASSUME Inv, NEW v \in Variables, NEW doc \in {Cursor, Null}, ReadNext(v, doc)
    PROVE  Inv'
<1>1. /\ ~leaving /\ Cursor \in Declared /\ v \in Declared
      /\ points' = [points EXCEPT ![v] = doc]
      /\ overwritten' = IF HasBlock(v) THEN overwritten \cup {points[v]} ELSE overwritten
      /\ UNCHANGED <<allocated, flags, buffer, parent, defers, leaving,
                     lost, cleared, early>>
  BY DEF ReadNext
<1>2. /\ points'[v] = doc /\ doc \notin Blocks
      /\ \A u \in Docs \ {v} : points'[u] = points[u]
  BY <1>1, PointerAssumption DEF Inv, TypeOK, Docs
<1>3. DefersInv' /\ Declared' = Declared /\ Docs' = Docs
      /\ \A i, j \in DOMAIN defers' : defers'[i] = Cursor /\ i < j => defers'[j] \in early'
  BY <1>1, SameDefers
<1>4. overwritten' \subseteq Blocks
  BY <1>1 DEF Inv, TypeOK, HasBlock
<1>5. TypeOK'
  BY <1>1, <1>4 DEF Inv, TypeOK
<1>6. BlockInv' /\ CursorInv'
  BY <1>1, <1>2, <1>3 DEF Inv, BlockInv, CursorInv
<1>7. BufferInv' /\ ChildInv'
  BY <1>1, <1>2, <1>3 DEF Inv, BufferInv, OwnsItsBuffer, ChildInv, IsOpen
<1>8. LeakInv'
  <2>1. ASSUME NEW b \in allocated, b \notin overwritten'
        PROVE  flags[b] \subseteq {"INLINE", "IN_CHILD"} /\ \E u \in Docs : points'[u] = b
    <3>1. b \notin overwritten /\ (HasBlock(v) => points[v] # b)
      BY <1>1, <2>1
    <3>2. flags[b] \subseteq {"INLINE", "IN_CHILD"}
      BY <3>1 DEF Inv, LeakInv
    <3>3. PICK u \in Docs : points[u] = b
      BY <3>1 DEF Inv, LeakInv
    <3>4. u # v
      BY <3>1, <3>3, <1>1 DEF HasBlock, Inv, TypeOK
    <3> QED BY <3>2, <3>3, <3>4, <1>2
  <2>2. \A b \in buffer \ overwritten' : b \in allocated /\ "INLINE" \notin flags[b]
    BY <1>1 DEF Inv, LeakInv
  <2>3. lost \subseteq overwritten'
    BY <1>1 DEF Inv, LeakInv
  <2> QED BY <2>1, <2>2, <2>3, <1>1, <1>3 DEF LeakInv
<1> QED BY <1>3, <1>5, <1>6, <1>7, <1>8 DEF Inv

LEMMA LeaveKeepsInv == Inv /\ Leave => Inv'
<1> SUFFICES ASSUME Inv, Leave PROVE Inv'
  OBVIOUS
<1>1. leaving' = TRUE
      /\ UNCHANGED <<points, allocated, flags, buffer, parent, defers,
                     overwritten, lost, cleared, early>>
  BY DEF Leave
<1>2. DefersInv' /\ Declared' = Declared /\ Docs' = Docs /\ CursorInv'
  BY <1>1, SameDefers DEF Inv, CursorInv
<1>3. leaving' \in BOOLEAN
  BY <1>1
<1>4. TypeOK' /\ BlockInv' /\ LeakInv'
  BY <1>1, <1>2, <1>3 DEF Inv, TypeOK, BlockInv, LeakInv
<1>5. BufferInv' /\ ChildInv'
  BY <1>1, <1>2 DEF Inv, BufferInv, OwnsItsBuffer, ChildInv
<1> QED BY <1>2, <1>4, <1>5 DEF Inv

(* destroy() frees the bson_t of one document only.                        *)
LEMMA DestroyKeepsInv == Inv /\ Destroy => Inv'
<1> SUFFICES ASSUME Inv, Destroy PROVE Inv'
  OBVIOUS
<1> DEFINE v == Head(defers)
           freed == {points[v]} \cap Blocks
<1>1. /\ leaving /\ defers # <<>> /\ v \in Variables
      /\ defers' = Tail(defers)
      /\ buffer' = buffer \ {b \in freed : OwnsItsBuffer(b)}
      /\ allocated' = allocated \ {b \in freed : IsFreed(b)}
      /\ UNCHANGED <<points, flags, parent, leaving, overwritten, lost, cleared, early>>
  BY DEF Destroy
<1>2. /\ defers' \in Seq(Variables \cup {Cursor})
      /\ v \in Declared
      /\ Declared' = Declared \ {v}
      /\ DefersInv'
      /\ \A i, j \in DOMAIN defers' : i < j =>
            \E k, l \in DOMAIN defers :
               k < l /\ defers'[i] = defers[k] /\ defers'[j] = defers[l]
  BY <1>1, Pop DEF Inv
<1> HIDE DEF v
<1>3. v \in Docs /\ Docs' = Docs \ {v}
  BY <1>1, <1>2 DEF Docs
<1>4. \A u \in Docs' : points[u] \in Blocks => points[u] \notin freed
  BY <1>3 DEF Inv, BlockInv
<1>5. TypeOK'
  BY <1>1, <1>2 DEF Inv, TypeOK
<1>6. BlockInv'
  BY <1>1, <1>3, <1>4 DEF Inv, BlockInv
<1>7. BufferInv'
  BY <1>1, <1>3, <1>4 DEF Inv, BufferInv, OwnsItsBuffer
<1>8. CursorInv'
  <2>1. \A u \in Docs' : points'[u] = Cursor => Cursor \in Declared' \/ u \in early'
    BY <1>1, <1>2, <1>3, PointerAssumption DEF Inv, CursorInv
  <2>2. \A i, j \in DOMAIN defers' : defers'[i] = Cursor /\ i < j => defers'[j] \in early'
    BY <1>1, <1>2 DEF Inv, CursorInv
  <2> QED BY <2>1, <2>2 DEF CursorInv
<1>9. ChildInv'
  BY <1>1 DEF ChildInv
<1>10. LeakInv'
  <2>1. ASSUME NEW b \in allocated', b \notin overwritten
        PROVE  flags[b] \subseteq {"INLINE", "IN_CHILD"} /\ \E u \in Docs' : points[u] = b
    <3>1. b \in Blocks /\ b \in allocated /\ flags[b] \subseteq {"INLINE", "IN_CHILD"}
      BY <2>1, <1>1 DEF Inv, TypeOK, LeakInv
    <3>2. b \notin freed
      BY <3>1, <2>1, <1>1 DEF IsFreed
    <3> QED BY <3>1, <3>2, <2>1, <1>3 DEF Inv, LeakInv
  <2>2. ASSUME NEW b \in buffer', b \notin overwritten
        PROVE  b \in allocated' /\ "INLINE" \notin flags[b]
    <3>1. b \in Blocks /\ b \in buffer
      BY <1>1 DEF Inv, TypeOK
    <3>2. b \in allocated /\ "INLINE" \notin flags[b]
          /\ flags[b] \subseteq {"INLINE", "IN_CHILD"}
      BY <3>1, <2>2 DEF Inv, LeakInv
    <3>3. OwnsItsBuffer(b)
      BY <3>2 DEF OwnsItsBuffer
    <3> QED BY <3>1, <3>2, <3>3, <2>2, <1>1
  <2> QED BY <2>1, <2>2, <1>1 DEF Inv, LeakInv
<1> QED BY <1>2, <1>5, <1>6, <1>7, <1>8, <1>9, <1>10 DEF Inv

(* What is left to destroy when the cursor is gone was declared early.     *)
LEMMA DestroyCursorKeepsInv == Inv /\ DestroyCursor => Inv'
<1> SUFFICES ASSUME Inv, DestroyCursor PROVE Inv'
  OBVIOUS
<1>1. /\ leaving /\ defers # <<>> /\ Head(defers) = Cursor
      /\ defers' = Tail(defers)
      /\ UNCHANGED <<points, allocated, flags, buffer, parent, leaving,
                     overwritten, lost, cleared, early>>
  BY DEF DestroyCursor
<1>2. /\ defers' \in Seq(Variables \cup {Cursor})
      /\ Declared' = Declared \ {Cursor}
      /\ DefersInv'
      /\ \A i, j \in DOMAIN defers' : i < j =>
            \E k, l \in DOMAIN defers :
               k < l /\ defers'[i] = defers[k] /\ defers'[j] = defers[l]
      /\ Declared' \subseteq early
  BY <1>1, Pop DEF Inv
<1>3. Docs' = Docs /\ Docs \subseteq early
  BY <1>2, PointerAssumption DEF Docs
<1>4. TypeOK' /\ BlockInv' /\ LeakInv'
  BY <1>1, <1>2, <1>3 DEF Inv, TypeOK, BlockInv, LeakInv
<1>5. BufferInv' /\ ChildInv'
  BY <1>1, <1>3 DEF Inv, BufferInv, OwnsItsBuffer, ChildInv
<1>6. CursorInv'
  BY <1>1, <1>2, <1>3 DEF Inv, CursorInv
<1> QED BY <1>2, <1>4, <1>5, <1>6 DEF Inv

(* The invariant is inductive.                                             *)
LEMMA NextKeepsInv == Inv /\ [Next]_vars => Inv'
<1> SUFFICES ASSUME Inv, [Next]_vars PROVE Inv'
  OBVIOUS
<1>1. ASSUME NEW v \in Variables, NEW b \in Blocks, NEW long \in BOOLEAN,
             Declare(v, b, long)
      PROVE  Inv'
  BY <1>1, DeclareKeepsInv
<1>2. ASSUME NEW v \in Variables, Grow(v) \/ End(v) PROVE Inv'
  BY <1>2, GrowKeepsInv, EndKeepsInv
<1>3. ASSUME NEW p \in Variables, NEW c \in Variables, Begin(p, c) PROVE Inv'
  BY <1>3, BeginKeepsInv
<1>4. ASSUME NEW v \in Variables, NEW long \in BOOLEAN, Reply(v, long) \/ InitFails(v, long)
      PROVE  Inv'
  BY <1>4, ReplyKeepsInv, InitFailsKeepsInv
<1>5. ASSUME NEW v \in Variables, NEW doc \in {Cursor, Null}, ReadNext(v, doc) PROVE Inv'
  BY <1>5, ReadNextKeepsInv
<1>6. CASE Find \/ Leave \/ Destroy \/ DestroyCursor
  BY <1>6, FindKeepsInv, LeaveKeepsInv, DestroyKeepsInv, DestroyCursorKeepsInv
<1>7. CASE UNCHANGED vars
  <2>1. UNCHANGED <<points, allocated, flags, buffer, parent, defers, leaving,
                    overwritten, lost, cleared, early>>
    BY <1>7 DEF vars
  <2>2. DefersInv' /\ Docs' = Docs /\ Declared' = Declared /\ CursorInv'
    BY <2>1, SameDefers DEF Inv, CursorInv
  <2>3. TypeOK' /\ BlockInv' /\ LeakInv'
    BY <2>1, <2>2 DEF Inv, TypeOK, BlockInv, LeakInv
  <2>4. BufferInv' /\ ChildInv'
    BY <2>1, <2>2 DEF Inv, BufferInv, OwnsItsBuffer, ChildInv, IsOpen
  <2> QED BY <2>2, <2>3, <2>4 DEF Inv
<1> QED BY <1>1, <1>2, <1>3, <1>4, <1>5, <1>6, <1>7 DEF Next
-----------------------------------------------------------------------------
(* Whatever a program does with its documents, every variable has its type.*)
THEOREM DocumentsAreTyped == Spec => []TypeOK
<1>1. Inv => TypeOK
  BY DEF Inv
<1> QED BY InvInit, NextKeepsInv, <1>1, PTL DEF Spec

(* However many documents a scope has, whatever is done with them and      *)
(* wherever it is left, no destroy() frees what is not there, but for the  *)
(* two exceptions of the property.                                         *)
THEOREM DestroysFindTheirMemory == Spec => []DestroyFindsItsMemory
<1>1. Inv => DestroyFindsItsMemory
  BY DEF Inv, BlockInv, BufferInv, CursorInv, Docs, DestroyFindsItsMemory
<1> QED BY InvInit, NextKeepsInv, <1>1, PTL DEF Spec

(* However deep children are nested, what they write goes to a buffer that *)
(* somebody owns.                                                          *)
THEOREM ChildrenAlwaysWriteToABuffer == Spec => []ChildrenWriteToABuffer
<1>1. Inv => ChildrenWriteToABuffer
  BY DEF Inv, ChildInv, ChildrenWriteToABuffer
<1> QED BY InvInit, NextKeepsInv, <1>1, PTL DEF Spec

(* A document that was only appended to, however long it has grown and     *)
(* whatever children it was a parent of, returns its memory.               *)
THEOREM OnlyTheOverwrittenEverLeak == Spec => []OnlyTheOverwrittenLeaks
<1>1. Inv => OnlyTheOverwrittenLeaks
  <2> SUFFICES ASSUME Inv, leaving, defers = <<>>
               PROVE  allocated \cup buffer \cup lost \subseteq overwritten
    BY DEF OnlyTheOverwrittenLeaks, Left
  <2>1. Declared = {}
    BY EmptySeq, LenProperties DEF Declared, Inv, TypeOK
  <2> QED BY <2>1 DEF Inv, LeakInv, Docs
<1> QED BY InvInit, NextKeepsInv, <1>1, PTL DEF Spec
=============================================================================
