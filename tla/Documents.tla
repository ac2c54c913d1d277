----------------------------- MODULE Documents -----------------------------
(***************************************************************************)
(* The memory behind the Bson documents of one scope of a program.         *)
(*                                                                         *)
(* A Bson of bson.zig is a pointer to a bson_t of the C library.  new(),   *)
(* init() and newFromJson() put that bson_t on the heap; its data is kept  *)
(* inside of it while it is short and in a buffer of its own when it is    *)
(* not.  Other calls overwrite the bson_t, or the pointer: a reply is      *)
(* written into it, it becomes a child that writes to the buffer of its    *)
(* parent, a cursor makes it point to the document it has read.  A program *)
(* declares each document with `defer destroy()`, so that the documents    *)
(* are destroyed when the scope is left, the last one first, whatever has  *)
(* happened to them.  So is the cursor of a query, which owns the document *)
(* it has read: a program may declare it before a document or after it.    *)
(*                                                                         *)
(* A call that fails has the effect on memory of one that succeeds, or     *)
(* none, and is left by `try`: it is that call, or no call, and Leave.     *)
(* initFromJson is the exception.                                          *)
(***************************************************************************)
EXTENDS Sequences

CONSTANTS Variables,  \* of type Bson
          Blocks,     \* the bson_t's on the heap
          Cursor,     \* a cursor, and the bson_t in it
          Null,
          Uses        \* what the program does with documents, beside appends

ASSUME UseAssumption == Uses \subseteq {"child", "reply", "next", "initFromJson"}

ASSUME PointerAssumption ==
    /\ Cursor \notin Blocks \cup Variables
    /\ Null \notin Blocks
    /\ Cursor # Null

VARIABLES points,     \* the bson_t of each document
          allocated,  \* the bson_t's in use
          flags,      \* bson_flags_t of each bson_t
          buffer,     \* the bson_t's with a buffer of their own
          parent,     \* of each open child, the bson_t it is appended to
          defers,     \* the documents, and the cursor, to destroy, the last
                      \* declared first
          leaving,    \* the scope is being left
          overwritten, \* bson_t's that are not what new() made of them any more
          lost,       \* bson_t's that were overwritten when they had a buffer
          cleared,    \* bson_t's the C library destroyed in initFromJson()
          early       \* documents declared before the cursor

vars == <<points, allocated, flags, buffer, parent, defers, leaving,
          overwritten, lost, cleared, early>>

Flags == {"INLINE", "STATIC", "RDONLY", "CHILD", "IN_CHILD", "NO_FREE"}

NewFlags   == {"INLINE"}
ReplyFlags == {"INLINE", "STATIC"}

(* Mutant of ChildFlags: a child that owns what it points to. *)
ChildFlags_Owner == {"CHILD", "STATIC"}

ChildFlags == {"CHILD", "NO_FREE", "STATIC"}

Declared == {defers[i] : i \in DOMAIN defers}
HasBlock(v) == v \in Declared /\ points[v] \in Blocks
IsOpen(b) == parent[b] # Null

(* The program appends to v: the C library stops one that does so while a  *)
(* child of v is open, and a child is invalid when it has been ended.      *)
Appendable(v) ==
    /\ ~leaving
    /\ HasBlock(v)
    /\ "IN_CHILD" \notin flags[points[v]]
    /\ "CHILD" \in flags[points[v]] => IsOpen(points[v])

(* The program uses v for something else: it is nobody's child or parent. *)
Replaceable(v) ==
    /\ ~leaving
    /\ HasBlock(v)
    /\ "IN_CHILD" \notin flags[points[v]]
    /\ ~IsOpen(points[v])

Init ==
    /\ points = [v \in Variables |-> Null]
    /\ allocated = {}
    /\ flags = [b \in Blocks |-> NewFlags]
    /\ buffer = {}
    /\ parent = [b \in Blocks |-> Null]
    /\ defers = <<>>
    /\ leaving = FALSE
    /\ overwritten = {}
    /\ lost = {}
    /\ cleared = {}
    /\ early = {}
-----------------------------------------------------------------------------
(* Mutant of Declare: init() initialises a bson_t in the variable. *)
Declare_InPlace(v, b, long) ==
    /\ ~leaving
    /\ v \notin Declared
    /\ points' = [points EXCEPT ![v] = v]
    /\ defers' = <<v>> \o defers
    /\ UNCHANGED <<allocated, flags, buffer, parent, leaving, overwritten, lost, cleared, early>>

(* new(), init(), or newFromJson() of a text that is short, or not. *)
Declare(v, b, long) ==
    /\ ~leaving
    /\ v \notin Declared
    /\ b \notin allocated
    /\ points' = [points EXCEPT ![v] = b]
    /\ allocated' = allocated \cup {b}
    /\ flags' = [flags EXCEPT ![b] = IF long THEN {} ELSE NewFlags]
    /\ buffer' = IF long THEN buffer \cup {b} ELSE buffer
    /\ defers' = <<v>> \o defers
    /\ UNCHANGED <<parent, leaving, overwritten, lost, cleared, early>>

(* An append to a document that outgrows its bson_t.  An open child grows  *)
(* the buffer of its parent, and a shorter append changes nothing here.    *)
Grow(v) ==
    /\ Appendable(v)
    /\ "INLINE" \in flags[points[v]]
    /\ flags' = [flags EXCEPT ![points[v]] = @ \ {"INLINE"}]
    /\ buffer' = buffer \cup {points[v]}
    /\ UNCHANGED <<points, allocated, parent, defers, leaving, overwritten, lost, cleared, early>>

(* What a bson_t that is overwritten leaves behind. *)
Overwrite(b) ==
    /\ overwritten' = overwritten \cup {b}
    /\ lost' = IF b \in buffer THEN lost \cup {b} ELSE lost

(* Who has a buffer when b becomes a child of p.  Its mutant forgets that   *)
(* the data of p has to be moved to one.                                   *)
BuffersWithChild_Inline(p, b) == buffer \ {b}

BuffersWithChild(p, b) ==
    (buffer \ {b}) \cup (IF "CHILD" \in flags[p] THEN {} ELSE {p})

(* appendDocumentBegin(), appendArrayBegin().  A parent with its data      *)
(* inside gets a buffer; the child writes to the buffer of the parent.     *)
Begin(p, c) ==
    /\ "child" \in Uses
    /\ Appendable(p)
    /\ Replaceable(c)
    /\ p # c
    /\ flags' = [flags EXCEPT ![points[p]] = (@ \ {"INLINE"}) \cup {"IN_CHILD"},
                              ![points[c]] = ChildFlags]
    /\ parent' = [parent EXCEPT ![points[c]] = points[p]]
    /\ Overwrite(points[c])
    /\ buffer' = BuffersWithChild(points[p], points[c])
    /\ UNCHANGED <<points, allocated, defers, leaving, cleared, early>>

(* appendDocumentEnd(), appendArrayEnd() *)
End(c) ==
    /\ Appendable(c)
    /\ IsOpen(points[c])
    /\ flags' = [flags EXCEPT ![parent[points[c]]] = @ \ {"IN_CHILD"}]
    /\ parent' = [parent EXCEPT ![points[c]] = Null]
    /\ UNCHANGED <<points, allocated, buffer, defers, leaving, overwritten, lost, cleared, early>>

(* A document given to a command for its reply, which may be long, or      *)
(* initialised anew by initFromJson().                                     *)
Written(v, long) ==
    /\ Replaceable(v)
    /\ flags' = [flags EXCEPT ![points[v]] =
                   IF long THEN ReplyFlags \ {"INLINE"} ELSE ReplyFlags]
    /\ Overwrite(points[v])

Reply(v, long) ==
    /\ Uses \cap {"reply", "initFromJson"} # {}
    /\ Written(v, long)
    /\ buffer' = IF long THEN buffer \cup {points[v]} ELSE buffer \ {points[v]}
    /\ UNCHANGED <<points, allocated, parent, defers, leaving, cleared, early>>

(* initFromJson() of a text with an error in it: the C library frees what  *)
(* it has built, and the program leaves the scope.                         *)
InitFails(v, long) ==
    /\ "initFromJson" \in Uses
    /\ Written(v, long)
    /\ buffer' = buffer \ {points[v]}
    /\ leaving' = TRUE
    /\ cleared' = cleared \cup {points[v]}
    /\ UNCHANGED <<points, allocated, parent, defers, early>>

(* findWithOpts() *)
Find ==
    /\ "next" \in Uses
    /\ ~leaving
    /\ Cursor \notin Declared
    /\ defers' = <<Cursor>> \o defers
    /\ early' = Declared
    /\ UNCHANGED <<points, allocated, flags, buffer, parent, leaving,
                   overwritten, lost, cleared>>

(* Cursor.next(): the document points to what the cursor has read, and to  *)
(* nothing when there is no more.                                          *)
ReadNext(v, doc) ==
    /\ ~leaving
    /\ Cursor \in Declared
    /\ v \in Declared
    /\ HasBlock(v) => Replaceable(v)
    /\ points' = [points EXCEPT ![v] = doc]
    /\ overwritten' = IF HasBlock(v) THEN overwritten \cup {points[v]}
                                     ELSE overwritten
    /\ UNCHANGED <<allocated, flags, buffer, parent, defers, leaving, lost, cleared, early>>

(* The scope ends, returns, or is left by the `try` of a call that fails. *)
Leave ==
    /\ ~leaving
    /\ leaving' = TRUE
    /\ UNCHANGED <<points, allocated, flags, buffer, parent, defers,
                   overwritten, lost, cleared, early>>
-----------------------------------------------------------------------------
OwnsItsBuffer(b) == flags[b] \cap {"INLINE", "RDONLY", "NO_FREE"} = {}
IsFreed(b) == "STATIC" \notin flags[b]

(* Mutant of Destroy: the data is freed and the bson_t is not. *)
Destroy_Buffer ==
    /\ leaving
    /\ defers # <<>>
    /\ Head(defers) \in Variables
    /\ defers' = Tail(defers)
    /\ buffer' = buffer \ {b \in {points[Head(defers)]} \cap Blocks : OwnsItsBuffer(b)}
    /\ UNCHANGED <<points, allocated, flags, parent, leaving, overwritten, lost, cleared, early>>

(* destroy(): nothing is done for a document that points to nothing, and   *)
(* nothing is freed of one that a cursor has read.                         *)
Destroy ==
    LET freed == {points[Head(defers)]} \cap Blocks
    IN  /\ leaving
        /\ defers # <<>>
        /\ Head(defers) \in Variables
        /\ defers' = Tail(defers)
        /\ buffer' = buffer \ {b \in freed : OwnsItsBuffer(b)}
        /\ allocated' = allocated \ {b \in freed : IsFreed(b)}
        /\ UNCHANGED <<points, flags, parent, leaving, overwritten, lost, cleared, early>>

(* Cursor.destroy(): the document it has read is gone. *)
DestroyCursor ==
    /\ leaving
    /\ defers # <<>>
    /\ Head(defers) = Cursor
    /\ defers' = Tail(defers)
    /\ UNCHANGED <<points, allocated, flags, buffer, parent, leaving,
                   overwritten, lost, cleared, early>>

Next ==
    \/ \E v \in Variables, b \in Blocks, long \in BOOLEAN : Declare(v, b, long)
    \/ \E v \in Variables : Grow(v) \/ End(v)
    \/ \E p, c \in Variables : Begin(p, c)
    \/ \E v \in Variables, long \in BOOLEAN : Reply(v, long) \/ InitFails(v, long)
    \/ \E v \in Variables, doc \in {Cursor, Null} : ReadNext(v, doc)
    \/ Find
    \/ Leave
    \/ Destroy
    \/ DestroyCursor

Spec == Init /\ [][Next]_vars
-----------------------------------------------------------------------------
TypeOK ==
    /\ points \in [Variables -> Blocks \cup {Cursor, Null}]
    /\ allocated \subseteq Blocks
    /\ flags \in [Blocks -> SUBSET Flags]
    /\ buffer \subseteq Blocks
    /\ parent \in [Blocks -> Blocks \cup {Null}]
    /\ defers \in Seq(Variables \cup {Cursor})
    /\ leaving \in BOOLEAN
    /\ overwritten \subseteq Blocks
    /\ lost \subseteq Blocks
    /\ cleared \subseteq Blocks
    /\ early \subseteq Variables

(* Whatever a program did with its documents, and wherever it left the     *)
(* scope, each destroy() that is left to do finds a bson_t that has not    *)
(* been freed and that no other one will free and, if it is going to free  *)
(* a buffer, a buffer of its own that has not been freed either.  There    *)
(* are two exceptions: when initFromJson() has failed the C library has    *)
(* freed the buffer, and a document that was declared before the cursor    *)
(* finds the bson_t of a cursor that is gone.                              *)
DestroyFindsItsMemory ==
    \A v \in Declared \cap Variables :
        LET b == points[v]
        IN  /\ b \in Blocks =>
                 /\ b \in allocated
                 /\ OwnsItsBuffer(b) => b \in buffer \cup cleared
                 /\ \A u \in Declared \cap Variables : points[u] = b => u = v
            /\ b = Cursor => Cursor \in Declared \/ v \in early

(* As long as the scope is not left an open child writes to a buffer that  *)
(* somebody owns: its parent, which knows that it has a child, is an open  *)
(* child itself or is in use and has a buffer.                             *)
ChildrenWriteToABuffer ==
    ~leaving => \A b \in Blocks : IsOpen(b) =>
        /\ "IN_CHILD" \in flags[parent[b]]
        /\ IsOpen(parent[b]) \/ parent[b] \in allocated \cap buffer

(* When a scope has been left, the only memory it has not returned is that *)
(* of documents that a call overwrote.                                     *)
Left == leaving /\ defers = <<>>

OnlyTheOverwrittenLeaks ==
    Left => allocated \cup buffer \cup lost \subseteq overwritten

(* The comments of Bson: every document that is destroyed when the program *)
(* is done with it returns its memory.                                     *)
NothingLeaks == Left => allocated \cup buffer \cup lost = {}
=============================================================================
