-------------------------- MODULE BsonErrorProofs --------------------------
(***************************************************************************)
(* Theorems about BsonError, for any number of threads, of messages and of *)
(* operations.                                                             *)
(***************************************************************************)
EXTENDS BsonError, SequenceTheorems, TLAPS

(* Every call keeps its error where Place says, only the innermost call of *)
(* a thread is not yet known to have failed, and only a program calls      *)
(* something else before it reads an error.                                *)
CallInv(t) ==
    \A i \in 1 .. Len(calls[t]) :
        LET c == calls[t][i]
        IN  /\ c.at = Place(c.op, t, i)
            /\ i < Len(calls[t]) => c.op \in ProgramOps
            /\ c.pc # "called" => c.message \in Messages

(* The variable on the stack of a call that failed holds its message.      *)
StackInv ==
    \A t \in Threads : \A i \in 1 .. Len(calls[t]) :
        calls[t][i].pc = "failed" /\ calls[t][i].op \in StackOps
            => stored[Local(t, i)] = calls[t][i].message

(* As long as the threads take turns only one of them is in a call.        *)
TurnInv ==
    ~mixed => \A t, u \in Threads : calls[t] # <<>> /\ calls[u] # <<>> => t = u

(* Then the shared variable, too, holds the message of the innermost call. *)
HelperInv ==
    ~mixed => \A t \in Threads :
        In(t, "failed") /\ Inner(t).op \in HelperOps
            => stored[Global] = Inner(t).message

Inv == /\ TypeOK
       /\ \A t \in Threads : CallInv(t)
       /\ StackInv
       /\ StackErrorsAreOwn
-----------------------------------------------------------------------------
(* Every call has a place to keep its error in.                            *)
LEMMA PlaceIsPlace ==
    ASSUME NEW op \in Operations, NEW t \in Threads, NEW depth \in 1 .. MaxDepth
    PROVE  Place(op, t, depth) \in Places
BY DEF Place, Places

(* The variables of two calls are different, and differ from the shared    *)
(* one.                                                                    *)
LEMMA PlacesDiffer ==
    ASSUME NEW t, NEW i, NEW u, NEW j
    PROVE  /\ Local(t, i) # Global
           /\ Local(t, i) = Local(u, j) => t = u /\ i = j
BY DEF Local, Global

(* The calls of a thread that is in one are a short sequence with a last.  *)
LEMMA InCall ==
    ASSUME TypeOK, NEW t \in Threads, calls[t] # <<>>
    PROVE  /\ calls[t] \in Seq(Calls)
           /\ Len(calls[t]) \in 1 .. MaxDepth
           /\ Inner(t) \in Calls
<1>1. calls[t] \in Seq(Calls) /\ Len(calls[t]) <= MaxDepth
  BY DEF TypeOK
<1>2. Len(calls[t]) \in Nat \ {0}
  BY <1>1, EmptySeq
<1>3. Inner(t) \in Calls
  BY <1>1, <1>2, ElementOfSeq DEF Inner
<1> DEFINE n == Len(calls[t])
<1>4. n \in 1 .. MaxDepth
  <2>1. n \in Nat \ {0} /\ n <= 2
    BY <1>1, <1>2 DEF MaxDepth
  <2> HIDE DEF n
  <2> QED BY <2>1 DEF MaxDepth
<1> QED BY <1>1, <1>3, <1>4

(* A call that has started is the innermost one of its thread; the calls   *)
(* it was made in stay as they are.                                        *)
LEMMA StartEffect ==
    ASSUME TypeOK, NEW t \in Threads, NEW op \in Operations, Start(t, op)
    PROVE  LET n == Len(calls[t]) + 1
           IN  /\ n \in 1 .. MaxDepth
               /\ calls' \in [Threads -> Seq(Calls)]
               /\ Len(calls'[t]) = n
               /\ calls'[t][n] = Call(op, t, n)
               /\ \A i \in 1 .. n - 1 : calls'[t][i] = calls[t][i]
               /\ \A u \in Threads \ {t} : calls'[u] = calls[u]
<1> DEFINE n == Len(calls[t]) + 1
<1>1. n \in 1 .. MaxDepth
  BY DEF TypeOK, Start, MaxDepth
<1>2. Call(op, t, n) \in Calls
  BY <1>1, PlaceIsPlace DEF Call, Calls
<1>3. calls' = [calls EXCEPT ![t] = Append(@, Call(op, t, n))]
  BY DEF Start
<1>4. calls[t] \in Seq(Calls)
  BY DEF TypeOK
<1> QED BY <1>1, <1>2, <1>3, <1>4 DEF TypeOK

(* A step of a call changes the innermost call of its thread only.         *)
LEMMA StepEffect ==
    ASSUME TypeOK, NEW t \in Threads, calls[t] # <<>>,
           NEW pc \in {"called", "failing", "failed"},
           NEW message \in Messages \cup {Undefined},
           Step(t, pc, message)
    PROVE  LET n == Len(calls[t])
           IN  /\ n \in 1 .. MaxDepth
               /\ calls' \in [Threads -> Seq(Calls)]
               /\ Len(calls'[t]) = n
               /\ calls'[t][n] = Stepped(calls[t][n], pc, message)
               /\ \A i \in 1 .. n - 1 : calls'[t][i] = calls[t][i]
               /\ \A u \in Threads \ {t} : calls'[u] = calls[u]
<1> DEFINE n == Len(calls[t])
           c == Stepped(calls[t][n], pc, message)
<1>1. calls[t] \in Seq(Calls) /\ n \in 1 .. MaxDepth
  BY InCall
<1>2. c \in Calls
  <2>1. calls[t][n] \in Calls
    BY InCall DEF Inner
  <2> QED BY <2>1 DEF Calls, Stepped
<1>3. calls' = [calls EXCEPT ![t][n] = c]
  BY DEF Step, TypeOK
<1> HIDE DEF c
<1>4. calls'[t] = [calls[t] EXCEPT ![n] = c]
  BY <1>3 DEF TypeOK
<1>5. calls'[t] \in Seq(Calls) /\ Len(calls'[t]) = n
  BY <1>1, <1>2, <1>4
<1>6. calls'[t][n] = c /\ \A i \in 1 .. n - 1 : calls'[t][i] = calls[t][i]
  BY <1>1, <1>4
<1> QED BY <1>1, <1>3, <1>5, <1>6 DEF TypeOK, c

(* A call that returns leaves the calls it was made in as they were.       *)
LEMMA ReturnEffect ==
    ASSUME TypeOK, NEW t \in Threads, calls[t] # <<>>, Return(t)
    PROVE  LET n == Len(calls[t])
           IN  /\ n \in 1 .. MaxDepth
               /\ calls' \in [Threads -> Seq(Calls)]
               /\ Len(calls'[t]) = n - 1
               /\ \A i \in 1 .. n - 1 : calls'[t][i] = calls[t][i]
               /\ \A u \in Threads \ {t} : calls'[u] = calls[u]
<1> DEFINE n == Len(calls[t])
<1>1. calls[t] \in Seq(Calls) /\ n \in 1 .. MaxDepth
  BY InCall
<1>2. calls'[t] = SubSeq(calls[t], 1, n - 1)
  BY DEF Return, TypeOK
<1>3. /\ calls'[t] \in Seq(Calls)
      /\ Len(calls'[t]) = n - 1
      /\ \A i \in 1 .. n - 1 : calls'[t][i] = calls[t][i]
  BY <1>1, <1>2
<1> QED BY <1>1, <1>3 DEF Return, TypeOK
-----------------------------------------------------------------------------
(* The inductive invariant holds when the process starts.                  *)
LEMMA InvInit == Init => Inv
<1> SUFFICES ASSUME Init PROVE Inv
  OBVIOUS
<1>1. Len(<<>>) = 0 /\ <<>> \in Seq(Calls)
  BY EmptySeq
<1>2. \A t \in Threads : calls[t] = <<>>
  BY DEF Init
<1>3. TypeOK
  <2>1. mixed \in BOOLEAN
    BY Zenon DEF Init
  <2> QED BY <1>1, <2>1 DEF Init, TypeOK, NoRead, Contents, MaxDepth
<1>4. \A t \in Threads : CallInv(t)
  BY <1>1, <1>2 DEF CallInv
<1>5. StackInv
  BY <1>1, <1>2 DEF StackInv
<1>6. StackErrorsAreOwn
  BY DEF Init, NoRead, StackErrorsAreOwn
<1> QED BY <1>3, <1>4, <1>5, <1>6 DEF Inv

(* Starting a call writes no variable but the one of that call.            *)
LEMMA StartKeepsInv ==
    ASSUME Inv, NEW t \in Threads, NEW op \in Operations, Start(t, op)
    PROVE  Inv'
<1> DEFINE n == Len(calls[t]) + 1
<1>1. /\ n \in 1 .. MaxDepth
      /\ calls' \in [Threads -> Seq(Calls)]
      /\ Len(calls'[t]) = n
      /\ calls'[t][n] = Call(op, t, n)
      /\ \A i \in 1 .. n - 1 : calls'[t][i] = calls[t][i]
      /\ \A u \in Threads \ {t} : calls'[u] = calls[u]
  BY StartEffect DEF Inv
<1>2. n - 1 = Len(calls[t]) /\ n \in Nat /\ n <= MaxDepth
  <2>1. Len(calls[t]) \in Nat
    BY LenProperties DEF Inv, TypeOK
  <2> DEFINE m == Len(calls[t])
  <2>2. m \in Nat /\ n = m + 1 /\ m + 1 \in 1 .. MaxDepth
    BY <1>1, <2>1
  <2> HIDE DEF m, n
  <2>3. n - 1 = m /\ n \in Nat /\ n <= MaxDepth
    BY <2>2 DEF MaxDepth
  <2> QED BY <2>3 DEF m
<1> HIDE DEF n
<1>3. TypeOK'
  <2>1. stored' \in [Places -> Contents]
    BY DEF Inv, TypeOK, Start, Contents
  <2>2. \A u \in Threads : Len(calls'[u]) <= MaxDepth
    BY <1>1, <1>2 DEF Inv, TypeOK
  <2> QED BY <1>1, <2>1, <2>2 DEF Inv, TypeOK, Start
<1>4. ASSUME NEW u \in Threads PROVE CallInv(u)'
  <2>1. CASE u # t
    BY <1>1, <2>1 DEF Inv, CallInv
  <2>2. CASE u = t
    <3>1. n > 1 => Inner(t).op \in ProgramOps
      BY <1>2 DEF Start, n
    <3>2. Call(op, t, n).at = Place(op, t, n) /\ Call(op, t, n).op = op
          /\ Call(op, t, n).pc = "called"
      BY DEF Call
    <3>3. ASSUME NEW i \in 1 .. n
          PROVE  LET c == calls'[t][i]
                 IN  /\ c.at = Place(c.op, t, i)
                     /\ i < n => c.op \in ProgramOps
                     /\ c.pc # "called" => c.message \in Messages
      <4>1. CASE i = n
        BY <1>1, <3>2, <4>1
      <4>2. CASE i \in 1 .. n - 2
        BY <1>1, <1>2, <4>2 DEF Inv, CallInv
      <4>3. CASE i = n - 1
        <5>1. i \in 1 .. n - 1 /\ i = Len(calls[t])
          BY <1>2, <4>3
        <5>2. calls'[t][i] = Inner(t)
          BY <1>1, <5>1 DEF Inner
        <5>3. CallInv(t) /\ i \in 1 .. Len(calls[t])
          BY <5>1, <1>2 DEF Inv
        <5> QED BY <5>1, <5>2, <5>3, <3>1, <1>1, <1>2 DEF CallInv, Inner
      <4> QED BY <4>1, <4>2, <4>3, <1>2
    <3> QED BY <3>3, <1>1, <2>2 DEF CallInv
  <2> QED BY <2>1, <2>2
<1>5. StackInv'
  <2> SUFFICES ASSUME NEW u \in Threads, NEW i \in 1 .. Len(calls'[u]),
                      calls'[u][i].pc = "failed", calls'[u][i].op \in StackOps
               PROVE  stored'[Local(u, i)] = calls'[u][i].message
    BY DEF StackInv
  <2>1. ~(u = t /\ i = n)
    BY <1>1 DEF Call
  <2>2. i \in 1 .. Len(calls[u]) /\ calls'[u][i] = calls[u][i]
    BY <2>1, <1>1, <1>2
  <2>3. stored[Local(u, i)] = calls[u][i].message
    BY <2>2 DEF Inv, StackInv
  <2>4. Local(u, i) \in Places
    BY <2>2, <1>2 DEF Inv, TypeOK, Places, MaxDepth
  <2>5. Local(u, i) # Local(t, n)
    BY <2>1, PlacesDiffer
  <2>6. stored'[Local(u, i)] = stored[Local(u, i)]
    BY <2>4, <2>5 DEF Inv, TypeOK, Start, n
  <2> QED BY <2>2, <2>3, <2>6
<1>6. StackErrorsAreOwn'
  BY DEF Inv, Start, StackErrorsAreOwn
<1> QED BY <1>3, <1>4, <1>5, <1>6 DEF Inv

(* A call has its error where Place says, and in no other call's variable. *)
LEMMA InnerPlace ==
    ASSUME Inv, NEW t \in Threads, calls[t] # <<>>
    PROVE  /\ Len(calls[t]) \in 1 .. Len(calls[t])
           /\ Inner(t).at \in Places
           /\ Inner(t).at = Place(Inner(t).op, t, Len(calls[t]))
           /\ \A u \in Threads : \A i \in 1 .. Len(calls[u]) :
                 /\ Local(u, i) \in Places
                 /\ ~(u = t /\ i = Len(calls[t])) => Inner(t).at # Local(u, i)
<1>1. Inner(t) \in Calls /\ Len(calls[t]) \in 1 .. MaxDepth
  BY InCall DEF Inv
<1> DEFINE n == Len(calls[t])
<1>2. n \in 1 .. n
  <2>1. n \in Nat /\ n >= 1
    BY <1>1 DEF MaxDepth
  <2> HIDE DEF n
  <2> QED BY <2>1
<1>3. Inner(t).at = Place(Inner(t).op, t, n)
  BY <1>2 DEF Inv, CallInv, Inner
<1>4. ASSUME NEW u \in Threads, NEW i \in 1 .. Len(calls[u])
      PROVE  /\ Local(u, i) \in Places
             /\ ~(u = t /\ i = n) => Inner(t).at # Local(u, i)
  <2>1. Len(calls[u]) \in Nat /\ Len(calls[u]) <= MaxDepth
    BY LenProperties DEF Inv, TypeOK
  <2> DEFINE m == Len(calls[u])
  <2>2. m \in Nat /\ m <= MaxDepth /\ i \in 1 .. m
    BY <2>1
  <2> HIDE DEF m
  <2>3. i \in 1 .. MaxDepth
    BY <2>2 DEF MaxDepth
  <2>4. Local(u, i) \in Places
    BY <2>3 DEF Places
  <2> QED BY <2>4, <1>3, PlacesDiffer, Zenon DEF Place
<1> QED BY <1>1, <1>2, <1>3, <1>4 DEF Calls

(* The calls a thread is still in when one returns keep what they had.     *)
LEMMA ReturnKeepsCalls ==
    ASSUME Inv, NEW t \in Threads, calls[t] # <<>>, Return(t), stored' = stored
    PROVE  /\ calls' \in [Threads -> Seq(Calls)]
           /\ \A u \in Threads : Len(calls'[u]) <= MaxDepth
           /\ \A u \in Threads : CallInv(u)'
           /\ StackInv'
<1> DEFINE n == Len(calls[t])
<1>1. /\ n \in 1 .. MaxDepth
      /\ calls' \in [Threads -> Seq(Calls)]
      /\ Len(calls'[t]) = n - 1
      /\ \A i \in 1 .. n - 1 : calls'[t][i] = calls[t][i]
      /\ \A u \in Threads \ {t} : calls'[u] = calls[u]
  BY ReturnEffect DEF Inv
<1>2. \A u \in Threads : Len(calls[u]) <= MaxDepth
  BY DEF Inv, TypeOK
<1>3. n = Len(calls[t])
  OBVIOUS
<1> HIDE DEF n
<1>4. \A u \in Threads : Len(calls'[u]) <= MaxDepth
  BY <1>1, <1>2 DEF MaxDepth
<1>5. ASSUME NEW u \in Threads, NEW i \in 1 .. Len(calls'[u])
      PROVE  /\ i \in 1 .. Len(calls[u])
             /\ calls'[u][i] = calls[u][i]
             /\ i < Len(calls'[u]) => i < Len(calls[u])
  BY <1>1, <1>3 DEF MaxDepth
<1>6. \A u \in Threads : CallInv(u)'
  BY <1>5, Zenon DEF Inv, CallInv, Place, Local, Global
<1>7. StackInv'
  BY <1>5, Zenon DEF Inv, StackInv, Local
<1> QED BY <1>1, <1>4, <1>6, <1>7

(* A call that succeeds leaves no trace.                                   *)
LEMMA SucceedKeepsInv ==
    ASSUME Inv, NEW t \in Threads, Succeed(t)
    PROVE  Inv'
<1>1. calls[t] # <<>> /\ Return(t) /\ stored' = stored
  BY DEF Succeed, In
<1>2. TypeOK'
  BY <1>1, ReturnKeepsCalls DEF Inv, TypeOK, Succeed
<1>3. StackErrorsAreOwn'
  BY DEF Inv, Succeed, StackErrorsAreOwn
<1> QED BY <1>1, <1>2, <1>3, ReturnKeepsCalls DEF Inv

(* Nor does one whose error nobody looks at.                               *)
LEMMA ForgetKeepsInv ==
    ASSUME Inv, NEW t \in Threads, Forget(t)
    PROVE  Inv'
<1>1. calls[t] # <<>> /\ Return(t) /\ stored' = stored
  BY DEF Forget, In
<1>2. TypeOK'
  BY <1>1, ReturnKeepsCalls DEF Inv, TypeOK, Forget
<1>3. StackErrorsAreOwn'
  BY DEF Inv, Forget, StackErrorsAreOwn
<1> QED BY <1>1, <1>2, <1>3, ReturnKeepsCalls DEF Inv

(* Reading an error changes nothing but what has been read.                *)
LEMMA ReadKeepsInv ==
    ASSUME Inv, NEW t \in Threads, Read(t)
    PROVE  Inv'
<1> DEFINE n == Len(calls[t])
<1>1. calls[t] # <<>> /\ Return(t) /\ stored' = stored
  BY DEF Read, In
<1>2. Inner(t) \in Calls /\ Inner(t).at \in Places
  BY <1>1, InCall, InnerPlace DEF Inv
<1>3. read' = [op |-> Inner(t).op, wanted |-> Inner(t).message,
               got |-> stored[Inner(t).at], last |-> last]
  BY DEF Read
<1>4. TypeOK'
  <2>1. read' \in [op : Operations \cup {"none"}, wanted : Contents,
                   got : Contents, last : Contents]
    BY <1>2, <1>3 DEF Inv, TypeOK, Calls, Contents
  <2> QED BY <1>1, <2>1, ReturnKeepsCalls DEF Inv, TypeOK, Read
<1>5. StackErrorsAreOwn'
  <2> SUFFICES ASSUME Inner(t).op \in StackOps
               PROVE  stored[Inner(t).at] = Inner(t).message
    BY <1>3 DEF StackErrorsAreOwn
  <2>1. Inner(t).at = Local(t, n)
    BY <1>1, InnerPlace DEF Place
  <2>2. n \in 1 .. n
    BY <1>1, InnerPlace
  <2>3. Inner(t).pc = "failed" /\ Inner(t) = calls[t][n]
    BY DEF Read, In, Inner
  <2> QED BY <2>1, <2>2, <2>3 DEF Inv, StackInv
<1> QED BY <1>1, <1>4, <1>5, ReturnKeepsCalls DEF Inv

(* Writing the error of a call, in part or as a whole, touches the         *)
(* variable of no other call.                                              *)
LEMMA WriteKeepsCalls ==
    ASSUME Inv, NEW t \in Threads, calls[t] # <<>>,
           NEW pc \in {"failing", "failed"}, NEW message \in Messages,
           NEW content \in Contents, pc = "failed" => content = message,
           Step(t, pc, message),
           stored' = [stored EXCEPT ![Inner(t).at] = content]
    PROVE  /\ calls' \in [Threads -> Seq(Calls)]
           /\ stored' \in [Places -> Contents]
           /\ \A u \in Threads : Len(calls'[u]) <= MaxDepth
           /\ \A u \in Threads : CallInv(u)'
           /\ StackInv'
<1> DEFINE n == Len(calls[t])
<1>1. /\ n \in 1 .. MaxDepth
      /\ calls' \in [Threads -> Seq(Calls)]
      /\ Len(calls'[t]) = n
      /\ calls'[t][n] = Stepped(calls[t][n], pc, message)
      /\ \A i \in 1 .. n - 1 : calls'[t][i] = calls[t][i]
      /\ \A u \in Threads \ {t} : calls'[u] = calls[u]
  BY StepEffect DEF Inv
<1>2. stored' \in [Places -> Contents]
  BY DEF Inv, TypeOK
<1>3. \A u \in Threads : Len(calls'[u]) <= MaxDepth
  BY <1>1 DEF Inv, TypeOK
<1>4. ASSUME NEW u \in Threads, NEW i \in 1 .. Len(calls'[u])
      PROVE  /\ i \in 1 .. Len(calls[u])
             /\ Len(calls'[u]) = Len(calls[u])
             /\ ~(u = t /\ i = n) => calls'[u][i] = calls[u][i]
  <2>1. n = Len(calls[t])
    OBVIOUS
  <2> HIDE DEF n
  <2> QED BY <1>1, <2>1 DEF MaxDepth
<1>5. /\ calls'[t][n].op = calls[t][n].op
      /\ calls'[t][n].at = calls[t][n].at
      /\ calls'[t][n].pc = pc
      /\ calls'[t][n].message = message
  BY <1>1 DEF Stepped
<1>6. ASSUME NEW u \in Threads PROVE CallInv(u)'
  <2> SUFFICES ASSUME NEW i \in 1 .. Len(calls'[u])
               PROVE  LET c == calls'[u][i]
                      IN  /\ c.at = Place(c.op, u, i)
                          /\ i < Len(calls'[u]) => c.op \in ProgramOps
                          /\ c.pc # "called" => c.message \in Messages
    BY DEF CallInv, Place, Local, Global
  <2>1. CallInv(u) /\ i \in 1 .. Len(calls[u]) /\ Len(calls'[u]) = Len(calls[u])
    BY <1>4 DEF Inv
  <2>2. CASE u = t /\ i = n
    BY <2>1, <2>2, <1>5, Zenon DEF CallInv
  <2>3. CASE ~(u = t /\ i = n)
    BY <2>1, <2>3, <1>4, Zenon DEF CallInv
  <2> QED BY <2>2, <2>3
<1>7. StackInv'
  <2> SUFFICES ASSUME NEW u \in Threads, NEW i \in 1 .. Len(calls'[u]),
                      calls'[u][i].pc = "failed", calls'[u][i].op \in StackOps
               PROVE  stored'[Local(u, i)] = calls'[u][i].message
    BY DEF StackInv, Local
  <2>1. i \in 1 .. Len(calls[u])
    BY <1>4
  <2>2. CASE u = t /\ i = n
    <3>1. pc = "failed" /\ Inner(t).op \in StackOps
      BY <2>2, <1>5 DEF Inner
    <3>2. Inner(t).at = Local(t, n) /\ Inner(t).at \in Places
      BY <3>1, InnerPlace DEF Place
    <3> QED BY <3>1, <3>2, <2>2, <1>5, Zenon DEF Inv, TypeOK
  <2>3. CASE ~(u = t /\ i = n)
    <3>1. calls'[u][i] = calls[u][i]
      BY <2>3, <1>4
    <3>2. stored[Local(u, i)] = calls[u][i].message
      BY <2>1, <3>1 DEF Inv, StackInv
    <3>3. Local(u, i) \in Places /\ Inner(t).at # Local(u, i)
      BY <2>1, <2>3, InnerPlace
    <3> QED BY <3>1, <3>2, <3>3, Zenon DEF Inv, TypeOK
  <2> QED BY <2>2, <2>3
<1> QED BY <1>1, <1>2, <1>3, <1>6, <1>7

(* A failure leaves a torn error where the call keeps its own.             *)
LEMMA FailKeepsInv ==
    ASSUME Inv, NEW t \in Threads, NEW message \in Messages, Fail(t, message)
    PROVE  Inv'
<1>1. /\ calls[t] # <<>>
      /\ Step(t, "failing", message)
      /\ stored' = [stored EXCEPT ![Inner(t).at] = Torn]
      /\ Torn \in Contents
  BY DEF Fail, In, Contents
<1>2. /\ calls' \in [Threads -> Seq(Calls)]
      /\ stored' \in [Places -> Contents]
      /\ \A u \in Threads : Len(calls'[u]) <= MaxDepth
      /\ \A u \in Threads : CallInv(u)'
      /\ StackInv'
  BY <1>1, WriteKeepsCalls
<1>3. TypeOK' /\ StackErrorsAreOwn'
  BY <1>2 DEF Inv, TypeOK, StackErrorsAreOwn, Fail
<1> QED BY <1>2, <1>3 DEF Inv

(* Then the whole message.                                                 *)
LEMMA ReportKeepsInv ==
    ASSUME Inv, NEW t \in Threads, Report(t)
    PROVE  Inv'
<1> DEFINE message == Inner(t).message
<1>1. calls[t] # <<>> /\ Inner(t).pc = "failing"
  BY DEF Report, In, Inner
<1>2. message \in Messages /\ message \in Contents
  <2>1. message \in Messages
    BY <1>1, InnerPlace DEF Inv, CallInv, Inner
  <2> QED BY <2>1 DEF Contents
<1>3. /\ Step(t, "failed", message)
      /\ stored' = [stored EXCEPT ![Inner(t).at] = message]
  BY DEF Report
<1> HIDE DEF message
<1>4. /\ calls' \in [Threads -> Seq(Calls)]
      /\ stored' \in [Places -> Contents]
      /\ \A u \in Threads : Len(calls'[u]) <= MaxDepth
      /\ \A u \in Threads : CallInv(u)'
      /\ StackInv'
  BY <1>1, <1>2, <1>3, WriteKeepsCalls
<1>5. last' \in Contents /\ read' = read /\ mixed' \in BOOLEAN
  BY <1>2 DEF Report, Inv, TypeOK, message
<1>6. TypeOK' /\ StackErrorsAreOwn'
  BY <1>4, <1>5 DEF Inv, TypeOK, StackErrorsAreOwn
<1> QED BY <1>4, <1>6 DEF Inv
-----------------------------------------------------------------------------
(* The invariant is inductive.                                             *)
LEMMA NextKeepsInv == Inv /\ [Next]_vars => Inv'
<1> SUFFICES ASSUME Inv, [Next]_vars PROVE Inv'
  OBVIOUS
<1>1. ASSUME NEW t \in Threads, NEW op \in Operations, Start(t, op) PROVE Inv'
  BY <1>1, StartKeepsInv
<1>2. ASSUME NEW t \in Threads, Succeed(t) PROVE Inv'
  BY <1>2, SucceedKeepsInv
<1>3. ASSUME NEW t \in Threads, NEW message \in Messages, Fail(t, message)
      PROVE  Inv'
  BY <1>3, FailKeepsInv
<1>4. ASSUME NEW t \in Threads, Report(t) PROVE Inv'
  BY <1>4, ReportKeepsInv
<1>5. ASSUME NEW t \in Threads, Read(t) PROVE Inv'
  BY <1>5, ReadKeepsInv
<1>6. ASSUME NEW t \in Threads, Forget(t) PROVE Inv'
  BY <1>6, ForgetKeepsInv
<1>7. CASE UNCHANGED vars
  <2>1. /\ stored' = stored /\ calls' = calls /\ read' = read
        /\ last' = last /\ mixed' = mixed
    BY <1>7 DEF vars
  <2> QED BY <2>1 DEF Inv, TypeOK, CallInv, StackInv, StackErrorsAreOwn,
                      Local, Global, Place
<1> QED BY <1>1, <1>2, <1>3, <1>4, <1>5, <1>6, <1>7 DEF Next

(* Whatever the threads do, every variable has its type.                   *)
THEOREM ErrorsAreTyped == Spec => []TypeOK
<1>1. Inv => TypeOK
  BY DEF Inv
<1> QED BY InvInit, NextKeepsInv, <1>1, PTL DEF Spec

(* However many threads fail at the same time, a function with a           *)
(* bson_error_t on its stack prints the message of its own failure.        *)
THEOREM StackErrorsStayOwn == Spec => []StackErrorsAreOwn
<1>1. Inv => StackErrorsAreOwn
  BY DEF Inv
<1> QED BY InvInit, NextKeepsInv, <1>1, PTL DEF Spec
-----------------------------------------------------------------------------
(* Who takes part in a step of t is t; it gets out of turn only by         *)
(* starting a call when another thread is in one.                          *)
LEMMA NextKeepsTurns == Inv /\ TurnInv /\ [Next]_vars => TurnInv'
<1> SUFFICES ASSUME Inv, TurnInv, [Next]_vars PROVE TurnInv'
  OBVIOUS
<1>1. ASSUME NEW t \in Threads, NEW op \in Operations, Start(t, op) PROVE TurnInv'
  <2>1. \A u \in Threads \ {t} : calls'[u] = calls[u]
    BY <1>1, StartEffect DEF Inv
  <2>2. ~mixed' => \A u \in Threads \ {t} : calls[u] = <<>>
    BY <1>1 DEF Start
  <2> QED BY <2>1, <2>2 DEF TurnInv
<1>2. ASSUME NEW t \in Threads, calls[t] # <<>>, mixed' = mixed,
             \A u \in Threads \ {t} : calls'[u] = calls[u]
      PROVE  TurnInv'
  BY <1>2 DEF TurnInv
<1>3. ASSUME NEW t \in Threads, calls[t] # <<>>, Return(t), mixed' = mixed
      PROVE  TurnInv'
  BY <1>3, <1>2, ReturnEffect DEF Inv
<1>4. ASSUME NEW t \in Threads, calls[t] # <<>>, mixed' = mixed,
             NEW pc \in {"failing", "failed"}, NEW message \in Messages,
             Step(t, pc, message)
      PROVE  TurnInv'
  <2>1. \A u \in Threads \ {t} : calls'[u] = calls[u]
    BY <1>4, StepEffect DEF Inv
  <2> QED BY <2>1, <1>4, <1>2
<1>5. ASSUME NEW t \in Threads, Succeed(t) \/ Read(t) \/ Forget(t) PROVE TurnInv'
  BY <1>5, <1>3 DEF Succeed, Read, Forget, In
<1>6. ASSUME NEW t \in Threads, NEW message \in Messages, Fail(t, message)
      PROVE  TurnInv'
  BY <1>6, <1>4 DEF Fail, In
<1>7. ASSUME NEW t \in Threads, Report(t) PROVE TurnInv'
  <2>1. calls[t] # <<>> /\ Inner(t).pc = "failing" /\ mixed' = mixed
        /\ Step(t, "failed", Inner(t).message)
    BY <1>7 DEF Report, In, Inner
  <2>2. Inner(t).message \in Messages
    BY <2>1, InnerPlace DEF Inv, CallInv, Inner
  <2> QED BY <2>1, <2>2, <1>4
<1>8. CASE UNCHANGED vars
  BY <1>8 DEF vars, TurnInv
<1> QED BY <1>1, <1>5, <1>6, <1>7, <1>8 DEF Next

(* The other threads are in no call, before a step and after it.           *)
Alone(t) == \A u \in Threads \ {t} : calls[u] = <<>>

(* What is true of the thread that has made a step is true of them all.    *)
LEMMA HelperInvOfOne ==
    ASSUME TurnInv', NEW t \in Threads, ~mixed' => calls'[t] # <<>> \/ Alone(t)',
           ~mixed' /\ In(t, "failed")' /\ Inner(t)'.op \in HelperOps
               => stored'[Global] = Inner(t)'.message
    PROVE  HelperInv'
<1>1. ~mixed' => Alone(t)'
  BY DEF TurnInv, Alone
<1> QED BY <1>1 DEF HelperInv, Alone, In, Inner, Global

(* What a call is in when one returns is a call of the program, whose      *)
(* error is nobody else's to print.                                        *)
LEMMA ReturnKeepsHelperInv ==
    ASSUME Inv, TurnInv, TurnInv', NEW t \in Threads, calls[t] # <<>>, Return(t),
           mixed' = mixed
    PROVE  HelperInv'
<1> DEFINE n == Len(calls[t])
<1>1. /\ n \in 1 .. MaxDepth
      /\ calls' \in [Threads -> Seq(Calls)]
      /\ Len(calls'[t]) = n - 1
      /\ \A i \in 1 .. n - 1 : calls'[t][i] = calls[t][i]
      /\ \A u \in Threads \ {t} : calls'[u] = calls[u]
  BY ReturnEffect DEF Inv
<1>2. calls'[t] # <<>> =>
        n - 1 \in 1 .. n - 1 /\ n - 1 \in 1 .. n /\ n - 1 < n
  <2>1. Len(calls'[t]) = 0 => calls'[t] = <<>>
    BY <1>1, EmptySeq
  <2> HIDE DEF n
  <2> QED BY <1>1, <2>1 DEF MaxDepth
<1>3. calls'[t] # <<>> => calls'[t][n - 1].op \in ProgramOps
  BY <1>1, <1>2 DEF Inv, CallInv
<1>4. In(t, "failed")' => Inner(t)'.op \in ProgramOps
  BY <1>1, <1>3 DEF In, Inner
<1>5. ~mixed' => Alone(t)'
  BY <1>1 DEF TurnInv, Alone
<1> QED BY <1>4, <1>5, HelperInvOfOne, OperationAssumption

(* A call that starts or goes on is the innermost one of its thread.       *)
LEMMA StepInner ==
    ASSUME TypeOK, NEW t \in Threads, calls[t] # <<>>,
           NEW pc \in {"called", "failing", "failed"},
           NEW message \in Messages \cup {Undefined},
           Step(t, pc, message)
    PROVE  calls'[t] # <<>> /\ Inner(t)' = Stepped(Inner(t), pc, message)
<1>1. Len(calls'[t]) = Len(calls[t]) /\ Len(calls[t]) \in 1 .. MaxDepth
  BY StepEffect
<1>2. calls'[t] # <<>>
  <2>1. Len(<<>>) = 0
    BY EmptySeq
  <2> DEFINE n == Len(calls[t])
  <2>2. n \in 1 .. MaxDepth /\ Len(calls'[t]) = n
    BY <1>1
  <2> HIDE DEF n
  <2> QED BY <2>1, <2>2 DEF MaxDepth
<1> QED BY <1>2, StepEffect DEF Inner

(* As long as the threads take turns, nothing is written between the       *)
(* failure of a helper and the moment it prints its error.                 *)
LEMMA NextKeepsHelperInv ==
    ASSUME Inv, TurnInv, TurnInv', HelperInv, HelperErrorsAreOwn, [Next]_vars
    PROVE  HelperInv' /\ HelperErrorsAreOwn'
<1>1. ASSUME NEW t \in Threads, NEW op \in Operations, Start(t, op)
      PROVE  HelperInv' /\ HelperErrorsAreOwn'
  <2>1. Inner(t)' = Call(op, t, Len(calls[t]) + 1)
        /\ \A u \in Threads \ {t} : calls'[u] = calls[u]
    BY <1>1, StartEffect DEF Inv, Inner
  <2>2. ~In(t, "failed")'
    BY <2>1 DEF In, Inner, Call
  <2>3. ~mixed' => ~mixed /\ Alone(t)'
    BY <1>1, <2>1 DEF Start, Alone, Inv, TypeOK
  <2> QED BY <1>1, <2>2, <2>3, HelperInvOfOne DEF HelperErrorsAreOwn, Start
<1>2. ASSUME NEW t \in Threads, Succeed(t)
      PROVE  HelperInv' /\ HelperErrorsAreOwn'
  BY <1>2, ReturnKeepsHelperInv DEF Succeed, In, HelperErrorsAreOwn
<1>3. ASSUME NEW t \in Threads, NEW message \in Messages, Fail(t, message)
      PROVE  HelperInv' /\ HelperErrorsAreOwn'
  <2>1. calls'[t] # <<>> /\ Inner(t)'.pc = "failing"
    BY <1>3, StepInner DEF Inv, Fail, In, Stepped
  <2>2. ~In(t, "failed")'
    BY <2>1 DEF In, Inner
  <2> QED BY <1>3, <2>1, <2>2, HelperInvOfOne DEF HelperErrorsAreOwn, Fail
<1>4. ASSUME NEW t \in Threads, Report(t)
      PROVE  HelperInv' /\ HelperErrorsAreOwn'
  <2>1. calls[t] # <<>> /\ Step(t, "failed", Inner(t).message)
    BY <1>4 DEF Report, In
  <2>2. Inner(t) \in Calls
    BY <2>1, InCall DEF Inv
  <2>3. calls'[t] # <<>> /\ Inner(t)' = Stepped(Inner(t), "failed", Inner(t).message)
    BY <2>1, <2>2, StepInner DEF Inv, Calls
  <2>4. Inner(t).op \in HelperOps =>
          Inner(t).at = Global /\ Global \in Places
    BY <2>1, InnerPlace, OperationAssumption DEF Place
  <2>5. Inner(t)'.op \in HelperOps => stored'[Global] = Inner(t)'.message
    <3>1. Inner(t)'.op = Inner(t).op /\ Inner(t)'.message = Inner(t).message
      BY <2>3 DEF Stepped
    <3>2. stored' = [stored EXCEPT ![Inner(t).at] = Inner(t).message]
      BY <1>4 DEF Report
    <3> QED BY <3>1, <3>2, <2>4, Zenon DEF Inv, TypeOK
  <2> QED BY <1>4, <2>3, <2>5, HelperInvOfOne DEF HelperErrorsAreOwn, Report
<1>5. ASSUME NEW t \in Threads, Read(t)
      PROVE  HelperInv' /\ HelperErrorsAreOwn'
  <2>1. calls[t] # <<>> /\ Return(t) /\ In(t, "failed") /\ mixed' = mixed
    BY <1>5 DEF Read, In
  <2>2. Inner(t).op \in HelperOps => Inner(t).at = Global
    BY <2>1, InnerPlace, OperationAssumption DEF Place
  <2>3. HelperErrorsAreOwn'
    BY <1>5, <2>1, <2>2 DEF Read, HelperInv, HelperErrorsAreOwn
  <2> QED BY <2>1, <2>3, ReturnKeepsHelperInv
<1>6. ASSUME NEW t \in Threads, Forget(t)
      PROVE  HelperInv' /\ HelperErrorsAreOwn'
  BY <1>6, ReturnKeepsHelperInv DEF Forget, In, HelperErrorsAreOwn
<1>7. CASE UNCHANGED vars
  <2>1. stored' = stored /\ calls' = calls /\ read' = read /\ mixed' = mixed
    BY <1>7 DEF vars
  <2> QED BY <2>1 DEF HelperInv, HelperErrorsAreOwn, In, Inner, Global
<1> QED BY <1>1, <1>2, <1>3, <1>4, <1>5, <1>6, <1>7 DEF Next

(* As long as the threads of a process take turns, however many they are,  *)
(* ping, countDocuments and initFromJson print the message of their own    *)
(* failure, whatever the program has called before and not read.           *)
THEOREM HelperErrorsStayOwn == Spec => []HelperErrorsAreOwn
<1>1. Init => TurnInv /\ HelperInv /\ HelperErrorsAreOwn
  BY DEF Init, TurnInv, HelperInv, HelperErrorsAreOwn, In, NoRead
<1>2. Inv /\ TurnInv /\ TurnInv' /\ HelperInv /\ HelperErrorsAreOwn /\ [Next]_vars
        => HelperInv' /\ HelperErrorsAreOwn'
  BY NextKeepsHelperInv
<1> QED BY InvInit, NextKeepsInv, NextKeepsTurns, <1>1, <1>2, PTL DEF Spec
-----------------------------------------------------------------------------
(* As long as the threads take turns the shared variable holds the last    *)
(* message that was written to it, unless somebody is writing the next.    *)
LastInv ==
    ~mixed =>
        \/ stored[Global] = last
        \/ \E t \in Threads : In(t, "failing") /\ Inner(t).at = Global

(* Nobody is writing to it while the one thread that is in a call is not.  *)
LEMMA NobodyIsWriting ==
    ASSUME TurnInv, LastInv, ~mixed, NEW t \in Threads,
           calls[t] # <<>> \/ Alone(t),
           ~(In(t, "failing") /\ Inner(t).at = Global)
    PROVE  stored[Global] = last
<1>1. Alone(t)
  BY DEF TurnInv, Alone
<1> QED BY <1>1 DEF LastInv, Alone, In

(* A failure, and nothing else, takes the last message away; the report    *)
(* that follows it puts the next one there.                                *)
LEMMA NextKeepsLastInv ==
    ASSUME Inv, TurnInv, LastInv, ProgramReadsTheLastError, [Next]_vars
    PROVE  LastInv' /\ ProgramReadsTheLastError'
<1>1. ASSUME NEW t \in Threads, calls[t] # <<>>, In(t, "called") \/ In(t, "failed"),
             stored' = stored, last' = last, mixed' = mixed
      PROVE  LastInv'
  <2>1. ~In(t, "failing")
    BY <1>1 DEF In
  <2>2. ~mixed => stored[Global] = last
    BY <1>1, <2>1, NobodyIsWriting
  <2> QED BY <1>1, <2>2 DEF LastInv, Global
<1>2. ASSUME NEW t \in Threads, NEW op \in Operations, Start(t, op)
      PROVE  LastInv' /\ ProgramReadsTheLastError'
  <2>1. ~In(t, "failing")
    <3>1. calls[t] # <<>> => Len(calls[t]) \in 1 .. MaxDepth
      BY InCall DEF Inv
    <3>2. calls[t] # <<>> => Len(calls[t]) + 1 > 1
      BY <3>1 DEF MaxDepth
    <3> QED BY <1>2, <3>2 DEF Start, In
  <2>2. ~mixed' => ~mixed /\ Alone(t)
    BY <1>2 DEF Start, Alone, Inv, TypeOK
  <2>3. ~mixed' => stored[Global] = last
    BY <2>1, <2>2, NobodyIsWriting
  <2>4. last' = last /\ read' = read
    BY <1>2 DEF Start
  <2>5. stored'[Global] = stored[Global]
    <3>1. Global \in Places /\ Local(t, Len(calls[t]) + 1) # Global
      BY PlacesDiffer DEF Places
    <3> QED BY <1>2, <3>1, Zenon DEF Start, Inv, TypeOK
  <2>6. LastInv'
    BY <2>3, <2>4, <2>5 DEF LastInv, Global
  <2> QED BY <2>2, <2>4, <2>6 DEF ProgramReadsTheLastError
<1>3. ASSUME NEW t \in Threads, Succeed(t) \/ Forget(t)
      PROVE  LastInv' /\ ProgramReadsTheLastError'
  <2>1. LastInv'
    BY <1>3, <1>1 DEF Succeed, Forget, In
  <2> QED BY <1>3, <2>1 DEF Succeed, Forget, ProgramReadsTheLastError
<1>4. ASSUME NEW t \in Threads, NEW message \in Messages, Fail(t, message)
      PROVE  LastInv' /\ ProgramReadsTheLastError'
  <2>1. calls[t] # <<>> /\ ~In(t, "failing") /\ Step(t, "failing", message)
        /\ last' = last /\ mixed' = mixed /\ read' = read
    BY <1>4 DEF Fail, In
  <2>2. /\ calls'[t] # <<>>
        /\ Inner(t)' = Stepped(Inner(t), "failing", message)
    BY <2>1, StepInner DEF Inv
  <2>3. In(t, "failing")' /\ Inner(t)'.at = Inner(t).at
    BY <2>2 DEF In, Inner, Stepped
  <2>4. ASSUME Inner(t).at = Global PROVE LastInv'
    BY <2>3, <2>4 DEF LastInv, Global
  <2>5. ASSUME Inner(t).at # Global PROVE LastInv'
    <3>1. ~mixed => stored[Global] = last
      BY <2>1, NobodyIsWriting
    <3>2. stored'[Global] = stored[Global]
      <4>1. Global \in Places
        BY DEF Places
      <4> QED BY <1>4, <2>5, <4>1, Zenon DEF Fail, Inv, TypeOK
    <3> QED BY <2>1, <3>1, <3>2 DEF LastInv, Global
  <2>6. ProgramReadsTheLastError'
    BY <2>1 DEF ProgramReadsTheLastError
  <2> QED BY <2>4, <2>5, <2>6
<1>5. ASSUME NEW t \in Threads, Report(t)
      PROVE  LastInv' /\ ProgramReadsTheLastError'
  <2>1. /\ calls[t] # <<>> /\ mixed' = mixed /\ read' = read
        /\ stored' = [stored EXCEPT ![Inner(t).at] = Inner(t).message]
        /\ last' = IF Inner(t).at = Global THEN Inner(t).message ELSE last
    BY <1>5 DEF Report, In
  <2>2. Global \in Places
    BY DEF Places
  <2>3. CASE Inner(t).at = Global
    <3>1. stored'[Global] = Inner(t).message
      BY <2>1, <2>2, <2>3, Zenon DEF Inv, TypeOK
    <3> QED BY <2>1, <2>3, <3>1 DEF LastInv, Global, ProgramReadsTheLastError
  <2>4. CASE Inner(t).at # Global
    <3>1. stored'[Global] = stored[Global]
      BY <2>1, <2>2, <2>4, Zenon DEF Inv, TypeOK
    <3>2. ~mixed => stored[Global] = last
      BY <2>1, <2>4, NobodyIsWriting
    <3> QED BY <2>1, <2>4, <3>1, <3>2 DEF LastInv, Global, ProgramReadsTheLastError
  <2> QED BY <2>3, <2>4
<1>6. ASSUME NEW t \in Threads, Read(t)
      PROVE  LastInv' /\ ProgramReadsTheLastError'
  <2>1. /\ calls[t] # <<>> /\ In(t, "failed") /\ ~In(t, "failing")
        /\ stored' = stored /\ last' = last /\ mixed' = mixed
        /\ read'.op = Inner(t).op
        /\ read'.got = stored[Inner(t).at] /\ read'.last = last
    BY <1>6 DEF Read, In
  <2>2. Inner(t).op \in ProgramOps => Inner(t).at = Global
    BY <2>1, InnerPlace, OperationAssumption DEF Place
  <2>3. ~mixed => stored[Global] = last
    BY <2>1, NobodyIsWriting
  <2>4. LastInv'
    BY <2>1, <1>1
  <2> QED BY <2>1, <2>2, <2>3, <2>4 DEF ProgramReadsTheLastError
<1>7. CASE UNCHANGED vars
  <2>1. /\ stored' = stored /\ calls' = calls /\ read' = read
        /\ last' = last /\ mixed' = mixed
    BY <1>7 DEF vars
  <2> QED BY <2>1 DEF LastInv, ProgramReadsTheLastError, In, Inner, Global
<1> QED BY <1>2, <1>3, <1>4, <1>5, <1>6, <1>7 DEF Next

(* As long as the threads of a process take turns, however many they are,  *)
(* a program that looks at its BsonError reads a whole message, the last   *)
(* one that was written, though not always the one of the call it asked    *)
(* about.                                                                  *)
THEOREM ProgramsReadTheLastError == Spec => []ProgramReadsTheLastError
<1>1. Init => TurnInv /\ LastInv /\ ProgramReadsTheLastError
  <2> SUFFICES ASSUME Init PROVE TurnInv /\ LastInv /\ ProgramReadsTheLastError
    OBVIOUS
  <2>1. stored[Global] = last
    BY DEF Init, Places
  <2> QED BY <2>1 DEF Init, TurnInv, LastInv, ProgramReadsTheLastError, NoRead
<1>2. Inv /\ TurnInv /\ LastInv /\ ProgramReadsTheLastError /\ [Next]_vars
        => LastInv' /\ ProgramReadsTheLastError'
  BY NextKeepsLastInv
<1> QED BY InvInit, NextKeepsInv, NextKeepsTurns, <1>1, <1>2, PTL DEF Spec
=============================================================================
