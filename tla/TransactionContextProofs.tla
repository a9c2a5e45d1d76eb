---------------------- MODULE TransactionContextProofs ----------------------
(***************************************************************************)
(* The safety of TransactionContext for any number of requests, with plug- *)
(* ins that may catch exceptions: its types, that the stack never runs out *)
(* and that only what the owner was told succeeded is committed.           *)
(*                                                                         *)
(* Neither of these is inductive. That the stack covers what the requests  *)
(* have to pop needs to know how their functions nest (FramesNest), and    *)
(* that a step of one request leaves what the others are due (Alone). That *)
(* a commit is told needs that every result ever merged succeeded          *)
(* (OnlySuccessIsMerged), hence also the one that commit() answers with,   *)
(* and that a close message is not sent before the answer                  *)
(* (ToldBeforeClose).                                                      *)
(*                                                                         *)
(* An action that one user takes is reduced to how its own frames, place   *)
(* and answer, the stack and the wire change (UserKeepsInv); one lemma per *)
(* action establishes that.                                                *)
(***************************************************************************)
EXTENDS TransactionContext, FoldLemmas, SequenceTheorems

\* How the functions of a user nest: the provided edit, then a round of triggers if it
\* is the owner's commit, then provided commands.
Nests(u) ==
    /\ pc[u] = "idle" => frames[u] = <<>>
    /\ pc[u] # "idle" =>
          /\ frames[u] # <<>>
          /\ frames[u][1] \in Provided
          /\ \A i \in 2..Len(frames[u]) : frames[u][i] \in {"command", "triggers"}
          /\ \A i \in DOMAIN frames[u] : frames[u][i] = "triggers" => i = 2 /\ u = Owner
    /\ pc[u] = "committing" => u = Owner /\ Len(frames[u]) = 1

\* So do those of all users.
FramesNest == \A u \in Users : Nests(u)

\* What has been merged succeeded, and so did every reply that has changes.
OnlySuccessIsMerged ==
    /\ \A i \in DOMAIN heap : heap[i].success
    /\ \A i \in DOMAIN toClient :
          toClient[i].result.patch # <<>> => toClient[i].result.success

\* The client tells the server to commit.
Closes(wire) == \E i \in DOMAIN wire : wire[i].type = "close"

\* The owner has been told of success before that.
ToldBeforeClose ==
    status = "committed" \/ Closes(toServer) =>
        pc[Owner] = "done" /\ answer[Owner] # Unanswered /\ answer[Owner].success

\* The inductive invariant.
Inv == TypeOK /\ FramesNest /\ StackCoversFrames /\ OnlySuccessIsMerged /\ ToldBeforeClose

-----------------------------------------------------------------------------
(* Sequences.                                                              *)

\* Sequences over a set are sequences over a larger one.
LEMMA LargerSeq ==
    ASSUME NEW X, NEW Y, X \subseteq Y
    PROVE  \A s \in Seq(X) : s \in Seq(Y)
  OBVIOUS

\* What is left of a stack that is popped.
LEMMA FrontProperties ==
    ASSUME NEW X, NEW s \in Seq(X), s # <<>>
    PROVE  /\ Len(s) \in Nat \ {0}
           /\ Front(s) \in Seq(X)
           /\ Len(Front(s)) = Len(s) - 1
           /\ \A i \in 1..(Len(s) - 1) : Front(s)[i] = s[i]
           /\ Last(s) = s[Len(s)]
           /\ Last(s) \in X
<1>1. Len(s) \in Nat \ {0}
  OBVIOUS
<1>2. Last(s) = s[Len(s)] /\ Last(s) \in X
  BY <1>1 DEF Last
<1>3. /\ SubSeq(s, 1, Len(s) - 1) \in Seq(X)
      /\ Len(SubSeq(s, 1, Len(s) - 1)) = Len(s) - 1
      /\ \A i \in 1..(Len(s) - 1) : SubSeq(s, 1, Len(s) - 1)[i] = s[i]
  <2> DEFINE n == Len(s) - 1
  <2>1. n \in Nat /\ 1 \in Int /\ n \in Int /\ \A i \in 1..n : s[i] \in X
    BY <1>1
  <2> HIDE DEF n
  <2>2. /\ SubSeq(s, 1, n) \in Seq(X)
        /\ Len(SubSeq(s, 1, n)) = IF 1 <= n THEN n - 1 + 1 ELSE 0
        /\ \A i \in 1..(n - 1 + 1) : SubSeq(s, 1, n)[i] = s[1 + i - 1]
    BY <2>1, SubSeqProperties
  <2>3. /\ Len(SubSeq(s, 1, n)) = n
        /\ \A i \in 1..n : SubSeq(s, 1, n)[i] = s[i]
    BY <2>1, <2>2
  <2> QED BY <2>2, <2>3 DEF n
<1> QED BY <1>1, <1>2, <1>3 DEF Front

\* The results that succeeded.
Succeeded == {r \in Results(Edits) : r.success}

\* Successful results stay so when what has changes to merge succeeded.
LEMMA MergeSucceeds ==
    ASSUME NEW r \in Succeeded, NEW s \in Results(Edits), s.patch # <<>> => s.success
    PROVE  Merge(r, s) \in Succeeded
<1>1. r.patch \o s.patch \in Seq(Edits)
  BY DEF Succeeded, Results
<1> QED BY <1>1 DEF Succeeded, Results, Merge

\* Merging a result into the contexts of some acceptors, as often as it is, keeps what
\* merging it once keeps.
LEMMA MergeAllKeeps ==
    ASSUME NEW C, NEW R, NEW h \in [C -> R], NEW takers \in Seq([user : Users, edit : Edits, current : C]),
           NEW result, \A r \in R : Merge(r, result) \in R
    PROVE  MergeAll(h, takers, result) \in [C -> R]
<1> DEFINE D == DOMAIN takers
           H == [C -> R]
           Choice(s) == CHOOSE x \in s : TRUE
           Into(i, merged) == [merged EXCEPT ![takers[i].current] = Merge(@, result)]
           Eq(f) == f = [s \in SUBSET D |->
                           IF s = {} THEN h ELSE Into(Choice(s), f[s \ {Choice(s)}])]
           fold == CHOOSE f : Eq(f)
           step == [i \in D |-> [m \in H |-> Into(i, m)]]
<1>1. MergeAll(h, takers, result) = fold[D]
  BY DEF MergeAll, FoldSeq, FoldFunction, FoldFunctionOnSet, MapThenFoldSet
<1>2. IsFiniteSet(D) /\ Picks(Picked(D), D)
  BY FS_Interval DEF Picks, Picked
<1>3. \A i \in D : \A m \in H : Into(i, m) \in H
  OBVIOUS
<1>4. step \in [D -> [H -> H]]
  BY <1>3
<1>5. PICK f \in [SUBSET D -> H] : IsFold(f, D, h, step, Picked(D))
  <2> HIDE DEF step, H, D
  <2> QED BY <1>2, <1>4, FoldExists DEF H
<1>6. Eq(f)
  <2>1. \A s \in SUBSET D : s # {} => f[s] = Into(Choice(s), f[s \ {Choice(s)}])
    <3> SUFFICES ASSUME NEW s \in SUBSET D, s # {}
                 PROVE  f[s] = Into(Choice(s), f[s \ {Choice(s)}])
      OBVIOUS
    <3>1. Picked(D)[s] = Choice(s) /\ Choice(s) \in D
      BY DEF Picked
    <3>2. f[s] = step[Choice(s)][f[s \ {Choice(s)}]]
      <4> HIDE DEF step
      <4> QED BY <1>5, <3>1 DEF IsFold
    <3>3. f[s \ {Choice(s)}] \in H
      BY <1>5
    <3> HIDE DEF H
    <3> QED BY <3>1, <3>2, <3>3
  <2>2. f[{}] = h
    BY <1>5 DEF IsFold
  <2> HIDE DEF H
  <2> QED BY <1>5, <2>1, <2>2
<1>7. Eq(fold)
  <2> HIDE DEF Eq
  <2> QED BY <1>6
<1> DEFINE Q == {s \in SUBSET D : fold[s] \in H}
<1>8. {} \in Q
  <2> HIDE DEF fold
  <2> QED BY <1>7
<1>9. \A s \in SUBSET D : s # {} => \E x \in s : s \ {x} \in Q => s \in Q
  <2> SUFFICES ASSUME NEW s \in SUBSET D, s # {}
               PROVE  \E x \in s : s \ {x} \in Q => s \in Q
    OBVIOUS
  <2> DEFINE x == Choice(s)
  <2>1. x \in s
    OBVIOUS
  <2>2. fold[s] = Into(x, fold[s \ {x}])
    <3> HIDE DEF fold
    <3> QED BY <1>7
  <2> HIDE DEF x, fold
  <2>3. s \ {x} \in Q => s \in Q
    <3> HIDE DEF H, Into
    <3> QED BY <1>3, <2>1, <2>2
  <2> QED BY <2>1, <2>3
<1>10. D \in Q
  <2> HIDE DEF Q, D
  <2> QED BY <1>2, <1>8, <1>9, SubsetInduction
<1> QED BY <1>1, <1>10

-----------------------------------------------------------------------------
(* What a step of a user leaves as it is, or changes.                      *)

PCs == {"idle", "running", "providing", "awaiting", "throwing", "committing", "done"}

\* No other user's functions are affected.
Alone(u) ==
    \A v \in Users \ {u} : pc'[v] = pc[v] /\ frames'[v] = frames[v] /\ answer'[v] = answer[v]

UsersTyped ==
    /\ pc' \in [Users -> PCs]
    /\ frames' \in [Users -> Seq(Frames)]
    /\ answer' \in [Users -> Results(Edits) \cup {Unanswered}]

\* The results stay typed, and contexts are only added.
ResultsTyped ==
    /\ heap' \in Seq(Succeeded)
    /\ DOMAIN heap \subseteq DOMAIN heap'
    /\ nested' \in Seq(DOMAIN heap')
    /\ update' \in DOMAIN heap'

\* A message is sent for an edit, and its acceptor registered, or no edit is sent.
Sends(u) ==
    /\ edits' \in 0..MaxEdits
    /\ toServer' \in Seq(Messages)
    /\ \/ acceptors' = acceptors
       \/ /\ pc'[u] = "awaiting"
          /\ \E a \in [user : {u}, edit : Edits, current : DOMAIN heap] :
                acceptors' = Append(acceptors, a)

\* No more contexts become due than are pushed.
DueCovered(u) == Due(u)' + Len(nested) <= Due(u) + Len(nested')

\* A close message is only sent with an answer of success.
ClosesOnSuccess(u) ==
    Closes(toServer)' => \/ Closes(toServer)
                         \/ u = Owner /\ pc'[u] = "done" /\ answer'[u] \in Succeeded

\* Whatever context a request finds, its result is a success.
LEMMA HeapSucceeds ==
    ASSUME Inv
    PROVE  heap \in Seq(Succeeded)
BY DEF Inv, TypeOK, OnlySuccessIsMerged, Succeeded

\* What a user has to pop is a number.
LEMMA DueIsNat ==
    ASSUME TypeOK, FramesNest, NEW u \in Users
    PROVE  Due(u) \in Nat
BY DEF TypeOK, FramesNest, Nests, Due, InTriggers

\* A step of one user that changes the stack by what it is due leaves the stack
\* covered.
LEMMA StackStillCovers ==
    ASSUME Inv, TypeOK', FramesNest', NEW u \in Users, Alone(u), DueCovered(u)
    PROVE  StackCoversFrames'
<1> DEFINE d == [v \in Users |-> Due(v)]
           e == [v \in Users |-> Due(v)']
<1>1. d \in [Users -> Nat]
  BY DueIsNat DEF Inv
<1>2. e \in [Users -> Nat]
  <2>1. ASSUME NEW v \in Users PROVE Due(v)' \in Nat
    BY DEF TypeOK, FramesNest, Nests, Due, InTriggers
  <2> QED BY <2>1
<1>3. \A v \in Users \ {u} : d[v] = e[v]
  BY DEF Alone, Due, InTriggers
<1>4. /\ SumFunction(d) \in Nat /\ SumFunction(e) \in Nat
      /\ SumFunction(e) + d[u] = SumFunction(d) + e[u]
  <2> HIDE DEF d, e
  <2> QED BY <1>1, <1>2, <1>3, ContextAssumption, SumChanges
<1>5. Len(nested) >= SumFunction(d)
  BY DEF Inv, StackCoversFrames
<1>6. d[u] = Due(u) /\ e[u] = Due(u)' /\ d[u] \in Nat /\ e[u] \in Nat
  BY <1>1, <1>2
<1>7. Len(nested) \in Nat /\ Len(nested') \in Nat
  BY DEF Inv, TypeOK
<1>8. Len(nested') >= SumFunction(e)
  <2> HIDE DEF d, e
  <2> QED BY <1>4, <1>5, <1>6, <1>7 DEF DueCovered
<1> QED BY <1>8 DEF StackCoversFrames

\* A user that has a context to pop finds one.
LEMMA StackHolds ==
    ASSUME Inv, NEW u \in Users, Due(u) >= 1
    PROVE  nested # <<>>
<1> DEFINE d == [v \in Users |-> Due(v)]
<1>1. d \in [Users -> Nat]
  BY DueIsNat DEF Inv
<1>2. SumFunction(d) \in Nat /\ d[u] <= SumFunction(d)
  <2> HIDE DEF d
  <2> QED BY <1>1, ContextAssumption, SumCovers
<1>3. Len(nested) >= SumFunction(d) /\ Len(nested) \in Nat
  BY DEF Inv, StackCoversFrames, TypeOK
<1>4. d[u] >= 1 /\ d[u] \in Nat
  BY <1>1
<1> HIDE DEF d
<1> QED BY <1>2, <1>3, <1>4

\* A step of a user that does all this keeps the invariant.
LEMMA UserKeepsInv ==
    ASSUME Inv, NEW u \in Users, pc[u] \notin {"awaiting", "done"}, Alone(u),
           UNCHANGED <<socket, toClient, status, log>>,
           UsersTyped, ResultsTyped, Sends(u), Nests(u)', DueCovered(u), ClosesOnSuccess(u)
    PROVE  Inv'
<1>1. TypeOK'
  <2> DEFINE Waiting == {v \in Users : pc[v] = "awaiting"}
             Pending == [user : Waiting', edit : Edits, current : DOMAIN heap']
  <2>1. Waiting \subseteq Waiting'
    BY DEF Alone
  <2>2. acceptors \in Seq([user : Waiting, edit : Edits, current : DOMAIN heap])
    BY DEF Inv, TypeOK
  <2>3. acceptors \in Seq(Pending)
    <3>1. [user : Waiting, edit : Edits, current : DOMAIN heap] \subseteq Pending
      BY <2>1 DEF ResultsTyped
    <3> QED BY <2>2, <3>1, LargerSeq, Zenon
  <2>4. acceptors' \in Seq(Pending)
    <3>1. CASE acceptors' = acceptors
      BY <2>3, <3>1
    <3>2. ASSUME pc'[u] = "awaiting",
                 NEW a \in [user : {u}, edit : Edits, current : DOMAIN heap],
                 acceptors' = Append(acceptors, a)
          PROVE  acceptors' \in Seq(Pending)
      <4>1. a \in Pending
        BY <3>2 DEF ResultsTyped
      <4> HIDE DEF Pending
      <4> QED BY <2>3, <3>2, <4>1
    <3> QED BY <3>1, <3>2 DEF Sends
  <2>5. heap' \in Seq(Results(Edits))
    BY DEF ResultsTyped, Succeeded
  <2> QED BY <2>4, <2>5 DEF Inv, TypeOK, UsersTyped, ResultsTyped, Sends, PCs
<1>2. FramesNest'
  <2>1. \A v \in Users \ {u} : Nests(v)'
    BY DEF Inv, FramesNest, Nests, Alone
  <2> QED BY <2>1 DEF FramesNest
<1>3. StackCoversFrames'
  BY <1>1, <1>2, StackStillCovers
<1>4. OnlySuccessIsMerged'
  BY DEF Inv, OnlySuccessIsMerged, ResultsTyped, Succeeded
<1>5. ToldBeforeClose'
  <2>1. SUFFICES ASSUME status' = "committed" \/ Closes(toServer)'
                 PROVE  pc'[Owner] = "done" /\ answer'[Owner] # Unanswered /\ answer'[Owner].success
    BY DEF ToldBeforeClose
  <2>2. CASE status = "committed" \/ Closes(toServer)
    BY <2>2, ContextAssumption DEF Inv, ToldBeforeClose, Alone
  <2>3. CASE u = Owner /\ pc'[u] = "done" /\ answer'[u] \in Succeeded
    BY <2>3, ContextAssumption DEF Succeeded, Edits
  <2> QED BY <2>1, <2>2, <2>3 DEF ClosesOnSuccess
<1> QED BY <1>1, <1>2, <1>3, <1>4, <1>5 DEF Inv

-----------------------------------------------------------------------------
(* What the actions are made of.                                           *)

\* A pop finds a typed context, and merges it into the one below.
LEMMA PopKeeps ==
    ASSUME Inv, NEW u \in Users, Due(u) >= 1
    PROVE  /\ Last(nested) \in DOMAIN heap
           /\ heap[Last(nested)] \in Succeeded
           /\ HeapAfterPop \in Seq(Succeeded)
           /\ DOMAIN HeapAfterPop = DOMAIN heap
           /\ Front(nested) \in Seq(DOMAIN heap)
           /\ Len(Front(nested)) = Len(nested) - 1
           /\ Len(nested) \in Nat \ {0}
<1>1. heap \in Seq(Succeeded) /\ nested \in Seq(DOMAIN heap) /\ nested # <<>>
  BY HeapSucceeds, StackHolds DEF Inv, TypeOK
<1>2. /\ Last(nested) \in DOMAIN heap
      /\ Front(nested) \in Seq(DOMAIN heap)
      /\ Len(Front(nested)) = Len(nested) - 1
      /\ Len(nested) \in Nat \ {0}
  BY <1>1, FrontProperties
<1>3. heap[Last(nested)] \in Succeeded
  BY <1>1, <1>2
<1>4. HeapAfterPop \in Seq(Succeeded) /\ DOMAIN HeapAfterPop = DOMAIN heap
  <2>1. CASE Len(nested) = 1
    BY <1>1, <2>1 DEF HeapAfterPop
  <2>2. CASE Len(nested) # 1
    <3> DEFINE below == nested[Len(nested) - 1]
    <3>1. below \in DOMAIN heap
      BY <1>1, <1>2, <2>2
    <3>2. Merge(heap[below], heap[Last(nested)]) \in Succeeded
      <4>1. heap[below] \in Succeeded
        BY <1>1, <3>1
      <4>2. heap[Last(nested)] \in Results(Edits) /\ heap[Last(nested)].success
        BY <1>3 DEF Succeeded
      <4> HIDE DEF below
      <4> QED BY <4>1, <4>2, MergeSucceeds
    <3>3. HeapAfterPop = [heap EXCEPT ![below] = Merge(heap[below], heap[Last(nested)])]
      BY <2>2 DEF HeapAfterPop
    <3> HIDE DEF below
    <3> QED BY <1>1, <3>1, <3>2, <3>3
  <2> QED BY <2>1, <2>2
<1> QED BY <1>2, <1>3, <1>4

\* A push adds a typed context.
LEMMA PushKeeps ==
    ASSUME Inv, PushContext, update' = update
    PROVE  ResultsTyped /\ Len(nested') = Len(nested) + 1
<1>1. heap \in Seq(Succeeded) /\ nested \in Seq(DOMAIN heap) /\ update \in DOMAIN heap
  BY HeapSucceeds DEF Inv, TypeOK
<1>2. FreshResult \in Succeeded
  BY DEF FreshResult, Succeeded, Results
<1>3. heap' \in Seq(Succeeded) /\ DOMAIN heap' = DOMAIN heap \cup {Len(heap) + 1}
  <2>1. heap' = Append(heap, FreshResult)
    BY DEF PushContext
  <2> QED BY <1>1, <1>2, <2>1
<1>4. nested \in Seq(DOMAIN heap') /\ Len(heap) + 1 \in DOMAIN heap'
  BY <1>1, <1>3, LargerSeq
<1>5. nested' \in Seq(DOMAIN heap') /\ Len(nested') = Len(nested) + 1
  BY <1>4 DEF PushContext
<1> QED BY <1>1, <1>3, <1>5 DEF ResultsTyped

\* A step that leaves the results alone leaves them typed.
LEMMA ResultsKept ==
    ASSUME Inv, UNCHANGED <<results, update>>
    PROVE  ResultsTyped /\ Len(nested') = Len(nested)
BY HeapSucceeds DEF Inv, TypeOK, ResultsTyped, results

\* Rolling back sends at most a roll-back message.
LEMMA RolledBackKeeps ==
    ASSUME NEW wire \in Seq(Messages)
    PROVE  RolledBack(wire) \in Seq(Messages) /\ (Closes(RolledBack(wire)) => Closes(wire))
<1> DEFINE m == [type |-> "roll-back"]
<1>1. m \in Messages /\ m.type # "close"
  BY DEF Messages, Terminal
<1> HIDE DEF m
<1>2. /\ Append(wire, m) \in Seq(Messages)
      /\ \A i \in DOMAIN Append(wire, m) :
            Append(wire, m)[i] = IF i \in DOMAIN wire THEN wire[i] ELSE m
  BY <1>1
<1>3. Closes(Append(wire, m)) => Closes(wire)
  BY <1>1, <1>2 DEF Closes
<1> QED BY <1>2, <1>3 DEF RolledBack, m

\* The innermost function of a user that is in some, and where it is.
LEMMA TopIs ==
    ASSUME Inv, NEW u \in Users, pc[u] # "idle"
    PROVE  /\ Len(frames[u]) \in Nat \ {0}
           /\ frames[u] \in Seq(Frames)
           /\ Top(u) = frames[u][Len(frames[u])]
           /\ Front(frames[u]) \in Seq(Frames)
           /\ Len(Front(frames[u])) = Len(frames[u]) - 1
           /\ \A i \in 1..(Len(frames[u]) - 1) : Front(frames[u])[i] = frames[u][i]
           /\ Top(u) \in Provided => Len(frames[u]) = 1
           /\ Top(u) \in {"command", "triggers"} => Len(frames[u]) >= 2
           /\ Top(u) = "triggers" => u = Owner /\ Len(frames[u]) = 2
           /\ pc[u] \notin {"committing", "done"} => Due(u) >= 1
<1>1. frames[u] \in Seq(Frames) /\ frames[u] # <<>> /\ Nests(u)
  BY DEF Inv, TypeOK, FramesNest, Nests
<1>2. /\ Len(frames[u]) \in Nat \ {0}
      /\ Front(frames[u]) \in Seq(Frames)
      /\ Len(Front(frames[u])) = Len(frames[u]) - 1
      /\ \A i \in 1..(Len(frames[u]) - 1) : Front(frames[u])[i] = frames[u][i]
      /\ Top(u) = frames[u][Len(frames[u])]
  BY <1>1, FrontProperties DEF Top
<1>3. /\ Top(u) \in Provided => Len(frames[u]) = 1
      /\ Top(u) \in {"command", "triggers"} => Len(frames[u]) >= 2
      /\ Top(u) = "triggers" => u = Owner /\ Len(frames[u]) = 2
  <2> DEFINE n == Len(frames[u])
  <2>1. n \in Nat \ {0} /\ Top(u) = frames[u][n] /\ n \in DOMAIN frames[u]
    BY <1>1, <1>2
  <2>2. /\ frames[u][1] \in Provided
        /\ \A i \in 2..n : frames[u][i] \in {"command", "triggers"}
        /\ \A i \in DOMAIN frames[u] : frames[u][i] = "triggers" => i = 2 /\ u = Owner
    BY <1>1 DEF Nests
  <2> HIDE DEF n
  <2>3. n = 1 => Top(u) \in Provided
    BY <2>1, <2>2
  <2>4. n # 1 => Top(u) \in {"command", "triggers"}
    BY <2>1, <2>2
  <2>5. Top(u) = "triggers" => u = Owner /\ n = 2
    BY <2>1, <2>2
  <2>6. Provided \cap {"command", "triggers"} = {}
    BY DEF Provided
  <2>7. /\ Top(u) \in Provided => n = 1
        /\ Top(u) \in {"command", "triggers"} => n >= 2
    BY <2>1, <2>3, <2>4, <2>6
  <2> QED BY <2>5, <2>7 DEF n
<1>4. pc[u] \notin {"committing", "done"} => Due(u) >= 1
  <2>1. InTriggers(u) => Len(frames[u]) >= 2
    BY <1>1, <1>2 DEF Nests, InTriggers
  <2> QED BY <1>2, <2>1 DEF Due
<1> QED BY <1>1, <1>2, <1>3, <1>4

\* While one may be made, the bound on edits is not reached.
LEMMA EditsLeftBound ==
    ASSUME Inv, NEW u \in Users, EditsLeft(u)
    PROVE  edits + 1 \in Edits /\ edits + 1 \in 0..MaxEdits
<1> DEFINE others == {v \in Users \ {u} : frames[v] \in {<<>>, <<"edit">>}}
<1>1. Cardinality(others) \in Nat
  BY ContextAssumption, FS_Subset, FS_CardinalityType
<1>2. edits + Cardinality(others) < MaxEdits
  BY DEF EditsLeft
<1> HIDE DEF others
<1> QED BY <1>1, <1>2, ContextAssumption DEF Inv, TypeOK, Edits

-----------------------------------------------------------------------------
(* Each action of a user keeps the invariant.                              *)

\* sendExecuteMessage, or the exception that it ends in.
LEMMA ExecuteKeeps ==
    ASSUME Inv, NEW u \in Users, EditsLeft(u), Due(u) >= 1,
           IF IsOpen
           THEN SendExecute(u)
           ELSE Throw(u) /\ edits' = edits + 1 /\ UNCHANGED <<acceptors, toServer>>
    PROVE  /\ Sends(u)
           /\ ClosesOnSuccess(u)
           /\ \E p \in {"awaiting", "throwing"} : pc' = [pc EXCEPT ![u] = p]
<1>1. /\ edits + 1 \in Edits /\ edits' \in 0..MaxEdits
      /\ toServer \in Seq(Messages) /\ pc \in [Users -> PCs]
  BY EditsLeftBound DEF Inv, TypeOK, PCs, SendExecute
<1>2. CASE ~IsOpen
  BY <1>1, <1>2 DEF Throw, Sends, ClosesOnSuccess
<1>3. CASE IsOpen
  <2> DEFINE a == [user |-> u, edit |-> edits + 1, current |-> Last(nested)]
             m == [type |-> "execute", edit |-> edits + 1]
  <2>1. Last(nested) \in DOMAIN heap
    BY PopKeeps
  <2>2. a \in [user : {u}, edit : Edits, current : DOMAIN heap]
    BY <1>1, <2>1
  <2>3. m \in Messages /\ m.type # "close"
    BY <1>1 DEF Messages
  <2>4. /\ acceptors' = Append(acceptors, a)
        /\ toServer' = Append(toServer, m)
        /\ pc' = [pc EXCEPT ![u] = "awaiting"]
    BY <1>3 DEF SendExecute
  <2> HIDE DEF a, m
  <2>5. /\ toServer' \in Seq(Messages)
        /\ \A i \in DOMAIN toServer' :
              toServer'[i] = IF i \in DOMAIN toServer THEN toServer[i] ELSE m
    BY <1>1, <2>3, <2>4
  <2>6. Closes(toServer') => Closes(toServer)
    BY <2>3, <2>5 DEF Closes
  <2>7. pc'[u] = "awaiting"
    BY <1>1, <2>4
  <2> QED BY <1>1, <2>2, <2>4, <2>5, <2>6, <2>7 DEF Sends, ClosesOnSuccess
<1> QED BY <1>2, <1>3

\* Making an edit that EditService makes itself does not change how functions nest.
LEMMA SpendKeeps ==
    ASSUME Inv, NEW u \in Users, pc[u] \notin {"idle", "committing", "done"}, Spend(u),
           NEW p \in PCs, p \notin {"idle", "committing", "done"},
           pc' = [pc EXCEPT ![u] = p]
    PROVE  /\ frames' \in [Users -> Seq(Frames)]
           /\ \A v \in Users \ {u} : frames'[v] = frames[v]
           /\ Nests(u)'
           /\ Due(u)' = Due(u)
           /\ InTriggers(u)' <=> InTriggers(u)
<1>1. /\ frames \in [Users -> Seq(Frames)]
      /\ pc'[u] = p
  BY DEF Inv, TypeOK
<1>2. CASE Top(u) # "edit"
  <2>1. frames'[u] = frames[u] /\ frames' = frames
    BY <1>1, <1>2 DEF Spend, Top
  <2> QED BY <1>1, <2>1 DEF Inv, FramesNest, Nests, Due, InTriggers
<1>3. CASE Top(u) = "edit"
  <2>1. Len(frames[u]) = 1 /\ frames[u] \in Seq(Frames)
    BY <1>3, TopIs DEF Provided
  <2>2. frames'[u] = <<"edited">>
    <3>1. Front(frames[u]) \in Seq(Frames) /\ Len(Front(frames[u])) = 0
      BY <2>1, TopIs
    <3>2. frames'[u] = Append(Front(frames[u]), "edited")
      BY <1>1, <1>3 DEF Spend, Top
    <3>3. Front(frames[u]) = <<>>
      BY <3>1, EmptySeq
    <3> QED BY <3>2, <3>3
  <2>3. <<"edited">> \in Seq(Frames)
    BY DEF Frames, Provided
  <2>4. frames' = [frames EXCEPT ![u] = <<"edited">>]
    BY <1>1, <2>2 DEF Spend
  <2>5. frames' \in [Users -> Seq(Frames)] /\ \A v \in Users \ {u} : frames'[v] = frames[v]
    BY <1>1, <2>3, <2>4
  <2>6. Nests(u)'
    BY <1>1, <2>2 DEF Nests, Provided
  <2>7. ~InTriggers(u)
    BY <1>3, <2>1, TopIs DEF InTriggers
  <2>8. ~InTriggers(u)'
    BY <2>2 DEF InTriggers
  <2>9. Due(u)' = Due(u)
    BY <1>1, <2>1, <2>2, <2>7, <2>8 DEF Due
  <2> QED BY <2>5, <2>6, <2>7, <2>8, <2>9
<1> QED BY <1>2, <1>3

\* The action Begin keeps the invariant: a child pushes the context that it is due.
LEMMA BeginInv ==
    ASSUME Inv, NEW u \in Users, Begin(u)
    PROVE  Inv'
<1> USE DEF Begin
<1>1. PICK provided \in {"edit", "function"} : frames' = [frames EXCEPT ![u] = <<provided>>]
  OBVIOUS
<1>2. /\ pc \in [Users -> PCs] /\ pc' = [pc EXCEPT ![u] = "running"]
      /\ frames \in [Users -> Seq(Frames)] /\ answer' = answer
      /\ answer \in [Users -> Results(Edits) \cup {Unanswered}]
      /\ <<provided>> \in Seq(Frames)
  BY DEF Inv, TypeOK, PCs, Frames, Provided
<1>3. pc'[u] = "running" /\ frames'[u] = <<provided>> /\ Alone(u) /\ UsersTyped
  BY <1>1, <1>2 DEF Alone, UsersTyped, PCs
<1>4. Nests(u)'
  BY <1>3 DEF Nests, Provided
<1>5. ResultsTyped /\ Len(nested') = Len(nested) + (IF u = Owner THEN 0 ELSE 1)
  BY PushKeeps, ResultsKept DEF Inv, TypeOK
<1>6. Due(u) = IF u = Owner THEN 1 ELSE 0
  BY DEF Due
<1>7. Due(u)' = 1
  BY <1>3 DEF Due, InTriggers
<1>8. DueCovered(u)
  BY <1>5, <1>6, <1>7 DEF DueCovered, Inv, TypeOK
<1>9. Sends(u) /\ ClosesOnSuccess(u)
  BY DEF Sends, ClosesOnSuccess, Inv, TypeOK, wires
<1> QED BY <1>3, <1>4, <1>5, <1>8, <1>9, UserKeepsInv DEF wires, server

\* The action Edit keeps the invariant.
LEMMA EditInv ==
    ASSUME Inv, NEW u \in Users, Edit(u)
    PROVE  Inv'
<1> USE DEF Edit, MayEdit
<1>1. Due(u) >= 1
  BY TopIs
<1>2. PICK p \in {"awaiting", "throwing"} : pc' = [pc EXCEPT ![u] = p]
  BY <1>1, ExecuteKeeps
<1>3. Sends(u) /\ ClosesOnSuccess(u)
  BY <1>1, ExecuteKeeps
<1>4. /\ frames' \in [Users -> Seq(Frames)]
      /\ \A v \in Users \ {u} : frames'[v] = frames[v]
      /\ Nests(u)'
      /\ Due(u)' = Due(u)
  BY <1>2, SpendKeeps DEF PCs
<1>5. Alone(u) /\ UsersTyped
  BY <1>2, <1>4 DEF Inv, TypeOK, Alone, UsersTyped, PCs
<1>6. ResultsTyped /\ DueCovered(u)
  BY <1>4, DueIsNat, ResultsKept DEF DueCovered, Inv, TypeOK, results
<1> QED BY <1>3, <1>4, <1>5, <1>6, UserKeepsInv DEF server

\* The action ExecuteProvided keeps the invariant.
LEMMA ExecuteProvidedInv ==
    ASSUME Inv, NEW u \in Users, ExecuteProvided(u)
    PROVE  Inv'
<1> USE DEF ExecuteProvided, MayEdit
<1>1. /\ frames' \in [Users -> Seq(Frames)]
      /\ \A v \in Users \ {u} : frames'[v] = frames[v]
      /\ Nests(u)'
      /\ Due(u)' = Due(u)
  BY SpendKeeps DEF PCs
<1>2. Alone(u) /\ UsersTyped
  BY <1>1 DEF Inv, TypeOK, Alone, UsersTyped, PCs
<1>3. ResultsTyped /\ DueCovered(u)
  BY <1>1, DueIsNat, ResultsKept DEF DueCovered, Inv, TypeOK, results
<1>4. Sends(u) /\ ClosesOnSuccess(u)
  BY EditsLeftBound DEF Sends, ClosesOnSuccess, Inv, TypeOK, wires
<1> QED BY <1>1, <1>2, <1>3, <1>4, UserKeepsInv DEF server, wires

\* The action ProvideSubstitute keeps the invariant.
LEMMA ProvideSubstituteInv ==
    ASSUME Inv, NEW u \in Users, ProvideSubstitute(u)
    PROVE  Inv'
<1> USE DEF ProvideSubstitute
<1>1. Due(u) >= 1
  BY TopIs
<1>2. PICK p \in {"awaiting", "throwing"} : pc' = [pc EXCEPT ![u] = p]
  BY <1>1, ExecuteKeeps
<1>3. Sends(u) /\ ClosesOnSuccess(u)
  BY <1>1, ExecuteKeeps
<1>4. pc'[u] = p /\ Alone(u) /\ UsersTyped
  BY <1>2 DEF Inv, TypeOK, Alone, UsersTyped, PCs
<1>5. Nests(u)' /\ Due(u)' = Due(u)
  BY <1>4 DEF Inv, FramesNest, Nests, Due, InTriggers
<1>6. ResultsTyped /\ DueCovered(u)
  BY <1>5, DueIsNat, ResultsKept DEF DueCovered, Inv, TypeOK, results
<1> QED BY <1>3, <1>4, <1>5, <1>6, UserKeepsInv DEF server

\* Entering a function: it is pushed on the frames of its user.
LEMMA EnterKeeps ==
    ASSUME Inv, NEW u \in Users, pc[u] \notin {"idle", "done"},
           NEW kind \in {"command", "triggers"},
           kind = "triggers" => pc[u] = "committing",
           kind = "command" => pc[u] # "committing",
           frames' = [frames EXCEPT ![u] = Append(@, kind)],
           pc' = [pc EXCEPT ![u] = "running"]
    PROVE  /\ frames' \in [Users -> Seq(Frames)]
           /\ \A v \in Users \ {u} : frames'[v] = frames[v]
           /\ Nests(u)'
           /\ Due(u)' = Due(u) + 1
           /\ InTriggers(u)' <=> InTriggers(u) \/ kind = "triggers"
<1> DEFINE f == frames[u]
           n == Len(frames[u])
<1>1. /\ f \in Seq(Frames) /\ n \in Nat \ {0} /\ kind \in Frames
      /\ pc'[u] = "running" /\ frames'[u] = Append(f, kind)
      /\ Nests(u)
  BY TopIs DEF Inv, TypeOK, Frames, FramesNest
<1>2. /\ Len(frames'[u]) = n + 1
      /\ \A i \in 1..n : frames'[u][i] = f[i]
      /\ frames'[u][n + 1] = kind
  BY <1>1
<1>3. frames' \in [Users -> Seq(Frames)] /\ \A v \in Users \ {u} : frames'[v] = frames[v]
  <2>1. Append(f, kind) \in Seq(Frames)
    BY <1>1
  <2> QED BY <2>1 DEF Inv, TypeOK
<1>4. kind = "triggers" => u = Owner /\ n = 1
  BY <1>1 DEF Nests
<1>5. Nests(u)'
  <2>1. f[1] \in Provided /\ \A i \in 2..n : f[i] \in {"command", "triggers"}
    BY <1>1 DEF Nests
  <2>2. \A i \in 1..n : f[i] = "triggers" => i = 2 /\ u = Owner
    BY <1>1 DEF Nests
  <2>3. frames'[u] # <<>> /\ frames'[u][1] \in Provided
    BY <1>1, <1>2, <2>1
  <2>4. \A i \in 2..(n + 1) : frames'[u][i] \in {"command", "triggers"}
    <3> HIDE DEF f, n
    <3>1. \A i \in 2..(n + 1) : i \in 2..n \/ i = n + 1
      BY <1>1
    <3> QED BY <1>1, <1>2, <2>1, <3>1
  <2>5. \A i \in 1..(n + 1) : frames'[u][i] = "triggers" => i = 2 /\ u = Owner
    <3> HIDE DEF f, n
    <3>1. \A i \in 1..(n + 1) : i \in 1..n \/ i = n + 1
      BY <1>1
    <3> QED BY <1>1, <1>2, <1>4, <2>2, <3>1
  <2> HIDE DEF f
  <2> QED BY <1>1, <1>2, <2>3, <2>4, <2>5 DEF Nests
<1>6. InTriggers(u)' <=> InTriggers(u) \/ kind = "triggers"
  <2> HIDE DEF f, n
  <2>1. DOMAIN frames'[u] = 1..(n + 1) /\ DOMAIN frames[u] = 1..n
    BY <1>1, <1>2 DEF f, n
  <2> QED BY <1>1, <1>2, <2>1 DEF InTriggers, f
<1>7. kind = "triggers" => ~InTriggers(u)
  BY <1>1, <1>4 DEF InTriggers, Nests
<1> HIDE DEF f
<1> QED BY <1>1, <1>2, <1>3, <1>5, <1>6, <1>7 DEF Due

\* The action ProvideFunction keeps the invariant: the context pushed is due for the
\* new function.
LEMMA ProvideFunctionInv ==
    ASSUME Inv, NEW u \in Users, ProvideFunction(u)
    PROVE  Inv'
<1> USE DEF ProvideFunction
<1>1. /\ frames' \in [Users -> Seq(Frames)]
      /\ \A v \in Users \ {u} : frames'[v] = frames[v]
      /\ Nests(u)'
      /\ Due(u)' = Due(u) + 1
  BY EnterKeeps
<1>2. Alone(u) /\ UsersTyped
  BY <1>1 DEF Inv, TypeOK, Alone, UsersTyped, PCs
<1>3. ResultsTyped /\ DueCovered(u)
  BY <1>1, DueIsNat, PushKeeps DEF DueCovered, Inv, TypeOK
<1>4. Sends(u) /\ ClosesOnSuccess(u)
  BY DEF Sends, ClosesOnSuccess, Inv, TypeOK, wires
<1> QED BY <1>1, <1>2, <1>3, <1>4, UserKeepsInv DEF server, wires

\* The action Triggers keeps the invariant: the owner's commit has no context of its
\* own, its triggers have.
LEMMA TriggersInv ==
    ASSUME Inv, NEW u \in Users, Triggers(u)
    PROVE  Inv'
<1> USE DEF Triggers
<1>1. /\ frames' \in [Users -> Seq(Frames)]
      /\ \A v \in Users \ {u} : frames'[v] = frames[v]
      /\ Nests(u)'
      /\ Due(u)' = Due(u) + 1
  BY EnterKeeps
<1>2. Alone(u) /\ UsersTyped
  BY <1>1 DEF Inv, TypeOK, Alone, UsersTyped, PCs
<1>3. ResultsTyped /\ DueCovered(u)
  BY <1>1, DueIsNat, PushKeeps DEF DueCovered, Inv, TypeOK
<1>4. Sends(u) /\ ClosesOnSuccess(u)
  BY DEF Sends, ClosesOnSuccess, Inv, TypeOK, wires
<1> QED BY <1>1, <1>2, <1>3, <1>4, UserKeepsInv DEF server, wires

\* An exception, its end, or a failure: nothing but the user's own place and answer
\* changes, and perhaps a roll-back message is sent.
LEMMA FailureKeeps ==
    ASSUME Inv, NEW u \in Users, pc[u] \notin {"idle", "awaiting", "done"},
           NEW p \in {"running", "throwing", "done"}, pc[u] = "committing" => p = "done",
           pc' = [pc EXCEPT ![u] = p],
           answer' \in {answer, [answer EXCEPT ![u] = TransactionClosed]},
           toServer' \in {toServer, RolledBack(toServer), RolledBack(RolledBack(toServer))},
           UNCHANGED <<socket, toClient, server, results, acceptors, edits, frames, update>>
    PROVE  Inv'
<1>1. TransactionClosed \in Results(Edits)
  BY DEF TransactionClosed, Results
<1>2. pc'[u] = p /\ frames' = frames /\ Alone(u) /\ UsersTyped
  BY <1>1 DEF Inv, TypeOK, Alone, UsersTyped, PCs
<1>3. Nests(u)'
  BY <1>2 DEF Inv, FramesNest, Nests
<1>4. Due(u) \in Nat /\ (Due(u)' = Due(u) \/ Due(u)' = 0)
  BY <1>2, DueIsNat DEF Inv, Due, InTriggers
<1>5. ResultsTyped /\ DueCovered(u)
  BY <1>4, ResultsKept DEF DueCovered, Inv, TypeOK, results
<1>6. toServer' \in Seq(Messages) /\ (Closes(toServer') => Closes(toServer))
  <2>1. toServer \in Seq(Messages)
    BY DEF Inv, TypeOK
  <2> QED BY <2>1, RolledBackKeeps
<1>7. Sends(u) /\ ClosesOnSuccess(u)
  BY <1>6 DEF Sends, ClosesOnSuccess, Inv, TypeOK
<1> QED BY <1>2, <1>3, <1>5, <1>7, UserKeepsInv DEF server

\* The action ProvideFails keeps the invariant.
LEMMA ProvideFailsInv ==
    ASSUME Inv, NEW u \in Users, ProvideFails(u)
    PROVE  Inv'
BY FailureKeeps DEF ProvideFails, Throw

\* The action Catch keeps the invariant.
LEMMA CatchInv ==
    ASSUME Inv, NEW u \in Users, Catch(u)
    PROVE  Inv'
BY FailureKeeps DEF Catch, wires

\* The action ThrowFromProvided keeps the invariant.
LEMMA ThrowFromProvidedInv ==
    ASSUME Inv, NEW u \in Users, ThrowFromProvided(u)
    PROVE  Inv'
BY FailureKeeps DEF ThrowFromProvided, AnswerFailure

\* The action Balk keeps the invariant.
LEMMA BalkInv ==
    ASSUME Inv, NEW u \in Users, Balk(u)
    PROVE  Inv'
BY FailureKeeps DEF Balk, Ran, AnswerFailure

\* The action TriggersFail keeps the invariant.
LEMMA TriggersFailInv ==
    ASSUME Inv, NEW u \in Users, TriggersFail(u)
    PROVE  Inv'
BY FailureKeeps DEF TriggersFail, AnswerFailure

\* Leaving a function: it is popped from the frames of its user.
LEMMA LeaveKeeps ==
    ASSUME Inv, NEW u \in Users, pc[u] \notin {"idle", "committing", "done"},
           Top(u) \in {"command", "triggers"},
           NEW p \in PCs \ {"idle"},
           Top(u) = "triggers" => p \in {"committing", "done"},
           Top(u) = "command" => p \notin {"committing", "done"},
           frames' = [frames EXCEPT ![u] = Front(@)],
           pc' = [pc EXCEPT ![u] = p]
    PROVE  /\ frames' \in [Users -> Seq(Frames)]
           /\ \A v \in Users \ {u} : frames'[v] = frames[v]
           /\ Nests(u)'
           /\ Due(u) >= 1
           /\ Due(u)' = Due(u) - 1
           /\ Top(u) = "command" => (InTriggers(u)' <=> InTriggers(u))
<1> DEFINE f == frames[u]
<1>0. PICK n \in Nat \ {0} : Len(f) = n + 1
  <2>1. Len(f) \in Nat \ {0} /\ Len(f) >= 2
    BY TopIs
  <2> DEFINE k == Len(f)
  <2>2. k \in Nat \ {0} /\ k >= 2
    BY <2>1
  <2> HIDE DEF k
  <2>3. k - 1 \in Nat \ {0} /\ k = k - 1 + 1
    BY <2>2
  <2> QED BY <2>3 DEF k
<1>1. /\ f \in Seq(Frames) /\ Len(f) = n + 1
      /\ pc'[u] = p /\ frames'[u] = Front(f)
      /\ Nests(u)
      /\ Due(u) >= 1
  <2>1. Len(f) \in Nat \ {0} /\ Len(f) >= 2 /\ Due(u) >= 1 /\ f \in Seq(Frames)
    BY TopIs
  <2>2. pc'[u] = p /\ frames'[u] = Front(f) /\ Nests(u)
    BY DEF Inv, TypeOK, FramesNest
  <2> HIDE DEF f
  <2> QED BY <1>0, <2>1, <2>2
<1>2. /\ Front(f) \in Seq(Frames)
      /\ Len(frames'[u]) = n
      /\ \A i \in 1..n : frames'[u][i] = f[i]
      /\ Top(u) = f[n + 1]
      /\ Top(u) = "triggers" => u = Owner /\ n = 1
  <2>1. /\ Front(f) \in Seq(Frames)
        /\ Len(Front(f)) = Len(f) - 1
        /\ \A i \in 1..(Len(f) - 1) : Front(f)[i] = f[i]
        /\ Top(u) = f[Len(f)]
        /\ Top(u) = "triggers" => u = Owner /\ Len(f) = 2
    BY TopIs
  <2> HIDE DEF f
  <2> QED BY <1>1, <2>1
<1>3. frames' \in [Users -> Seq(Frames)] /\ \A v \in Users \ {u} : frames'[v] = frames[v]
  BY <1>2 DEF Inv, TypeOK
<1>4. Nests(u)'
  <2>1. f[1] \in Provided /\ \A i \in 2..n : f[i] \in {"command", "triggers"}
    BY <1>1 DEF Nests
  <2>2. \A i \in 1..n : f[i] = "triggers" => i = 2 /\ u = Owner
    BY <1>1 DEF Nests
  <2>3. /\ frames'[u] # <<>>
        /\ frames'[u][1] \in Provided
        /\ \A i \in 2..n : frames'[u][i] \in {"command", "triggers"}
        /\ \A i \in 1..n : frames'[u][i] = "triggers" => i = 2 /\ u = Owner
    <3> HIDE DEF f
    <3> QED BY <1>1, <1>2, <2>1, <2>2
  <2>4. DOMAIN frames'[u] = 1..n
    BY <1>1, <1>2
  <2> HIDE DEF f
  <2> QED BY <1>1, <1>2, <2>3, <2>4 DEF Nests
<1>5. CASE Top(u) = "triggers"
  <2>1. Due(u) = 1
    <3>1. f[2] = "triggers" /\ 2 \in DOMAIN f /\ Len(f) = 2
      <4>1. n = 1 /\ f[n + 1] = "triggers"
        BY <1>2, <1>5
      <4>2. n + 1 = 2
        BY <4>1
      <4>3. f \in Seq(Frames) /\ Len(f) = n + 1
        BY <1>1
      <4> HIDE DEF f
      <4> QED BY <4>1, <4>2, <4>3
    <3>2. InTriggers(u)
      BY <3>1 DEF InTriggers
    <3> QED BY <3>1, <3>2 DEF Due
  <2>2. Due(u)' = 0
    <3>1. Len(frames'[u]) = 1 /\ p \in {"committing", "done"}
      BY <1>1, <1>2, <1>5
    <3>2. CASE p = "done"
      BY <1>1, <3>2 DEF Due
    <3>3. CASE p = "committing"
      <4>1. Due(u)' = Len(frames'[u]) - 1
        BY <1>1, <3>3 DEF Due
      <4> QED BY <3>1, <4>1
    <3> QED BY <3>1, <3>2, <3>3
  <2> QED BY <1>1, <1>3, <1>4, <1>5, <2>1, <2>2
<1>6. CASE Top(u) = "command"
  <2>1. InTriggers(u)' <=> InTriggers(u)
    <3>1. DOMAIN frames'[u] = 1..n /\ DOMAIN f = 1..(n + 1)
      BY <1>1, <1>2
    <3>2. \A i \in 1..(n + 1) : i \in 1..n \/ i = n + 1
      BY <1>1
    <3>3. 1..n \subseteq 1..(n + 1)
      BY <1>1
    <3> QED BY <1>2, <1>6, <3>1, <3>2, <3>3 DEF InTriggers
  <2>2. Due(u) = n + 1 - (IF InTriggers(u) THEN 1 ELSE 0)
    <3>1. Due(u) = Len(f) - (IF InTriggers(u) THEN 1 ELSE 0)
      BY DEF Due
    <3> HIDE DEF f
    <3> QED BY <1>1, <3>1
  <2>3. Due(u)' = n - (IF InTriggers(u) THEN 1 ELSE 0)
    BY <1>1, <1>2, <1>6, <2>1 DEF Due
  <2>4. Due(u)' = Due(u) - 1
    BY <1>1, <2>2, <2>3
  <2> QED BY <1>1, <1>3, <1>4, <1>6, <2>1, <2>4
<1> QED BY <1>5, <1>6

\* The action CommandReturns keeps the invariant: the context popped was the
\* function's.
LEMMA CommandReturnsInv ==
    ASSUME Inv, NEW u \in Users, CommandReturns(u)
    PROVE  Inv'
<1> USE DEF CommandReturns
<1>1. PICK p \in {"running", "throwing"} : pc' = [pc EXCEPT ![u] = p]
  BY DEF Throw, Inv, TypeOK
<1>2. /\ frames' \in [Users -> Seq(Frames)]
      /\ \A v \in Users \ {u} : frames'[v] = frames[v]
      /\ Nests(u)'
      /\ Due(u) >= 1
      /\ Due(u)' = Due(u) - 1
  BY <1>1, LeaveKeeps DEF PCs
<1>3. Alone(u) /\ UsersTyped
  BY <1>1, <1>2 DEF Inv, TypeOK, Alone, UsersTyped, PCs
<1>4. ResultsTyped /\ Len(nested') = Len(nested) - 1 /\ Len(nested) \in Nat
  BY <1>2, PopKeeps DEF PopContext, ResultsTyped, Inv, TypeOK
<1>5. DueCovered(u)
  BY <1>2, <1>4, DueIsNat DEF DueCovered, Inv
<1>6. toServer' \in Seq(Messages) /\ (Closes(toServer') => Closes(toServer))
  BY RolledBackKeeps DEF Inv, TypeOK
<1>7. Sends(u) /\ ClosesOnSuccess(u)
  BY <1>6 DEF Sends, ClosesOnSuccess, Inv, TypeOK
<1> QED BY <1>2, <1>3, <1>4, <1>5, <1>7, UserKeepsInv DEF server

\* The action ThrowFromCommand keeps the invariant: one context less is due, and none
\* is popped.
LEMMA ThrowFromCommandInv ==
    ASSUME Inv, NEW u \in Users, ThrowFromCommand(u)
    PROVE  Inv'
<1> USE DEF ThrowFromCommand
<1>1. pc' = [pc EXCEPT ![u] = "throwing"]
  BY DEF Inv, TypeOK
<1>2. /\ frames' \in [Users -> Seq(Frames)]
      /\ \A v \in Users \ {u} : frames'[v] = frames[v]
      /\ Nests(u)'
      /\ Due(u) >= 1
      /\ Due(u)' = Due(u) - 1
  BY <1>1, LeaveKeeps DEF PCs
<1>3. Alone(u) /\ UsersTyped
  BY <1>2 DEF Inv, TypeOK, Alone, UsersTyped, PCs
<1>4. ResultsTyped /\ DueCovered(u)
  BY <1>2, ResultsKept, DueIsNat DEF DueCovered, Inv, TypeOK, results
<1>5. toServer' \in Seq(Messages) /\ (Closes(toServer') => Closes(toServer))
  BY RolledBackKeeps DEF Inv, TypeOK
<1>6. Sends(u) /\ ClosesOnSuccess(u)
  BY <1>5 DEF Sends, ClosesOnSuccess, Inv, TypeOK
<1> QED BY <1>2, <1>3, <1>4, <1>6, UserKeepsInv DEF server

\* The action ThrowFromTriggers keeps the invariant.
LEMMA ThrowFromTriggersInv ==
    ASSUME Inv, NEW u \in Users, ThrowFromTriggers(u)
    PROVE  Inv'
<1> USE DEF ThrowFromTriggers, AnswerFailure
<1>1. /\ frames' \in [Users -> Seq(Frames)]
      /\ \A v \in Users \ {u} : frames'[v] = frames[v]
      /\ Nests(u)'
      /\ Due(u) >= 1
      /\ Due(u)' = Due(u) - 1
  BY LeaveKeeps DEF PCs
<1>2. TransactionClosed \in Results(Edits)
  BY DEF TransactionClosed, Results
<1>3. Alone(u) /\ UsersTyped
  BY <1>1, <1>2 DEF Inv, TypeOK, Alone, UsersTyped, PCs
<1>4. ResultsTyped /\ Len(nested') = Len(nested) - 1 /\ Len(nested) \in Nat
  BY <1>1, PopKeeps DEF PopContext, ResultsTyped, Inv, TypeOK
<1>5. DueCovered(u)
  BY <1>1, <1>4, DueIsNat DEF DueCovered, Inv
<1>6. toServer' \in Seq(Messages) /\ (Closes(toServer') => Closes(toServer))
  BY RolledBackKeeps DEF Inv, TypeOK
<1>7. Sends(u) /\ ClosesOnSuccess(u)
  BY <1>6 DEF Sends, ClosesOnSuccess, Inv, TypeOK
<1> QED BY <1>1, <1>3, <1>4, <1>5, <1>7, UserKeepsInv DEF server

\* The owner's commit goes on or ends, with an aggregate that succeeded.
LEMMA CommitLoopKeeps ==
    ASSUME Inv, NEW u \in Users, u = Owner, NEW delta, NEW result \in Succeeded,
           CommitLoop(u, delta, result), UNCHANGED <<acceptors, edits>>
    PROVE  /\ Sends(u)
           /\ ClosesOnSuccess(u)
           /\ answer' \in [Users -> Results(Edits) \cup {Unanswered}]
           /\ \A v \in Users \ {u} : answer'[v] = answer[v]
           /\ \E p \in {"committing", "done"} : pc' = [pc EXCEPT ![u] = p]
<1>1. /\ toServer \in Seq(Messages) /\ acceptors' = acceptors /\ edits' \in 0..MaxEdits
      /\ answer \in [Users -> Results(Edits) \cup {Unanswered}]
      /\ pc \in [Users -> PCs]
      /\ result \in Results(Edits)
  BY DEF Inv, TypeOK, PCs, Succeeded
<1>2. CASE delta # <<>>
  BY <1>1, <1>2 DEF CommitLoop, Sends, ClosesOnSuccess
<1>3. CASE delta = <<>>
  <2> DEFINE m == [type |-> "close"]
  <2>1. SendClose(u, result)
    BY <1>3 DEF CommitLoop
  <2>2. m \in Messages
    BY DEF Messages, Terminal
  <2>3. toServer' \in Seq(Messages)
    BY <1>1, <2>1, <2>2 DEF SendClose
  <2>4. pc' = [pc EXCEPT ![u] = "done"] /\ pc'[u] = "done"
    BY <1>1, <2>1 DEF SendClose
  <2>5. TransactionClosed \in Results(Edits)
    BY DEF TransactionClosed, Results
  <2>6. /\ answer' \in [Users -> Results(Edits) \cup {Unanswered}]
        /\ \A v \in Users \ {u} : answer'[v] = answer[v]
        /\ IsOpen => answer'[u] = result
    BY <1>1, <2>1, <2>5 DEF SendClose, IsOpen
  <2>7. ClosesOnSuccess(u)
    BY <2>1, <2>4, <2>6 DEF SendClose, ClosesOnSuccess
  <2> QED BY <1>1, <2>3, <2>4, <2>6, <2>7 DEF Sends
<1> QED BY <1>2, <1>3

\* The action NoTriggers keeps the invariant: what it answers was merged from
\* successes.
LEMMA NoTriggersInv ==
    ASSUME Inv, NEW u \in Users, NoTriggers(u)
    PROVE  Inv'
<1> USE DEF NoTriggers
<1>1. u = Owner /\ Nests(u)
  BY DEF Inv, FramesNest, Nests
<1>2. heap[update] \in Succeeded
  BY HeapSucceeds DEF Inv, TypeOK
<1>3. /\ Sends(u)
      /\ ClosesOnSuccess(u)
      /\ answer' \in [Users -> Results(Edits) \cup {Unanswered}]
      /\ \A v \in Users \ {u} : answer'[v] = answer[v]
      /\ \E p \in {"committing", "done"} : pc' = [pc EXCEPT ![u] = p]
  BY <1>1, <1>2, CommitLoopKeeps
<1>4. PICK p \in {"committing", "done"} : pc' = [pc EXCEPT ![u] = p]
  BY <1>3
<1>5. pc'[u] = p /\ Alone(u) /\ UsersTyped
  BY <1>3, <1>4 DEF Inv, TypeOK, Alone, UsersTyped, PCs
<1>6. Nests(u)'
  BY <1>1, <1>5 DEF Nests
<1>7. Due(u) \in Nat /\ (Due(u)' = Due(u) \/ Due(u)' = 0)
  BY <1>5, DueIsNat DEF Inv, Due, InTriggers
<1>8. ResultsTyped /\ DueCovered(u)
  BY <1>7, ResultsKept DEF DueCovered, Inv, TypeOK, results
<1> QED BY <1>3, <1>5, <1>6, <1>8, UserKeepsInv DEF server

\* The action Commit keeps the invariant: so was what it answers with, if it ends here.
LEMMA CommitInv ==
    ASSUME Inv, NEW u \in Users, Commit(u)
    PROVE  Inv'
<1> USE DEF Commit, Ran
<1> DEFINE result == heap[Last(nested)]
<1>1. Due(u) >= 1 /\ Top(u) \in Provided /\ Nests(u)
  BY TopIs DEF Provided, Inv, FramesNest
<1>2. Len(frames[u]) = 1 /\ frames' = frames
  BY <1>1, TopIs
<1>3. result \in Succeeded /\ result \in Results(Edits)
  BY <1>1, PopKeeps DEF Succeeded
<1>4. ResultsTyped /\ Len(nested') = Len(nested) - 1 /\ Len(nested) \in Nat
  <2>1. Last(nested) \in DOMAIN heap /\ update \in DOMAIN heap
    BY <1>1, PopKeeps DEF Inv, TypeOK
  <2> QED BY <1>1, <2>1, PopKeeps DEF PopContext, ResultsTyped
<1>5. /\ Sends(u)
      /\ ClosesOnSuccess(u)
      /\ answer' \in [Users -> Results(Edits) \cup {Unanswered}]
      /\ \A v \in Users \ {u} : answer'[v] = answer[v]
      /\ \E p \in {"committing", "done"} :
            pc' = [pc EXCEPT ![u] = p] /\ (p = "committing" => u = Owner)
  <2>1. CASE u = Owner /\ IsOpen
    <3>1. CommitLoop(u, result.patch, result) /\ UNCHANGED <<acceptors, edits>>
      BY <2>1
    <3> HIDE DEF result
    <3> QED BY <1>3, <2>1, <3>1, CommitLoopKeeps
  <2>2. CASE ~(u = Owner /\ IsOpen)
    <3>1. /\ answer' = [answer EXCEPT ![u] = IF u = Owner THEN TransactionClosed ELSE result]
          /\ pc' = [pc EXCEPT ![u] = "done"]
          /\ toServer' = toServer
      BY <2>2
    <3>2. TransactionClosed \in Results(Edits)
      BY DEF TransactionClosed, Results
    <3> HIDE DEF result
    <3>3. /\ answer' \in [Users -> Results(Edits) \cup {Unanswered}]
          /\ \A v \in Users \ {u} : answer'[v] = answer[v]
      BY <1>3, <3>1, <3>2 DEF Inv, TypeOK
    <3> QED BY <3>1, <3>3 DEF Sends, ClosesOnSuccess, Inv, TypeOK
  <2> QED BY <2>1, <2>2
<1>6. PICK p \in {"committing", "done"} :
            pc' = [pc EXCEPT ![u] = p] /\ (p = "committing" => u = Owner)
  BY <1>5
<1>7. pc'[u] = p /\ Alone(u) /\ UsersTyped
  BY <1>2, <1>5, <1>6 DEF Inv, TypeOK, Alone, UsersTyped, PCs
<1>8. Nests(u)'
  BY <1>1, <1>2, <1>6, <1>7 DEF Nests
<1>9. Due(u)' = 0
  <2>1. CASE p = "done"
    BY <1>7, <2>1 DEF Due
  <2>2. CASE p = "committing"
    BY <1>2, <1>7, <2>2 DEF Due
  <2> QED BY <2>1, <2>2
<1>10. DueCovered(u)
  BY <1>1, <1>4, <1>9, DueIsNat DEF DueCovered, Inv
<1> QED BY <1>4, <1>5, <1>7, <1>8, <1>10, UserKeepsInv DEF server

\* The action TriggersReturn keeps the invariant: their context is popped, and merged
\* into a result that succeeded.
LEMMA TriggersReturnInv ==
    ASSUME Inv, NEW u \in Users, TriggersReturn(u)
    PROVE  Inv'
<1> USE DEF TriggersReturn
<1> DEFINE result == heap[Last(nested)]
<1>1. Due(u) >= 1 /\ u = Owner /\ Len(frames[u]) = 2
  BY TopIs
<1>2. /\ result \in Succeeded
      /\ HeapAfterPop \in Seq(Succeeded) /\ DOMAIN HeapAfterPop = DOMAIN heap
      /\ update \in DOMAIN heap
      /\ heap[update] \in Succeeded
      /\ nested' \in Seq(DOMAIN heap)
      /\ Len(nested') = Len(nested) - 1 /\ Len(nested) \in Nat
  BY <1>1, PopKeeps, HeapSucceeds DEF Inv, TypeOK
<1>3. \A r \in Succeeded : Merge(r, result) \in Succeeded
  <2>1. result \in Results(Edits) /\ result.success
    BY <1>2 DEF Succeeded
  <2> HIDE DEF result
  <2> QED BY <2>1, MergeSucceeds
<1>4. ResultsTyped
  <2>1. HeapAfterPop[update] \in Succeeded
    BY <1>2
  <2>2. heap' = [HeapAfterPop EXCEPT ![update] = Merge(HeapAfterPop[update], result)]
    OBVIOUS
  <2>3. Merge(HeapAfterPop[update], result) \in Succeeded
    BY <1>3, <2>1
  <2>4. heap' \in Seq(Succeeded) /\ DOMAIN heap' = DOMAIN heap
    <3> HIDE DEF result
    <3> QED BY <1>2, <2>2, <2>3
  <2>5. update' = update
    OBVIOUS
  <2> QED BY <1>2, <2>4, <2>5 DEF ResultsTyped
<1>5. /\ Sends(u)
      /\ ClosesOnSuccess(u)
      /\ answer' \in [Users -> Results(Edits) \cup {Unanswered}]
      /\ \A v \in Users \ {u} : answer'[v] = answer[v]
      /\ \E p \in {"committing", "done"} : pc' = [pc EXCEPT ![u] = p]
  <2>1. Merge(heap[update], result) \in Succeeded
    BY <1>2, <1>3
  <2>2. CommitLoop(u, result.patch, Merge(heap[update], result))
    OBVIOUS
  <2>3. UNCHANGED <<acceptors, edits>>
    OBVIOUS
  <2> QED BY <1>1, <2>1, <2>2, <2>3, CommitLoopKeeps
<1>6. PICK p \in {"committing", "done"} : pc' = [pc EXCEPT ![u] = p]
  BY <1>5
<1>7. pc'[u] = p
  BY <1>6 DEF Inv, TypeOK
<1>8. /\ frames' \in [Users -> Seq(Frames)]
      /\ \A v \in Users \ {u} : frames'[v] = frames[v]
      /\ Nests(u)'
      /\ Due(u)' = Due(u) - 1
  <2>1. CASE frames' = [frames EXCEPT ![u] = Front(@)]
    BY <1>6, <2>1, LeaveKeeps DEF PCs
  <2>2. CASE frames' = [frames EXCEPT ![u] = <<"balked">>]
    <3>1. frames \in [Users -> Seq(Frames)] /\ <<"balked">> \in Seq(Frames)
      BY DEF Inv, TypeOK, Frames, Provided
    <3>2. frames'[u] = <<"balked">>
      BY <2>2, <3>1
    <3>3. Nests(u)'
      BY <1>1, <1>7, <3>2 DEF Nests, Provided
    <3>4. Due(u) = 1
      <4>1. frames[u][2] = "triggers"
        BY <1>1, TopIs
      <4>2. InTriggers(u)
        BY <1>1, <4>1, TopIs DEF InTriggers
      <4> QED BY <1>1, <4>2 DEF Due
    <3>5. Due(u)' = 0
      <4>1. CASE p = "done"
        BY <1>7, <4>1 DEF Due
      <4>2. CASE p = "committing"
        BY <1>7, <3>2, <4>2 DEF Due
      <4> QED BY <4>1, <4>2
    <3>6. frames' \in [Users -> Seq(Frames)] /\ \A v \in Users \ {u} : frames'[v] = frames[v]
      BY <2>2, <3>1
    <3>7. Due(u)' = Due(u) - 1
      BY <3>4, <3>5
    <3> QED BY <3>3, <3>6, <3>7
  <2>3. PICK balks \in BOOLEAN :
           frames' = [frames EXCEPT ![u] = IF balks THEN <<"balked">> ELSE Front(@)]
    OBVIOUS
  <2>4. \/ frames' = [frames EXCEPT ![u] = Front(@)]
        \/ frames' = [frames EXCEPT ![u] = <<"balked">>]
    <3>1. CASE balks
      BY <2>3, <3>1
    <3>2. CASE ~balks
      BY <2>3, <3>2
    <3> QED BY <3>1, <3>2
  <2> QED BY <2>1, <2>2, <2>4
<1>9. Alone(u) /\ UsersTyped
  BY <1>5, <1>6, <1>8 DEF Inv, TypeOK, Alone, UsersTyped, PCs
<1>10. DueCovered(u)
  BY <1>1, <1>2, <1>8, DueIsNat DEF DueCovered, Inv
<1> QED BY <1>4, <1>5, <1>8, <1>9, <1>10, UserKeepsInv DEF server

-----------------------------------------------------------------------------
(* The connection and the server.                                          *)

\* What travels, and what became of the transaction, stays typed; no reply comes up
\* that has changes and failed, and no close message.
WiresTyped ==
    /\ socket' \in {"open", "closing", "closed"}
    /\ toServer' \in Seq(Messages)
    /\ toClient' \in Seq(Replies)
    /\ status' \in {"open", "committed", "rolledBack", "failed"}
    /\ log' \in Seq(Edits)
    /\ \A i \in DOMAIN toClient' :
          toClient'[i].result.patch # <<>> => toClient'[i].result.success
    /\ status' = "committed" \/ Closes(toServer') => status = "committed" \/ Closes(toServer)

\* Users that wait are resumed, and no one waits any more.
LEMMA ResumeKeeps ==
    ASSUME Inv, WiresTyped, acceptors' = <<>>,
           pc' \in [Users -> PCs], frames' \in [Users -> Seq(Frames)],
           \A v \in Users : \/ pc'[v] = pc[v]
                            \/ pc[v] = "awaiting" /\ pc'[v] \in {"running", "throwing"},
           \A v \in Users : \/ frames'[v] = frames[v]
                            \/ frames[v] = <<"edited">> /\ frames'[v] = <<"refused">>,
           heap' \in Seq(Succeeded), DOMAIN heap' = DOMAIN heap,
           UNCHANGED <<nested, edits, update, answer>>
    PROVE  Inv'
<1>1. TypeOK'
  <2>1. heap' \in Seq(Results(Edits))
    BY DEF Succeeded
  <2> QED BY <2>1 DEF Inv, TypeOK, WiresTyped, PCs
<1>2. ASSUME NEW v \in Users PROVE Nests(v)' /\ Due(v)' = Due(v)
  <2>1. Nests(v)
    BY DEF Inv, FramesNest
  <2>2. CASE frames'[v] = frames[v]
    BY <2>1, <2>2 DEF Nests, Due, InTriggers
  <2>3. CASE frames[v] = <<"edited">> /\ frames'[v] = <<"refused">>
    <3>1. Nests(v)'
      BY <2>1, <2>3 DEF Nests, Provided
    <3>2. ~InTriggers(v) /\ ~InTriggers(v)'
      BY <2>3 DEF InTriggers
    <3>3. Due(v)' = Due(v)
      BY <2>1, <2>3, <3>2 DEF Due, Nests
    <3> QED BY <3>1, <3>3
  <2> QED BY <2>2, <2>3
<1>3. FramesNest'
  BY <1>2 DEF FramesNest
<1>4. StackCoversFrames'
  <2>1. [v \in Users |-> Due(v)]' = [v \in Users |-> Due(v)]
    BY <1>2
  <2> QED BY <2>1 DEF Inv, StackCoversFrames
<1>5. OnlySuccessIsMerged'
  BY DEF WiresTyped, OnlySuccessIsMerged, Succeeded
<1>6. ToldBeforeClose'
  BY ContextAssumption DEF Inv, WiresTyped, ToldBeforeClose
<1> QED BY <1>1, <1>3, <1>4, <1>5, <1>6 DEF Inv

\* A step of the server, or the end of the connection, leaves the client alone.
LEMMA ElsewhereKeeps ==
    ASSUME Inv, WiresTyped, UNCHANGED <<results, acceptors, edits, users>>
    PROVE  Inv'
<1> USE DEF results, users
<1>1. TypeOK'
  BY DEF Inv, TypeOK, WiresTyped
<1>2. FramesNest'
  BY DEF Inv, FramesNest, Nests
<1>3. StackCoversFrames'
  <2>1. \A v \in Users : Due(v)' = Due(v)
    BY DEF Due, InTriggers
  <2>2. [v \in Users |-> Due(v)]' = [v \in Users |-> Due(v)]
    BY <2>1
  <2> QED BY <2>2 DEF Inv, StackCoversFrames
<1>4. OnlySuccessIsMerged'
  BY DEF Inv, WiresTyped, OnlySuccessIsMerged
<1>5. ToldBeforeClose'
  BY DEF Inv, WiresTyped, ToldBeforeClose
<1> QED BY <1>1, <1>2, <1>3, <1>4, <1>5 DEF Inv

\* Taking the first of a sequence leaves others of it.
LEMMA TailProperties ==
    ASSUME NEW X, NEW s \in Seq(X), s # <<>>
    PROVE  /\ Head(s) = s[1]
           /\ 1 \in DOMAIN s
           /\ Head(s) \in X
           /\ Tail(s) \in Seq(X)
           /\ \A i \in DOMAIN Tail(s) : i + 1 \in DOMAIN s /\ Tail(s)[i] = s[i + 1]
OBVIOUS

\* The action Receive keeps the invariant: all acceptors merge the reply, and their
\* users resume.
LEMMA ReceiveInv ==
    ASSUME Inv, Receive
    PROVE  Inv'
<1> USE DEF Receive
<1> DEFINE reply == Head(toClient)
           takers == Accepting(reply)
           Waiting == [user : {v \in Users : pc[v] = "awaiting"},
                       edit : Edits, current : DOMAIN heap]
<1>1. /\ toClient \in Seq(Replies)
      /\ acceptors \in Seq(Waiting)
      /\ pc \in [Users -> PCs] /\ frames \in [Users -> Seq(Frames)]
  BY DEF Inv, TypeOK, PCs
<1>2. /\ reply = toClient[1] /\ 1 \in DOMAIN toClient /\ reply \in Replies
      /\ toClient' \in Seq(Replies)
      /\ \A i \in DOMAIN toClient' : i + 1 \in DOMAIN toClient /\ toClient'[i] = toClient[i + 1]
  BY <1>1, TailProperties
<1>3. reply.result \in Results(Edits) /\ (reply.result.patch # <<>> => reply.result.success)
  BY <1>2 DEF Replies, Inv, OnlySuccessIsMerged
<1>4. WiresTyped
  BY <1>2 DEF WiresTyped, server, Inv, TypeOK, OnlySuccessIsMerged
<1>5. takers = acceptors /\ acceptors' = <<>>
  BY DEF Accepting, Listening
<1>6. heap' \in Seq(Succeeded) /\ DOMAIN heap' = DOMAIN heap
  <2>1. heap \in Seq(Succeeded)
    BY HeapSucceeds
  <2>2. heap \in [1..Len(heap) -> Succeeded] /\ DOMAIN heap = 1..Len(heap) /\ Len(heap) \in Nat
    BY <2>1
  <2>3. takers \in Seq([user : Users, edit : Edits, current : DOMAIN heap])
    <3>1. Waiting \subseteq [user : Users, edit : Edits, current : DOMAIN heap]
      OBVIOUS
    <3>2. acceptors \in Seq([user : Users, edit : Edits, current : DOMAIN heap])
      <4> HIDE DEF Waiting
      <4> QED BY <1>1, <3>1, LargerSeq, Zenon
    <3> QED BY <1>5, <3>2, Zenon
  <2>4. \A r \in Succeeded : Merge(r, reply.result) \in Succeeded
    <3> DEFINE s == reply.result
    <3>1. s \in Results(Edits) /\ (s.patch # <<>> => s.success)
      BY <1>3
    <3> HIDE DEF s
    <3>2. \A r \in Succeeded : Merge(r, s) \in Succeeded
      BY <3>1, MergeSucceeds
    <3> QED BY <3>2 DEF s
  <2>5. MergeAll(heap, takers, reply.result) \in [DOMAIN heap -> Succeeded]
    <3> HIDE DEF takers, reply
    <3> QED BY <2>2, <2>3, <2>4, MergeAllKeeps
  <2> QED BY <2>2, <2>5
<1>7. /\ pc' \in [Users -> PCs]
      /\ \A v \in Users : \/ pc'[v] = pc[v]
                          \/ pc[v] = "awaiting" /\ pc'[v] \in {"running", "throwing"}
  <2>1. \A i \in DOMAIN takers : takers[i].user \in Users /\ pc[takers[i].user] = "awaiting"
    <3>1. \A i \in DOMAIN acceptors : acceptors[i] \in Waiting
      <4> HIDE DEF Waiting
      <4> QED BY <1>1
    <3> HIDE DEF takers
    <3> QED BY <1>5, <3>1
  <2>2. pc' = [v \in Users |->
                 IF \E i \in DOMAIN takers : takers[i].user = v THEN "running" ELSE pc[v]]
    OBVIOUS
  <2> HIDE DEF takers
  <2> QED BY <1>1, <2>1, <2>2 DEF PCs
<1>8. /\ frames' \in [Users -> Seq(Frames)]
      /\ \A v \in Users : \/ frames'[v] = frames[v]
                          \/ frames[v] = <<"edited">> /\ frames'[v] = <<"refused">>
  <2>1. <<"refused">> \in Seq(Frames)
    BY DEF Frames, Provided
  <2> HIDE DEF takers, reply
  <2> QED BY <1>1, <2>1 DEF takers, reply
<1> QED BY <1>4, <1>5, <1>6, <1>7, <1>8, ResumeKeeps

\* The action SocketClosed keeps the invariant.
LEMMA SocketClosedInv ==
    ASSUME Inv, SocketClosed
    PROVE  Inv'
<1> USE DEF SocketClosed
<1>1. WiresTyped
  BY DEF WiresTyped, wires, server, Inv, TypeOK, OnlySuccessIsMerged
<1>2. heap' \in Seq(Succeeded) /\ DOMAIN heap' = DOMAIN heap
  BY HeapSucceeds DEF results
<1>3. /\ pc' \in [Users -> PCs]
      /\ \A v \in Users : \/ pc'[v] = pc[v]
                          \/ pc[v] = "awaiting" /\ pc'[v] \in {"running", "throwing"}
  BY DEF Inv, TypeOK, PCs
<1>4. frames' \in [Users -> Seq(Frames)]
  BY DEF Inv, TypeOK
<1> QED BY <1>1, <1>2, <1>3, <1>4, ResumeKeeps DEF results

\* So does the socket when it starts closing.
LEMMA ClosingInv ==
    ASSUME Inv, CloseFrame \/ ConnectionLost
    PROVE  Inv'
<1>1. /\ socket' = "closing" /\ toClient' = <<>>
      /\ UNCHANGED <<toServer, status, log>>
  BY DEF CloseFrame, ConnectionLost, StartClosing, server
<1>2. toClient' \in Seq(Replies) /\ DOMAIN toClient' = {}
  BY <1>1
<1>3. WiresTyped
  BY <1>1, <1>2 DEF WiresTyped, Inv, TypeOK
<1> QED BY <1>3, ElsewhereKeeps DEF CloseFrame, ConnectionLost, StartClosing

\* The action ServerExecutes keeps the invariant: a reply with changes is a success.
LEMMA ServerExecutesInv ==
    ASSUME Inv, ServerExecutes
    PROVE  Inv'
<1> USE DEF ServerExecutes
<1> DEFINE e == Head(toServer).edit
<1>1. /\ toServer \in Seq(Messages) /\ toClient \in Seq(Replies) /\ log \in Seq(Edits)
      /\ \A i \in DOMAIN toClient :
            toClient[i].result.patch # <<>> => toClient[i].result.success
  BY DEF Inv, TypeOK, OnlySuccessIsMerged
<1>2. /\ Head(toServer) \in Messages /\ toServer' \in Seq(Messages)
      /\ \A i \in DOMAIN toServer' : i + 1 \in DOMAIN toServer /\ toServer'[i] = toServer[i + 1]
  BY <1>1, TailProperties
<1>3. e \in Edits
  BY <1>2 DEF Messages, Terminal
<1>4. \E success \in BOOLEAN, patch \in Seq(Edits) :
         /\ patch # <<>> => success
         /\ Reply(e, success, patch)
         /\ log' \in Seq(Edits)
  <2>1. <<e>> \in Seq(Edits) /\ <<>> \in Seq(Edits) /\ Append(log, e) \in Seq(Edits)
    BY <1>1, <1>3
  <2>2. CASE log' = Append(log, e) /\ Reply(e, TRUE, <<e>>)
    BY <2>1, <2>2, Zenon
  <2>3. ASSUME NEW success \in BOOLEAN, log' = log, Reply(e, success, <<>>)
        PROVE  <1>4!:
    BY <1>1, <2>1, <2>3, Zenon
  <2> HIDE DEF e
  <2> QED BY <2>2, <2>3, Zenon DEF e
<1>5. PICK success \in BOOLEAN, patch \in Seq(Edits) :
         /\ patch # <<>> => success
         /\ Reply(e, success, patch)
         /\ log' \in Seq(Edits)
  BY <1>4
<1>6. /\ toClient' \in Seq(Replies)
      /\ \A i \in DOMAIN toClient' :
            toClient'[i].result.patch # <<>> => toClient'[i].result.success
  <2> DEFINE r == [edit |-> e, result |-> [success |-> success, patch |-> patch]]
  <2>1. r \in Replies /\ (r.result.patch # <<>> => r.result.success)
    BY <1>3, <1>5 DEF Replies, Results
  <2>2. toClient' = toClient \/ toClient' = Append(toClient, r)
    BY <1>5 DEF Reply
  <2> HIDE DEF r
  <2>3. CASE toClient' = toClient
    BY <1>1, <2>3
  <2>4. CASE toClient' = Append(toClient, r)
    <3>1. toClient' \in Seq(Replies) /\ Len(toClient') = Len(toClient) + 1
      BY <1>1, <2>1, <2>4
    <3>2. \A i \in DOMAIN toClient' :
             toClient'[i] = IF i \in DOMAIN toClient THEN toClient[i] ELSE r
      BY <1>1, <2>1, <2>4
    <3> QED BY <1>1, <2>1, <3>1, <3>2
  <2> QED BY <2>2, <2>3, <2>4
<1>7. WiresTyped
  BY <1>2, <1>5, <1>6 DEF WiresTyped, Closes, Inv, TypeOK
<1> QED BY <1>7, ElsewhereKeeps

\* The action ServerEnds keeps the invariant: a transaction is committed by a close
\* message.
LEMMA ServerEndsInv ==
    ASSUME Inv, ServerEnds
    PROVE  Inv'
<1> USE DEF ServerEnds
<1>1. toServer \in Seq(Messages)
  BY DEF Inv, TypeOK
<1>2. /\ toServer' \in Seq(Messages) /\ Head(toServer) = toServer[1] /\ 1 \in DOMAIN toServer
      /\ \A i \in DOMAIN toServer' : i + 1 \in DOMAIN toServer /\ toServer'[i] = toServer[i + 1]
  BY <1>1, TailProperties
<1>3. Head(toServer).type = "close" => Closes(toServer)
  BY <1>2 DEF Closes
<1>4. Closes(toServer') => Closes(toServer)
  BY <1>2 DEF Closes
<1>5. /\ status' \in {"committed", "rolledBack"}
      /\ status' = "committed" => Closes(toServer)
      /\ log' \in Seq(Edits)
      /\ UNCHANGED <<socket, toClient>>
  <2>1. \/ status' = "committed" /\ log' = log /\ Head(toServer).type = "close"
        \/ status' = "rolledBack" /\ log' = <<>>
    OBVIOUS
  <2>2. log \in Seq(Edits) /\ <<>> \in Seq(Edits)
    BY DEF Inv, TypeOK
  <2> QED BY <1>3, <2>1, <2>2
<1>6. WiresTyped
  BY <1>2, <1>4, <1>5 DEF WiresTyped, Inv, TypeOK, OnlySuccessIsMerged
<1> QED BY <1>6, ElsewhereKeeps

\* So do the other steps of the server.
LEMMA ServerOtherInv ==
    ASSUME Inv, ServerIgnores \/ ServerDrops
    PROVE  Inv'
<1>1. WiresTyped
  <2>1. CASE ServerIgnores
    <3>1. toServer \in Seq(Messages)
      BY DEF Inv, TypeOK
    <3>2. /\ toServer' \in Seq(Messages)
          /\ \A i \in DOMAIN toServer' :
                i + 1 \in DOMAIN toServer /\ toServer'[i] = toServer[i + 1]
      BY <2>1, <3>1, TailProperties DEF ServerIgnores
    <3> QED BY <2>1, <3>2
            DEF ServerIgnores, WiresTyped, Closes, server, Inv, TypeOK, OnlySuccessIsMerged
  <2>2. CASE ServerDrops
    BY <2>2 DEF ServerDrops, WiresTyped, wires, Inv, TypeOK, OnlySuccessIsMerged
  <2> QED BY <2>1, <2>2
<1> QED BY <1>1, ElsewhereKeeps DEF ServerIgnores, ServerDrops

-----------------------------------------------------------------------------
(* The theorems.                                                           *)

\* The invariant holds at first.
LEMMA InitInv ==
    ASSUME Init
    PROVE  Inv
<1> USE DEF Init
<1>1. FreshResult \in Succeeded /\ FreshResult \in Results(Edits)
  BY DEF FreshResult, Succeeded, Results
<1>2. TypeOK
  <2>1. heap \in Seq(Results(Edits)) /\ nested \in Seq(DOMAIN heap) /\ update \in DOMAIN heap
    BY <1>1
  <2>2. /\ toServer \in Seq(Messages) /\ toClient \in Seq(Replies) /\ log \in Seq(Edits)
        /\ edits \in 0..MaxEdits
        /\ frames \in [Users -> Seq(Frames)]
    BY ContextAssumption
  <2>3. acceptors \in Seq([user : {v \in Users : pc[v] = "awaiting"},
                           edit : Edits, current : DOMAIN heap])
    OBVIOUS
  <2> QED BY <2>1, <2>2, <2>3 DEF TypeOK
<1>3. FramesNest
  BY DEF FramesNest, Nests
<1>4. StackCoversFrames
  <2> DEFINE d == [v \in Users |-> Due(v)]
             e == [v \in Users |-> 0]
  <2>1. \A v \in Users : Due(v) = IF v = Owner THEN 1 ELSE 0
    BY DEF Due
  <2>2. /\ d \in [Users -> Nat] /\ e \in [Users -> Nat]
        /\ d[Owner] = 1 /\ e[Owner] = 0
        /\ \A v \in Users \ {Owner} : d[v] = e[v]
    BY <2>1, ContextAssumption
  <2>3. SumFunction(e) = 0
    BY ContextAssumption, SumOfZeros
  <2>4. SumFunction(d) \in Nat /\ SumFunction(e) + d[Owner] = SumFunction(d) + e[Owner]
    <3>1. IsFiniteSet(Users) /\ Owner \in Users
      BY ContextAssumption
    <3> HIDE DEF d, e, Init
    <3> QED BY <2>2, <3>1, SumChanges
  <2>5. SumFunction(d) = 1
    <3> HIDE DEF d, e
    <3> QED BY <2>2, <2>3, <2>4
  <2> QED BY <2>5 DEF StackCoversFrames
<1>5. OnlySuccessIsMerged /\ ToldBeforeClose
  BY DEF OnlySuccessIsMerged, ToldBeforeClose, Closes, FreshResult
<1> QED BY <1>2, <1>3, <1>4, <1>5 DEF Inv

\* Every step keeps it.
LEMMA NextInv ==
    ASSUME Inv, [Next]_vars
    PROVE  Inv'
<1>1. ASSUME NEW u \in Users, UserStep(u) PROVE Inv'
  <2>1. CASE Begin(u)
    BY <2>1, BeginInv
  <2>2. CASE Edit(u)
    BY <2>2, EditInv
  <2>3. CASE ExecuteProvided(u)
    BY <2>3, ExecuteProvidedInv
  <2>4. CASE ProvideSubstitute(u)
    BY <2>4, ProvideSubstituteInv
  <2>5. CASE ProvideFunction(u)
    BY <2>5, ProvideFunctionInv
  <2>6. CASE ProvideFails(u)
    BY <2>6, ProvideFailsInv
  <2>7. CASE CommandReturns(u)
    BY <2>7, CommandReturnsInv
  <2>8. CASE Catch(u)
    BY <2>8, CatchInv
  <2>9. CASE ThrowFromCommand(u)
    BY <2>9, ThrowFromCommandInv
  <2>10. CASE ThrowFromTriggers(u)
    BY <2>10, ThrowFromTriggersInv
  <2>11. CASE ThrowFromProvided(u)
    BY <2>11, ThrowFromProvidedInv
  <2>12. CASE Balk(u)
    BY <2>12, BalkInv
  <2>13. CASE Commit(u)
    BY <2>13, CommitInv
  <2>14. CASE NoTriggers(u)
    BY <2>14, NoTriggersInv
  <2>15. CASE TriggersFail(u)
    BY <2>15, TriggersFailInv
  <2>16. CASE Triggers(u)
    BY <2>16, TriggersInv
  <2>17. CASE TriggersReturn(u)
    BY <2>17, TriggersReturnInv
  <2> QED BY <1>1, <2>1, <2>2, <2>3, <2>4, <2>5, <2>6, <2>7, <2>8, <2>9, <2>10, <2>11,
             <2>12, <2>13, <2>14, <2>15, <2>16, <2>17 DEF UserStep
<1>2. CASE Connection
  BY <1>2, ReceiveInv, ClosingInv, SocketClosedInv DEF Connection
<1>3. CASE Server
  BY <1>3, ServerExecutesInv, ServerEndsInv, ServerOtherInv DEF Server
<1>4. CASE UNCHANGED vars
  <2>1. WiresTyped
    BY <1>4 DEF vars, wires, server, WiresTyped, Inv, TypeOK, OnlySuccessIsMerged
  <2> QED BY <1>4, <2>1, ElsewhereKeeps DEF vars
<1> QED BY <1>1, <1>2, <1>3, <1>4 DEF Next

\* The invariant holds, of any number of requests and for any bounds.
THEOREM Invariance == Spec => []Inv
<1>1. Init => Inv
  BY InitInv
<1>2. Inv /\ [Next]_vars => Inv'
  BY NextInv
<1> QED BY <1>1, <1>2, PTL DEF Spec

\* Every variable keeps its type; an acceptor on the socket always belongs to a request
\* whose edit waits for an answer.
THEOREM TypeCorrect == Spec => []TypeOK
<1>1. Inv => TypeOK
  BY DEF Inv
<1> QED BY <1>1, Invariance, PTL

\* However the pushes and pops of concurrent requests interleave, and whatever
\* exceptions skip a pop, popNestedContext and the merge of a reply find a context.
THEOREM StackIsCovered == Spec => []StackCoversFrames
<1>1. Inv => StackCoversFrames
  BY DEF Inv
<1> QED BY <1>1, Invariance, PTL

\* No edit becomes permanent unless the request that opened the transaction was
\* answered with success.
THEOREM CommitIsTold == Spec => []CommitsOnlyOnSuccess
<1>1. Inv => CommitsOnlyOnSuccess
  BY DEF Inv, ToldBeforeClose, CommitsOnlyOnSuccess
<1> QED BY <1>1, Invariance, PTL
=============================================================================
