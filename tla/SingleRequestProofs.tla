------------------------- MODULE SingleRequestProofs -------------------------
(***************************************************************************)
(* What TransactionContext promises to a request that is alone in its      *)
(* transaction: that an edit is resolved with its own reply, that what     *)
(* becomes permanent is what was reported, that the stack of nested        *)
(* contexts mirrors the functions the request is in, that no edit is sent  *)
(* after the end was announced, and that the whole implements              *)
(* AtomicTransaction.                                                      *)
(*                                                                         *)
(* The first two hold whatever plug-ins do. For the others, their          *)
(* functions let exceptions pass: one that catches the exception of a      *)
(* failed edit goes on in a context that was not popped, on a transaction  *)
(* that was rolled back (Lost). All that can be said then is that the      *)
(* transaction stays doomed (DoomedLasts), so that no close message sent   *)
(* after that counts.                                                      *)
(*                                                                         *)
(* The key to both atomicity and the report is Accounted: while the        *)
(* server's transaction lasts and the request has not failed, the patches  *)
(* of the contexts on the stack, one after the other from the bottom, on   *)
(* top of what commit() has aggregated, and the reply under way, are what  *)
(* the server has applied. It is inductive because the contexts are        *)
(* distinct and in the order in which they were pushed (ContextsDiffer),   *)
(* so that a merge changes the sum at its end and nowhere else, and        *)
(* because the stack is known to have the root alone when commit() takes   *)
(* its result (StackMatches).                                              *)
(*                                                                         *)
(* A step of the request is of one of four kinds: it sends an edit, goes   *)
(* on without one, fails or succeeds (UserStepKind). The invariant and     *)
(* what follows from it are proved for the kinds, not for the actions.     *)
(***************************************************************************)
EXTENDS TransactionContextProofs

\* Where the request stands.
Place == pc[Owner]

\* Messages that have the server execute an edit.
Executes(m) == m.type = "execute"

\* A wire without any.
NoEdits(wire) == \A i \in DOMAIN wire : ~Executes(wire[i])

\* At most one edit is on its way, the last one made, and its request waits for it.
OneEdit ==
    /\ IF Place = "awaiting"
       THEN /\ Len(acceptors) = 1
            /\ acceptors[1].edit = edits
            /\ acceptors[1].current = Last(nested)
            /\ socket # "closed"
       ELSE acceptors = <<>> /\ toClient = <<>>
    /\ toClient # <<>> =>
          /\ IsOpen
          /\ Len(toClient) = 1
          /\ toClient[1].edit = edits
          /\ NoEdits(toServer)
    /\ socket # "closed" =>
          \A i \in DOMAIN toServer : Executes(toServer[i]) =>
             /\ Place = "awaiting"
             /\ toServer[i].edit = edits
             /\ \A j \in DOMAIN toServer : Executes(toServer[j]) => j = i

\* A wire with more messages at its end.
Extends(longer, wire) ==
    \A i \in DOMAIN wire : i \in DOMAIN longer /\ longer[i] = wire[i]

\* The transaction has ended, is about to be rolled back, or is out of reach.
RollsBack(wire) == \E i \in DOMAIN wire : wire[i].type = "roll-back"
Doomed == ~IsOpen \/ status # "open" \/ RollsBack(toServer)

\* An exception may have been caught, so that there is no telling what is on the stack.
Lost == PluginsCatch /\ Doomed

\* Its own code runs, which no exception has left yet.
InCode == Place \in {"idle", "running", "providing", "committing"}
Quiet  == InCode /\ ~Lost

\* No exception has reached it, and it is not done.
Working == (InCode \/ Place = "awaiting") /\ ~Lost

\* An exception is thrown only in a transaction that will not be committed.
ThrownIsDoomed == Place = "throwing" => Doomed

\* Until it fails or is done, the request tells the server nothing but its edits.
NotEnding ==
    /\ Working => ~Ending
    /\ Quiet => toServer = <<>>

\* It is answered once it is done, and after success sends no edit.
AnsweredWhenDone ==
    /\ Place # "done" => answer[Owner] = Unanswered
    /\ Place = "done" /\ answer[Owner].success => NoEdits(toServer)

\* Its nested contexts are those of the functions it is in.
StackMatches == Working => Len(nested) = Due(Owner)

\* commit() has popped the root's context, and aggregates into its result.
Aggregating == Place = "committing" \/ InTriggers(Owner)

\* Of two contexts on a stack, the upper one was pushed later.
Increasing(stack) == \A i, j \in DOMAIN stack : i < j => stack[i] < stack[j]

\* No context is on the stack twice, nor the one that commit() aggregates into.
ContextsDiffer ==
    Working =>
        /\ Increasing(nested)
        /\ Aggregating => \A i \in DOMAIN nested : nested[i] # update

\* What commit() has aggregated so far.
Base == IF Aggregating THEN heap[update].patch ELSE <<>>

\* The changes that the reply on its way reports.
Flight == IF toClient = <<>> THEN <<>> ELSE toClient[1].result.patch

\* The patches of the contexts on a stack, one after the other, on top of a base, are all
\* these edits.  (total[i] has those of the i lowest contexts.)
AddsUp(h, stack, base, all) ==
    \E total \in [0..Len(stack) -> Seq(Edits)] :
       /\ total[0] = base
       /\ \A i \in DOMAIN stack : total[i] = total[i - 1] \o h[stack[i]].patch
       /\ total[Len(stack)] = all

\* They are what the contexts below the deepest one add up to, and then its patch.
AddsUpBelow(h, stack, base, all) ==
    \E rest \in Seq(Edits) :
       AddsUp(h, Front(stack), base, rest) /\ all = rest \o h[Last(stack)].patch

\* The server has the transaction, and the client has not given it up.
Concerned == status = "open" /\ Working /\ (Place = "awaiting" => IsOpen)

\* What the server applied is what the contexts hold and what is on its way to them.
Accounted ==
    Concerned =>
        \E all \in Seq(Edits) : all \o Flight = log /\ AddsUp(heap, nested, Base, all)

-----------------------------------------------------------------------------
(* How the stack adds up when it changes.                                  *)

\* What a stack adds up to depends on its own contexts only.
LEMMA AddsUpKept ==
    ASSUME NEW h, NEW k, NEW stack, NEW base, NEW all, AddsUp(h, stack, base, all),
           \A i \in DOMAIN stack : k[stack[i]] = h[stack[i]]
    PROVE  AddsUp(k, stack, base, all)
BY DEF AddsUp

\* An empty stack adds nothing to the base.
LEMMA AddsUpNone ==
    ASSUME NEW h, NEW base \in Seq(Edits), NEW all
    PROVE  AddsUp(h, <<>>, base, all) <=> base = all
<1>1. ASSUME base = all PROVE AddsUp(h, <<>>, base, all)
  <2> DEFINE total == [i \in 0..0 |-> base]
  <2>1. total \in [0..0 -> Seq(Edits)] /\ total[0] = base
    OBVIOUS
  <2>2. Len(<<>>) = 0 /\ DOMAIN <<>> = {}
    OBVIOUS
  <2> HIDE DEF total
  <2> QED BY <1>1, <2>1, <2>2 DEF AddsUp
<1>2. ASSUME AddsUp(h, <<>>, base, all) PROVE base = all
  BY <1>2 DEF AddsUp
<1> QED BY <1>1, <1>2

\* A stack of one context adds its patch.
LEMMA AddsUpOne ==
    ASSUME NEW h, NEW c, NEW stack, Len(stack) = 1, DOMAIN stack = {1}, stack[1] = c,
           NEW base, NEW all, AddsUp(h, stack, base, all)
    PROVE  all = base \o h[c].patch
BY DEF AddsUp

\* A fresh context adds nothing.
LEMMA AddsUpPush ==
    ASSUME NEW h \in Seq(Results(Edits)), NEW k, NEW stack \in Seq(DOMAIN h),
           NEW base, NEW all, AddsUp(h, stack, base, all),
           \A i \in DOMAIN h : k[i] = h[i],
           NEW c, k[c].patch = <<>>
    PROVE  AddsUp(k, Append(stack, c), base, all)
<1> DEFINE n == Len(stack)
           next == Append(stack, c)
<1>1. PICK total \in [0..n -> Seq(Edits)] :
       /\ total[0] = base
       /\ \A i \in DOMAIN stack : total[i] = total[i - 1] \o h[stack[i]].patch
       /\ total[n] = all
  BY DEF AddsUp
<1>2. n \in Nat /\ DOMAIN stack = 1..n /\ \A i \in 1..n : stack[i] \in DOMAIN h
  OBVIOUS
<1>3. /\ Len(next) = n + 1 /\ DOMAIN next = 1..(n + 1) /\ next[n + 1] = c
      /\ \A i \in 1..n : next[i] = stack[i]
  BY <1>2
<1> HIDE DEF n, next
<1> DEFINE more == [i \in 0..(n + 1) |-> IF i = n + 1 THEN all ELSE total[i]]
<1>4. all \in Seq(Edits)
  BY <1>1, <1>2
<1>5. more \in [0..(n + 1) -> Seq(Edits)]
  <2>1. \A i \in 0..(n + 1) : i # n + 1 => i \in 0..n
    BY <1>2
  <2> QED BY <1>1, <1>4, <2>1
<1>6. more[0] = base /\ more[n + 1] = all
  BY <1>1, <1>2
<1>7. ASSUME NEW i \in 1..(n + 1)
      PROVE  more[i] = more[i - 1] \o k[next[i]].patch
  <2>1. CASE i = n + 1
    <3>1. more[i] = all /\ more[i - 1] = all /\ k[next[i]].patch = <<>>
      BY <1>1, <1>2, <1>3, <2>1
    <3> QED BY <1>4, <3>1, ConcatEmptySeq
  <2>2. CASE i # n + 1
    <3>1. i \in 1..n /\ i - 1 \in 0..n /\ i \in 0..n
      BY <1>2, <2>2
    <3>2. more[i] = total[i] /\ more[i - 1] = total[i - 1]
      BY <1>2, <3>1
    <3>3. k[next[i]] = h[stack[i]]
      BY <1>2, <1>3, <3>1
    <3> QED BY <1>1, <1>2, <3>1, <3>2, <3>3
  <2> QED BY <2>1, <2>2
<1> HIDE DEF more
<1>8. AddsUp(k, next, base, all)
  BY <1>3, <1>5, <1>6, <1>7 DEF AddsUp
<1> QED BY <1>8 DEF next

\* A merge appends the patch.
LEMMA MergePatch ==
    ASSUME NEW result \in Results(Edits)
    PROVE  /\ result.patch \in Seq(Edits)
           /\ \A r \in Results(Edits) : Merge(r, result).patch = r.patch \o result.patch
<1>1. result.patch \in Seq(Edits)
  BY DEF Results
<1>2. ASSUME NEW r \in Results(Edits) PROVE Merge(r, result).patch = r.patch \o result.patch
  <2>1. r.patch \in Seq(Edits)
    BY DEF Results
  <2>2. r.patch \o <<>> = r.patch
    BY <2>1, ConcatEmptySeq
  <2> QED BY <2>2 DEF Merge
<1> QED BY <1>1, <1>2

\* Concatenation of patches.
LEMMA PatchesAssociate ==
    ASSUME NEW a \in Seq(Edits), NEW b \in Seq(Edits), NEW c \in Seq(Edits)
    PROVE  (a \o b) \o c = a \o (b \o c)
BY ConcatAssociative

\* A result merged into the top adds its patch at the end, as that context is nowhere
\* else on the stack.
LEMMA AddsUpMerge ==
    ASSUME NEW h \in Seq(Results(Edits)), NEW stack \in Seq(DOMAIN h), stack # <<>>,
           Increasing(stack), NEW base, NEW all, AddsUp(h, stack, base, all),
           NEW k, NEW result \in Results(Edits),
           k = [h EXCEPT ![Last(stack)] = Merge(@, result)]
    PROVE  AddsUp(k, stack, base, all \o result.patch)
<1> DEFINE n == Len(stack)
<1>1. PICK total \in [0..n -> Seq(Edits)] :
       /\ total[0] = base
       /\ \A i \in DOMAIN stack : total[i] = total[i - 1] \o h[stack[i]].patch
       /\ total[n] = all
  BY DEF AddsUp
<1>2. /\ n \in Nat \ {0} /\ DOMAIN stack = 1..n /\ Last(stack) = stack[n]
      /\ \A i \in 1..n : stack[i] \in DOMAIN h
  BY FrontProperties
<1>3. /\ result.patch \in Seq(Edits)
      /\ \A c \in DOMAIN h : h[c].patch \in Seq(Edits)
      /\ \A r \in Results(Edits) : Merge(r, result).patch = r.patch \o result.patch
  <2>1. \A c \in DOMAIN h : h[c] \in Results(Edits)
    OBVIOUS
  <2>2. \A r \in Results(Edits) : r.patch \in Seq(Edits)
    BY DEF Results
  <2> QED BY <2>1, <2>2, MergePatch
<1> HIDE DEF n
<1>4. ASSUME NEW i \in 1..n
      PROVE  k[stack[i]].patch =
               IF i = n THEN h[stack[n]].patch \o result.patch ELSE h[stack[i]].patch
  <2>1. CASE i = n
    <3>1. stack[n] \in DOMAIN h /\ h[stack[n]] \in Results(Edits)
      BY <1>2
    <3>2. k[stack[n]] = Merge(h[stack[n]], result)
      BY <1>2, <3>1
    <3> QED BY <1>3, <2>1, <3>1, <3>2
  <2>2. CASE i # n
    <3>1. stack[i] < stack[n] /\ stack[i] \in Nat /\ stack[n] \in Nat
      BY <1>2, <2>2 DEF Increasing
    <3> QED BY <1>2, <2>2, <3>1
  <2> QED BY <2>1, <2>2
<1> DEFINE more == [total EXCEPT ![n] = all \o result.patch]
<1>5. all \in Seq(Edits) /\ all \o result.patch \in Seq(Edits)
  BY <1>1, <1>2, <1>3
<1>6. /\ more \in [0..n -> Seq(Edits)]
      /\ more[0] = base
      /\ more[n] = all \o result.patch
      /\ \A i \in 0..(n - 1) : more[i] = total[i]
  BY <1>1, <1>2, <1>5
<1>7. ASSUME NEW i \in 1..n
      PROVE  more[i] = more[i - 1] \o k[stack[i]].patch
  <2> HIDE DEF more
  <2>1. more[i - 1] = total[i - 1] /\ total[i - 1] \in Seq(Edits)
    BY <1>1, <1>2, <1>6
  <2>2. CASE i = n
    <3> DEFINE p == h[stack[n]].patch
    <3>1. p \in Seq(Edits) /\ all = total[i - 1] \o p
      BY <1>1, <1>2, <1>3, <2>2
    <3>2. k[stack[i]].patch = p \o result.patch
      BY <1>4, <2>2
    <3>3. (total[i - 1] \o p) \o result.patch = total[i - 1] \o (p \o result.patch)
      <4> DEFINE a == total[i - 1]
                 b == result.patch
      <4>1. a \in Seq(Edits) /\ p \in Seq(Edits) /\ b \in Seq(Edits)
        BY <1>3, <2>1, <3>1
      <4> HIDE DEF a, b, p
      <4>2. (a \o p) \o b = a \o (p \o b)
        BY <4>1, PatchesAssociate
      <4> QED BY <4>2 DEF a, b
    <3> HIDE DEF p
    <3> QED BY <1>6, <2>1, <2>2, <3>1, <3>2, <3>3
  <2>3. CASE i # n
    <3>1. i \in 0..(n - 1)
      BY <1>2, <2>3
    <3>2. k[stack[i]].patch = h[stack[i]].patch
      BY <1>4, <2>3
    <3> QED BY <1>1, <1>2, <1>6, <2>1, <3>1, <3>2
  <2> QED BY <2>2, <2>3
<1> HIDE DEF more
<1> QED BY <1>2, <1>6, <1>7 DEF AddsUp, n

\* Without its deepest context, a stack adds up to the rest.
LEMMA AddsUpFront ==
    ASSUME NEW h \in Seq(Results(Edits)), NEW stack \in Seq(DOMAIN h), stack # <<>>,
           NEW base, NEW all, AddsUp(h, stack, base, all)
    PROVE  AddsUpBelow(h, stack, base, all)
<1> DEFINE n == Len(stack)
<1>1. PICK total \in [0..n -> Seq(Edits)] :
       /\ total[0] = base
       /\ \A i \in DOMAIN stack : total[i] = total[i - 1] \o h[stack[i]].patch
       /\ total[n] = all
  BY DEF AddsUp
<1>2. /\ n \in Nat \ {0} /\ DOMAIN stack = 1..n /\ Last(stack) = stack[n]
      /\ Len(Front(stack)) = n - 1 /\ Front(stack) \in Seq(DOMAIN h)
      /\ \A i \in 1..(n - 1) : Front(stack)[i] = stack[i]
  <2>1. /\ n \in Nat \ {0} /\ Last(stack) = stack[n]
        /\ Len(Front(stack)) = n - 1 /\ Front(stack) \in Seq(DOMAIN h)
        /\ \A i \in 1..(n - 1) : Front(stack)[i] = stack[i]
    BY FrontProperties
  <2>2. DOMAIN stack = 1..n
    OBVIOUS
  <2> QED BY <2>1, <2>2
<1> HIDE DEF n
<1>3. DOMAIN Front(stack) = 1..(n - 1) /\ n - 1 \in Nat
  BY <1>2
<1> DEFINE less == [i \in 0..(n - 1) |-> total[i]]
<1>4. less \in [0..(n - 1) -> Seq(Edits)] /\ \A i \in 0..(n - 1) : less[i] = total[i]
  BY <1>1, <1>2
<1> HIDE DEF less
<1>5. less[0] = base /\ less[n - 1] = total[n - 1] /\ total[n - 1] \in Seq(Edits)
  BY <1>1, <1>3, <1>4
<1>6. ASSUME NEW i \in 1..(n - 1)
      PROVE  less[i] = less[i - 1] \o h[Front(stack)[i]].patch
  <2>1. i \in 1..n /\ i \in 0..(n - 1) /\ i - 1 \in 0..(n - 1)
    BY <1>2
  <2>2. total[i] = total[i - 1] \o h[stack[i]].patch
    BY <1>1, <1>2, <2>1
  <2>3. Front(stack)[i] = stack[i]
    BY <1>2
  <2> QED BY <1>4, <2>1, <2>2, <2>3
<1>7. AddsUp(h, Front(stack), base, total[n - 1])
  BY <1>2, <1>3, <1>4, <1>5, <1>6 DEF AddsUp
<1>8. all = total[n - 1] \o h[Last(stack)].patch
  <2>1. n \in 1..n
    BY <1>2
  <2>2. total[n] = total[n - 1] \o h[stack[n]].patch
    BY <1>1, <1>2, <2>1
  <2> QED BY <1>1, <1>2, <2>2
<1> QED BY <1>5, <1>7, <1>8 DEF AddsUpBelow

\* A pop that merges the deepest context into the one below it loses nothing.
LEMMA AddsUpPop ==
    ASSUME NEW h \in Seq(Results(Edits)), NEW stack \in Seq(DOMAIN h), Len(stack) >= 2,
           Increasing(stack), NEW base, NEW all, AddsUp(h, stack, base, all),
           NEW k, k = [h EXCEPT ![stack[Len(stack) - 1]] = Merge(@, h[Last(stack)])]
    PROVE  AddsUp(k, Front(stack), base, all)
<1>a. stack # <<>>
  OBVIOUS
<1>b. AddsUpBelow(h, stack, base, all)
  BY <1>a, AddsUpFront
<1> DEFINE n == Len(stack)
           f == Front(stack)
           r == h[Last(stack)]
<1>1. n \in Nat /\ n >= 2 /\ stack # <<>>
  OBVIOUS
<1>2. /\ Len(f) = n - 1 /\ f \in Seq(DOMAIN h)
      /\ \A i \in 1..(n - 1) : f[i] = stack[i]
      /\ Last(stack) \in DOMAIN h
  BY <1>1, FrontProperties
<1>3. PICK rest \in Seq(Edits) : AddsUp(h, f, base, rest) /\ all = rest \o r.patch
  BY <1>b DEF AddsUpBelow
<1> HIDE DEF n, f
<1>4. f # <<>> /\ DOMAIN f = 1..(n - 1) /\ n - 1 \in 1..(n - 1)
  BY <1>1, <1>2
<1>5. Last(f) = stack[n - 1]
  BY <1>1, <1>2, <1>4 DEF Last
<1>6. Increasing(f)
  <2>1. DOMAIN stack = 1..n
    BY DEF n
  <2>2. \A i \in 1..(n - 1) : i \in 1..n
    BY <1>1
  <2> QED BY <1>2, <1>4, <2>1, <2>2 DEF Increasing
<1>7. k = [h EXCEPT ![Last(f)] = Merge(@, r)]
  BY <1>5 DEF n
<1>8. r \in Results(Edits)
  BY <1>2
<1>9. AddsUp(k, f, base, rest \o r.patch)
  <2> HIDE DEF r
  <2> QED BY <1>2, <1>3, <1>4, <1>6, <1>7, <1>8, AddsUpMerge
<1> QED BY <1>3, <1>9 DEF f

-----------------------------------------------------------------------------
(* One edit at a time.                                                     *)

\* A step of the request that sends an edit.
SendsEdit ==
    /\ IsOpen
    /\ Place \in {"running", "providing"}
    /\ Place' = "awaiting"
    /\ edits' = edits + 1
    /\ acceptors' = Append(acceptors,
           [user |-> Owner, edit |-> edits + 1, current |-> Last(nested)])
    /\ toServer' = Append(toServer, [type |-> "execute", edit |-> edits + 1])
    /\ UNCHANGED <<socket, toClient, server, results, update, answer>>

\* One that sends none: nothing, or what ends the transaction.
SendsNoEdit ==
    /\ Place \notin {"awaiting", "done"}
    /\ Place' # "awaiting"
    /\ NoEdits(toServer) => NoEdits(toServer')
    /\ Extends(toServer', toServer)
    /\ ~IsOpen => toServer' = toServer
    /\ UNCHANGED <<socket, toClient, server, acceptors>>

\* A message at the end of a wire.
LEMMA AppendExtends ==
    ASSUME NEW wire \in Seq(Messages), NEW m \in Messages
    PROVE  /\ Append(wire, m) \in Seq(Messages)
           /\ Extends(Append(wire, m), wire)
           /\ \A i \in DOMAIN Append(wire, m) :
                 Append(wire, m)[i] = IF i \in DOMAIN wire THEN wire[i] ELSE m
           /\ ~Executes(m) /\ NoEdits(wire) => NoEdits(Append(wire, m))
           /\ m.type = "roll-back" => RollsBack(Append(wire, m))
<1>1. /\ Append(wire, m) \in Seq(Messages)
      /\ \A i \in DOMAIN Append(wire, m) :
            Append(wire, m)[i] = IF i \in DOMAIN wire THEN wire[i] ELSE m
      /\ \A i \in DOMAIN wire : i \in DOMAIN Append(wire, m)
      /\ Len(wire) + 1 \in DOMAIN Append(wire, m) /\ Len(wire) + 1 \notin DOMAIN wire
  OBVIOUS
<1> QED BY <1>1 DEF Extends, NoEdits, RollsBack

\* A roll-back message is no edit.
LEMMA RolledBackNoEdits ==
    ASSUME NEW wire \in Seq(Messages)
    PROVE  /\ RolledBack(wire) \in Seq(Messages)
           /\ NoEdits(wire) => NoEdits(RolledBack(wire))
           /\ Extends(RolledBack(wire), wire)
           /\ IF IsOpen THEN RollsBack(RolledBack(wire)) ELSE RolledBack(wire) = wire
<1> DEFINE m == [type |-> "roll-back"]
<1>1. m \in Messages /\ ~Executes(m) /\ m.type = "roll-back"
  BY DEF Messages, Terminal, Executes
<1>2. RolledBack(wire) = IF IsOpen THEN Append(wire, m) ELSE wire
  BY DEF RolledBack
<1>3. Extends(wire, wire)
  BY DEF Extends
<1> HIDE DEF m
<1> QED BY <1>1, <1>2, <1>3, AppendExtends

\* Nor is a close message.
LEMMA CloseNoEdits ==
    ASSUME NEW wire \in Seq(Messages)
    PROVE  /\ NoEdits(wire) => NoEdits(Append(wire, [type |-> "close"]))
           /\ Extends(Append(wire, [type |-> "close"]), wire)
<1> DEFINE m == [type |-> "close"]
<1>1. m \in Messages /\ ~Executes(m)
  BY DEF Messages, Terminal, Executes
<1> HIDE DEF m
<1>2. (NoEdits(wire) => NoEdits(Append(wire, m))) /\ Extends(Append(wire, m), wire)
  BY <1>1, AppendExtends
<1> QED BY <1>2 DEF m

\* Every step of the request sends one edit or none.
LEMMA UserSendsOneEdit ==
    ASSUME Inv, UserStep(Owner)
    PROVE  SendsEdit \/ SendsNoEdit
<1> USE DEF Place
<1>1. toServer \in Seq(Messages) /\ Owner \in Users /\ pc \in [Users -> PCs]
  BY ContextAssumption DEF Inv, TypeOK, PCs
<1> DEFINE May(wire) == /\ NoEdits(toServer) => NoEdits(wire)
                        /\ Extends(wire, toServer)
                        /\ ~IsOpen => wire = toServer
<1>2. May(toServer) /\ May(RolledBack(toServer))
  BY <1>1, RolledBackNoEdits DEF Extends
<1>3. May(RolledBack(RolledBack(toServer)))
  <2> DEFINE once == RolledBack(toServer)
  <2>1. once \in Seq(Messages) /\ May(once)
    BY <1>1, <1>2, RolledBackNoEdits
  <2>2. /\ NoEdits(once) => NoEdits(RolledBack(once))
        /\ Extends(RolledBack(once), once)
        /\ ~IsOpen => RolledBack(once) = once
    <3> HIDE DEF once
    <3> QED BY <2>1, RolledBackNoEdits
  <2> HIDE DEF once
  <2>3. May(RolledBack(once))
    BY <2>1, <2>2 DEF Extends
  <2> QED BY <2>3 DEF once
<1>4. ASSUME NEW delta, NEW result, CommitLoop(Owner, delta, result)
      PROVE  May(toServer') /\ pc'[Owner] # "awaiting"
  BY <1>1, <1>2, <1>4, CloseNoEdits DEF CommitLoop, SendClose
<1>5. CASE Edit(Owner) \/ ProvideSubstitute(Owner)
  <2>1. CASE IsOpen
    BY <1>1, <1>5, <2>1
       DEF Edit, MayEdit, ProvideSubstitute, SendExecute, SendsEdit, server
  <2>2. CASE ~IsOpen
    BY <1>1, <1>2, <1>5, <2>2
       DEF Edit, MayEdit, ProvideSubstitute, Throw, SendsNoEdit, server
  <2> QED BY <2>1, <2>2
<1>6. CASE Begin(Owner) \/ ExecuteProvided(Owner) \/ ProvideFunction(Owner) \/ Catch(Owner)
           \/ Triggers(Owner)
  <2>1. toServer' = toServer /\ UNCHANGED <<socket, toClient, server, acceptors>>
    BY <1>6 DEF Begin, ExecuteProvided, ProvideFunction, Catch, Triggers, wires
  <2>2. pc[Owner] \notin {"awaiting", "done"} /\ pc'[Owner] # "awaiting"
    BY <1>1, <1>6 DEF Begin, ExecuteProvided, MayEdit, ProvideFunction, Catch, Triggers
  <2> QED BY <1>2, <2>1, <2>2 DEF SendsNoEdit
<1>7. CASE ProvideFails(Owner) \/ ThrowFromCommand(Owner) \/ ThrowFromTriggers(Owner)
           \/ ThrowFromProvided(Owner) \/ Balk(Owner) \/ TriggersFail(Owner)
  <2>1. May(toServer')
    <3> HIDE DEF May
    <3> QED BY <1>2, <1>3, <1>7
            DEF ProvideFails, ThrowFromCommand, ThrowFromTriggers, ThrowFromProvided, Balk,
                TriggersFail
  <2>2. UNCHANGED <<socket, toClient, server, acceptors>>
    BY <1>7 DEF ProvideFails, ThrowFromCommand, ThrowFromTriggers, ThrowFromProvided, Balk,
                TriggersFail
  <2>3. pc[Owner] \notin {"awaiting", "done"} /\ pc'[Owner] # "awaiting"
    BY <1>1, <1>7 DEF ProvideFails, ThrowFromCommand, ThrowFromTriggers, ThrowFromProvided,
                      Balk, Ran, TriggersFail, Throw, AnswerFailure
  <2> QED BY <2>1, <2>2, <2>3 DEF SendsNoEdit
<1>8. CASE CommandReturns(Owner)
  <2>1. pc[Owner] = "running" /\ UNCHANGED <<socket, toClient, server, acceptors>>
    BY <1>8 DEF CommandReturns
  <2>2. \/ toServer' = toServer /\ pc' = pc
        \/ toServer' = RolledBack(toServer) /\ pc' = [pc EXCEPT ![Owner] = "throwing"]
    BY <1>8 DEF CommandReturns, Throw
  <2> QED BY <1>1, <1>2, <2>1, <2>2 DEF SendsNoEdit
<1>9. CASE NoTriggers(Owner)
  BY <1>4, <1>9 DEF NoTriggers, SendsNoEdit
<1>10. CASE TriggersReturn(Owner)
  BY <1>4, <1>10 DEF TriggersReturn, SendsNoEdit
<1>11. CASE Commit(Owner)
  <2>1. CASE IsOpen
    <3>1. CommitLoop(Owner, heap[Last(nested)].patch, heap[Last(nested)])
      BY <1>11, <2>1 DEF Commit
    <3> QED BY <1>4, <1>11, <3>1 DEF Commit, Ran, SendsNoEdit
  <2>2. CASE ~IsOpen
    <3>1. toServer' = toServer
      BY <1>11, <2>2 DEF Commit
    <3> QED BY <1>1, <1>2, <1>11, <2>2, <3>1 DEF Commit, Ran, SendsNoEdit
  <2> QED BY <2>1, <2>2
<1> QED BY <1>5, <1>6, <1>7, <1>8, <1>9, <1>10, <1>11 DEF UserStep

\* It sends one only when none is under way.
LEMMA UserKeepsOneEdit ==
    ASSUME Inv, edits' \in 0..MaxEdits, OneEdit, SendsEdit \/ SendsNoEdit
    PROVE  OneEdit'
<1>1. CASE SendsEdit
  <2> DEFINE a == [user |-> Owner, edit |-> edits + 1, current |-> Last(nested)]
             m == [type |-> "execute", edit |-> edits + 1]
  <2>1. acceptors = <<>> /\ toClient = <<>> /\ NoEdits(toServer) /\ socket # "closed"
    BY <1>1 DEF OneEdit, SendsEdit, NoEdits, IsOpen
  <2>2. edits + 1 \in Edits
    <3>1. edits \in 0..MaxEdits /\ edits + 1 \in 0..MaxEdits
      BY <1>1 DEF SendsEdit, Inv, TypeOK
    <3> QED BY <3>1, ContextAssumption DEF Edits
  <2>3. toServer \in Seq(Messages) /\ m \in Messages /\ Executes(m)
    BY <2>2 DEF Inv, TypeOK, Messages, Executes
  <2>4. toServer' = Append(toServer, m) /\ acceptors' = Append(acceptors, a)
    BY <1>1 DEF SendsEdit
  <2>5. m.edit = edits + 1 /\ a.edit = edits + 1 /\ a.current = Last(nested)
    OBVIOUS
  <2> HIDE DEF a, m
  <2>6. Len(acceptors') = 1 /\ acceptors'[1] = a
    BY <2>1, <2>4
  <2>7. /\ Len(toServer') = Len(toServer) + 1
        /\ \A i \in DOMAIN toServer' :
              toServer'[i] = IF i \in DOMAIN toServer THEN toServer[i] ELSE m
        /\ \A i \in DOMAIN toServer' : i \notin DOMAIN toServer => i = Len(toServer) + 1
    BY <2>3, <2>4
  <2>8. \A i \in DOMAIN toServer' : Executes(toServer'[i]) =>
           toServer'[i] = m /\ i = Len(toServer) + 1
    BY <2>1, <2>7 DEF NoEdits
  <2> QED BY <1>1, <2>1, <2>5, <2>6, <2>8 DEF OneEdit, SendsEdit, results
<1>2. CASE SendsNoEdit
  <2>1. acceptors = <<>> /\ toClient = <<>> /\ (socket # "closed" => NoEdits(toServer))
    BY <1>2 DEF OneEdit, SendsNoEdit, NoEdits
  <2> QED BY <1>2, <2>1 DEF OneEdit, SendsNoEdit, NoEdits
<1> QED BY <1>1, <1>2

\* The rest of a sequence of messages.
LEMMA TailNoEdits ==
    ASSUME toServer \in Seq(Messages), toServer # <<>>, toServer' = Tail(toServer)
    PROVE  /\ Head(toServer) = toServer[1] /\ 1 \in DOMAIN toServer
           /\ \A i \in DOMAIN toServer' : i + 1 \in DOMAIN toServer /\ toServer'[i] = toServer[i + 1]
           /\ NoEdits(toServer) => NoEdits(toServer')
<1>1. /\ Head(toServer) = toServer[1] /\ 1 \in DOMAIN toServer
      /\ \A i \in DOMAIN toServer' : i + 1 \in DOMAIN toServer /\ toServer'[i] = toServer[i + 1]
  BY TailProperties
<1> QED BY <1>1 DEF NoEdits

\* A reply is taken, or lost, together with the acceptor that waits for it.
LEMMA ConnectionKeepsOneEdit ==
    ASSUME Users = {Owner}, Inv, OneEdit, Connection
    PROVE  OneEdit'
<1>1. CASE Receive
  <2> USE DEF Receive
  <2>1. /\ Place = "awaiting" /\ Len(acceptors) = 1 /\ toClient # <<>> /\ IsOpen
        /\ Len(toClient) = 1 /\ NoEdits(toServer) /\ socket' = socket /\ toServer' = toServer
    BY <1>1 DEF OneEdit
  <2>2. acceptors' = <<>>
    BY <1>1 DEF Accepting, Listening
  <2>3. toClient' = <<>>
    <3>1. toClient \in Seq(Replies) /\ toClient' = Tail(toClient)
      BY <1>1 DEF Inv, TypeOK
    <3>2. toClient' \in Seq(Replies) /\ Len(toClient') = 0
      BY <2>1, <3>1
    <3> QED BY <3>2, EmptySeq
  <2>4. Place' = "running"
    <3>1. acceptors[1].user = Owner /\ 1 \in DOMAIN acceptors
      <4> DEFINE Waiting == [user : {v \in Users : pc[v] = "awaiting"},
                             edit : Edits, current : DOMAIN heap]
      <4>1. acceptors \in Seq(Waiting)
        BY DEF Inv, TypeOK
      <4>2. \A a \in Waiting : a.user = Owner
        OBVIOUS
      <4> HIDE DEF Waiting
      <4> QED BY <2>1, <4>1, <4>2
    <3>2. Accepting(Head(toClient)) = acceptors
      BY DEF Accepting
    <3>3. pc' = [u \in Users |->
                   IF \E i \in DOMAIN acceptors : acceptors[i].user = u
                   THEN "running" ELSE pc[u]]
      BY <1>1, <3>2
    <3> QED BY <3>1, <3>3, ContextAssumption DEF Place
  <2> QED BY <2>1, <2>2, <2>3, <2>4 DEF OneEdit, NoEdits
<1>2. CASE CloseFrame \/ ConnectionLost
  BY <1>2 DEF CloseFrame, ConnectionLost, StartClosing, OneEdit, IsOpen, Place, results,
              users
<1>3. CASE SocketClosed
  <2>1. Place' # "awaiting" /\ acceptors' = <<>> /\ socket' = "closed" /\ toClient' = toClient
    BY <1>3, ContextAssumption DEF SocketClosed, Place, wires, Inv, TypeOK
  <2>2. toClient = <<>>
    BY <1>3 DEF SocketClosed, OneEdit, IsOpen
  <2> QED BY <2>1, <2>2 DEF OneEdit
<1> QED BY <1>1, <1>2, <1>3 DEF Connection

\* The server replies to the edit that is under way.
LEMMA ServerKeepsOneEdit ==
    ASSUME Inv, OneEdit, Server
    PROVE  OneEdit'
<1>1. toServer \in Seq(Messages)
  BY DEF Inv, TypeOK
<1>2. CASE ServerExecutes
  <2> USE DEF ServerExecutes
  <2>1. /\ Head(toServer) = toServer[1] /\ 1 \in DOMAIN toServer /\ Executes(toServer[1])
        /\ \A i \in DOMAIN toServer' : i + 1 \in DOMAIN toServer /\ toServer'[i] = toServer[i + 1]
        /\ UNCHANGED <<socket, nested, acceptors, edits, pc>>
    BY <1>1, <1>2, TailNoEdits DEF Executes, results, users
  <2>2. toClient = <<>>
    BY <2>1 DEF OneEdit, NoEdits
  <2>3. CASE ~IsOpen
    <3>1. toClient' = toClient
      BY <1>2, <2>3 DEF Reply
    <3>2. socket # "closed" => NoEdits(toServer')
      <4>1. ASSUME socket # "closed", NEW i \in DOMAIN toServer', Executes(toServer'[i])
            PROVE  FALSE
        <5>1. i + 1 \in DOMAIN toServer /\ Executes(toServer[i + 1])
          BY <2>1, <4>1
        <5>2. i + 1 = 1
          BY <2>1, <4>1, <5>1 DEF OneEdit
        <5>3. i \in Nat \ {0}
          BY <1>1, <1>2
        <5> QED BY <5>2, <5>3
      <4> QED BY <4>1 DEF NoEdits
    <3> QED BY <2>1, <2>2, <3>1, <3>2 DEF OneEdit, Place, NoEdits
  <2>4. CASE IsOpen
    <3>1. Place = "awaiting" /\ toServer[1].edit = edits /\ socket # "closed"
      BY <2>1, <2>4 DEF OneEdit, IsOpen
    <3>2. \E r : toClient' = <<r>> /\ r.edit = edits
      BY <1>2, <2>1, <2>2, <2>4, <3>1 DEF Reply
    <3>3. Len(toClient') = 1 /\ toClient'[1].edit = edits
      BY <3>2
    <3>4. NoEdits(toServer')
      <4>1. ASSUME NEW i \in DOMAIN toServer', Executes(toServer'[i])
            PROVE  FALSE
        <5>1. i + 1 \in DOMAIN toServer /\ Executes(toServer[i + 1])
          BY <2>1, <4>1
        <5>2. i + 1 = 1
          BY <2>1, <3>1, <4>1, <5>1 DEF OneEdit
        <5>3. i \in Nat \ {0}
          BY <1>1, <1>2
        <5> QED BY <5>2, <5>3
      <4> QED BY <4>1 DEF NoEdits
    <3> QED BY <2>1, <2>4, <3>1, <3>3, <3>4 DEF OneEdit, Place, NoEdits, IsOpen
  <2> QED BY <2>3, <2>4
<1>3. CASE ServerEnds \/ ServerIgnores
  <2>1. toServer' = Tail(toServer) /\ toServer # <<>>
    BY <1>3 DEF ServerEnds, ServerIgnores
  <2>2. /\ \A i \in DOMAIN toServer' : i + 1 \in DOMAIN toServer /\ toServer'[i] = toServer[i + 1]
        /\ NoEdits(toServer) => NoEdits(toServer')
        /\ DOMAIN toServer' \subseteq Nat
    BY <1>1, <2>1, TailNoEdits
  <2>3. UNCHANGED <<socket, toClient, nested, acceptors, edits, pc>>
    BY <1>3 DEF ServerEnds, ServerIgnores, results, users
  <2>4. ASSUME socket # "closed", NEW i \in DOMAIN toServer', Executes(toServer'[i])
        PROVE  /\ Place = "awaiting"
               /\ toServer'[i].edit = edits
               /\ \A j \in DOMAIN toServer' : Executes(toServer'[j]) => j = i
    <3>1. i + 1 \in DOMAIN toServer /\ Executes(toServer[i + 1])
      BY <2>2, <2>4
    <3>2. /\ Place = "awaiting"
          /\ toServer[i + 1].edit = edits
          /\ \A j \in DOMAIN toServer : Executes(toServer[j]) => j = i + 1
      BY <2>4, <3>1 DEF OneEdit
    <3>3. ASSUME NEW j \in DOMAIN toServer', Executes(toServer'[j]) PROVE j = i
      <4>1. j + 1 \in DOMAIN toServer /\ Executes(toServer[j + 1])
        BY <2>2, <3>3
      <4>2. j + 1 = i + 1
        BY <3>2, <4>1
      <4> QED BY <2>2, <2>4, <3>3, <4>2
    <3> QED BY <2>2, <2>4, <3>2, <3>3
  <2> QED BY <2>2, <2>3, <2>4 DEF OneEdit, Place, IsOpen
<1>4. CASE ServerDrops
  BY <1>4 DEF ServerDrops, OneEdit, Place, IsOpen, results, users, wires
<1> QED BY <1>2, <1>3, <1>4 DEF Server

\* So OneEdit is kept, whatever plug-ins catch.
LEMMA NextOneEdit ==
    ASSUME Users = {Owner}, Inv, Inv', OneEdit, [Next]_vars
    PROVE  OneEdit'
<1>1. CASE \E u \in Users : UserStep(u)
  BY <1>1, UserSendsOneEdit, UserKeepsOneEdit DEF Inv, TypeOK
<1>2. CASE UNCHANGED vars
  BY <1>2 DEF vars, wires, results, users, OneEdit, Place, IsOpen
<1> QED BY <1>1, <1>2, ConnectionKeepsOneEdit, ServerKeepsOneEdit DEF Next

\* A single request has at most one edit under way, whether or not its plug-ins catch
\* exceptions: so handleMessage cannot accept the reply to another.
THEOREM RepliesAreOwn ==
    ASSUME Users = {Owner}
    PROVE  Spec => []OwnReply
<1>1. Init => Inv /\ OneEdit
  BY InitInv, ContextAssumption DEF Init, OneEdit, Place
<1>2. Inv /\ OneEdit /\ [Next]_vars => (Inv /\ OneEdit)'
  BY NextInv, NextOneEdit
<1>3. Inv /\ OneEdit => OwnReply
  <2> SUFFICES ASSUME Inv, OneEdit, toClient # <<>>
               PROVE  \A i \in DOMAIN acceptors : acceptors[i].edit = Head(toClient).edit
    BY DEF OwnReply, Accepting
  <2>1. Place = "awaiting" /\ Len(toClient) = 1 /\ Len(acceptors) = 1
        /\ toClient[1].edit = edits /\ acceptors[1].edit = edits
    BY DEF OneEdit
  <2>2. Head(toClient) = toClient[1]
    BY DEF Inv, TypeOK
  <2>3. DOMAIN acceptors = {1}
    BY <2>1 DEF Inv, TypeOK
  <2> QED BY <2>1, <2>2, <2>3
<1> QED BY <1>1, <1>2, <1>3, PTL DEF Spec

-----------------------------------------------------------------------------
(* Steps of a single request.                                              *)

\* The request is alone.
OneRequest == Users = {Owner}

\* What is known of it.
Tracked == /\ NotEnding /\ AnsweredWhenDone /\ ThrownIsDoomed
           /\ StackMatches /\ ContextsDiffer /\ Accounted

\* The inductive invariant of a single request.
SingleInv == Inv /\ OneEdit /\ Tracked

\* The request goes on without an edit, and its contexts go on holding all that was
\* applied.
Continues ==
    /\ Quiet /\ Quiet'
    /\ UNCHANGED <<socket, wires, server, acceptors, answer>>
    /\ StackMatches'
    /\ ContextsDiffer'
    /\ status = "open" => AddsUp(heap', nested', Base', log)

\* It starts to fail, goes on failing or has failed.
Fails ==
    /\ Place \notin {"awaiting", "done"}
    /\ Place' \in {"throwing", "done"}
    /\ Place' = "throwing" => Doomed'
    /\ UNCHANGED <<socket, toClient, server, acceptors>>
    /\ answer'[Owner] = IF Place' = "done" THEN TransactionClosed ELSE answer[Owner]

\* It succeeds, and reports all that was applied.
Succeeds ==
    /\ Quiet
    /\ Place' = "done"
    /\ NoEdits(toServer')
    /\ UNCHANGED <<socket, toClient, server, acceptors>>
    /\ answer'[Owner] \in Succeeded
    /\ status = "open" => answer'[Owner].patch = log

\* While its own code runs, everything that was applied has been merged.
LEMMA QuietAddsUp ==
    ASSUME SingleInv, Quiet, status = "open"
    PROVE  AddsUp(heap, nested, Base, log)
<1>1. toClient = <<>>
  BY DEF SingleInv, OneEdit, Quiet, InCode
<1>2. PICK all \in Seq(Edits) : all \o Flight = log /\ AddsUp(heap, nested, Base, all)
  BY DEF SingleInv, Tracked, Accounted, Concerned, Working, Quiet, InCode
<1>3. all \o <<>> = all
  BY ConcatEmptySeq
<1> QED BY <1>1, <1>2, <1>3 DEF Flight

\* What dooms a transaction is on the wire, at the server and in the socket.
LEMMA DoomedKept ==
    ASSUME UNCHANGED <<socket, toServer, status>>
    PROVE  Doomed' <=> Doomed
BY DEF Doomed, IsOpen, RollsBack

\* A step that leaves the stack and the wires alone continues.
LEMMA SameStackContinues ==
    ASSUME SingleInv, Quiet, InCode',
           UNCHANGED <<socket, wires, server, acceptors, answer, results, update>>,
           Due(Owner)' = Due(Owner), Aggregating' <=> Aggregating
    PROVE  Continues
<1>0. Quiet'
  BY DoomedKept DEF Quiet, Lost, wires, server
<1>1. StackMatches'
  BY DEF SingleInv, Tracked, StackMatches, Working, Quiet, results
<1>2. ContextsDiffer'
  BY DEF SingleInv, Tracked, ContextsDiffer, Working, Quiet, results
<1>3. Base' = Base
  BY DEF Base, results
<1>4. status = "open" => AddsUp(heap', nested', Base', log)
  <2>1. heap' = heap /\ nested' = nested
    BY DEF results
  <2> QED BY <1>3, <2>1, QuietAddsUp
<1> QED BY <1>0, <1>1, <1>2, <1>4 DEF Continues

\* So does one that pushes a context for a new function.
LEMMA PushContinues ==
    ASSUME SingleInv, Quiet, InCode', PushContext,
           UNCHANGED <<socket, wires, server, acceptors, answer, update>>,
           Due(Owner)' = Due(Owner) + 1, Aggregating' <=> Aggregating
    PROVE  Continues
<1> DEFINE c == Len(heap) + 1
<1>1. /\ heap \in Seq(Results(Edits)) /\ nested \in Seq(DOMAIN heap) /\ update \in DOMAIN heap
      /\ heap' = Append(heap, FreshResult) /\ nested' = Append(nested, c)
      /\ Len(heap) \in Nat /\ DOMAIN heap = 1..Len(heap)
  BY DEF SingleInv, Inv, TypeOK, PushContext
<1>2. /\ \A i \in DOMAIN heap : heap'[i] = heap[i]
      /\ heap'[c] = FreshResult
  BY <1>1
<1>3. heap'[c].patch = <<>>
  BY <1>2 DEF FreshResult
<1>4. /\ Len(nested') = Len(nested) + 1 /\ Len(nested) \in Nat
      /\ \A i \in DOMAIN nested : nested[i] \in DOMAIN heap /\ nested[i] < c
      /\ \A i \in DOMAIN nested' :
            \/ i \in DOMAIN nested /\ nested'[i] = nested[i]
            \/ i = Len(nested) + 1 /\ nested'[i] = c
      /\ \A i \in DOMAIN nested : i \in 1..Len(nested)
  BY <1>1
<1>5. StackMatches'
  BY <1>4 DEF SingleInv, Tracked, StackMatches, Working, Quiet
<1>6. ContextsDiffer'
  <2>1. Increasing(nested)
    BY DEF SingleInv, Tracked, ContextsDiffer, Working, Quiet
  <2>2. c \in Nat
    BY <1>1
  <2> HIDE DEF c
  <2>3. Increasing(nested')
    BY <1>4, <2>1, <2>2 DEF Increasing
  <2>4. ASSUME Aggregating PROVE \A i \in DOMAIN nested' : nested'[i] # update
    <3>1. \A i \in DOMAIN nested : nested[i] # update
      BY <2>4 DEF SingleInv, Tracked, ContextsDiffer, Working, Quiet
    <3>2. update # c
      BY <1>1 DEF c
    <3> QED BY <1>4, <3>1, <3>2
  <2> QED BY <2>3, <2>4 DEF ContextsDiffer
<1>7. Base' = Base
  BY <1>1, <1>2 DEF Base
<1>8. status = "open" => AddsUp(heap', nested', Base', log)
  <2> SUFFICES ASSUME status = "open" PROVE AddsUp(heap', nested', Base', log)
    OBVIOUS
  <2>1. AddsUp(heap, nested, Base, log)
    BY QuietAddsUp
  <2> HIDE DEF c
  <2>2. AddsUp(heap', Append(nested, c), Base, log)
    BY <1>1, <1>2, <1>3, <2>1, AddsUpPush
  <2> QED BY <1>1, <1>7, <2>2
<1>9. Quiet'
  BY DoomedKept DEF Quiet, Lost, wires, server
<1> QED BY <1>5, <1>6, <1>8, <1>9 DEF Continues

-----------------------------------------------------------------------------
(* Which kind of step each action of the request is.                       *)

\* The kind of Begin.
LEMMA BeginKind ==
    ASSUME OneRequest, SingleInv, ~Lost, Begin(Owner)
    PROVE  Continues
<1> USE DEF Begin
<1>1. PICK provided \in {"edit", "function"} :
         frames' = [frames EXCEPT ![Owner] = <<provided>>]
  OBVIOUS
<1>2. /\ pc'[Owner] = "running" /\ frames'[Owner] = <<provided>> /\ frames[Owner] = <<>>
  BY <1>1, ContextAssumption DEF SingleInv, Inv, TypeOK, FramesNest, Nests
<1>3. Due(Owner) = 1 /\ Due(Owner)' = 1
  BY <1>2 DEF Due, InTriggers
<1>4. ~Aggregating /\ ~Aggregating'
  BY <1>2 DEF Aggregating, InTriggers, Place
<1> QED BY <1>2, <1>3, <1>4, SameStackContinues DEF Quiet, InCode, Place

\* The kind of Edit.
LEMMA EditKind ==
    ASSUME OneRequest, SingleInv, ~Lost, Edit(Owner)
    PROVE  (SendsEdit /\ Due(Owner)' = Due(Owner) /\ (Aggregating' <=> Aggregating)) \/ Fails
<1> USE DEF Edit, MayEdit
<1>1. Owner \in Users /\ pc \in [Users -> PCs] /\ Inv
  BY ContextAssumption DEF SingleInv, Inv, TypeOK, PCs
<1>2. CASE IsOpen
  <2>1. pc' = [pc EXCEPT ![Owner] = "awaiting"] /\ pc'[Owner] = "awaiting"
    BY <1>1, <1>2 DEF SendExecute
  <2>2. Due(Owner)' = Due(Owner) /\ (InTriggers(Owner)' <=> InTriggers(Owner))
    BY <1>1, <2>1, SpendKeeps DEF PCs
  <2>3. Aggregating' <=> Aggregating
    BY <2>1, <2>2 DEF Aggregating, Place
  <2>4. SendsEdit
    BY <1>2, <2>1 DEF SendsEdit, SendExecute, Place
  <2> QED BY <2>2, <2>3, <2>4
<1>3. CASE ~IsOpen
  <2>1. Doomed'
    BY <1>3 DEF Doomed, IsOpen
  <2> QED BY <1>1, <1>3, <2>1 DEF Throw, Fails, Place, results
<1> QED BY <1>2, <1>3

\* The kind of ExecuteProvided.
LEMMA ExecuteProvidedKind ==
    ASSUME OneRequest, SingleInv, ~Lost, ExecuteProvided(Owner)
    PROVE  Continues
<1> USE DEF ExecuteProvided, MayEdit
<1>1. Owner \in Users /\ Inv /\ pc'[Owner] = "providing"
  BY ContextAssumption DEF SingleInv, Inv, TypeOK
<1>2. Due(Owner)' = Due(Owner) /\ (InTriggers(Owner)' <=> InTriggers(Owner))
  BY <1>1, SpendKeeps DEF PCs
<1>3. Aggregating' <=> Aggregating
  BY <1>1, <1>2 DEF Aggregating, Place
<1> QED BY <1>1, <1>2, <1>3, SameStackContinues DEF Quiet, InCode, Place

\* The kind of ProvideSubstitute.
LEMMA ProvideSubstituteKind ==
    ASSUME OneRequest, SingleInv, ~Lost, ProvideSubstitute(Owner)
    PROVE  (SendsEdit /\ Due(Owner)' = Due(Owner) /\ (Aggregating' <=> Aggregating)) \/ Fails
<1> USE DEF ProvideSubstitute
<1>1. Owner \in Users /\ pc \in [Users -> PCs] /\ Inv
  BY ContextAssumption DEF SingleInv, Inv, TypeOK, PCs
<1>2. CASE IsOpen
  <2>1. pc' = [pc EXCEPT ![Owner] = "awaiting"] /\ pc'[Owner] = "awaiting"
    BY <1>1, <1>2 DEF SendExecute
  <2>2. Due(Owner)' = Due(Owner)
    BY <2>1 DEF Due, InTriggers
  <2>3. Aggregating' <=> Aggregating
    BY <2>1 DEF Aggregating, Place, InTriggers
  <2>4. SendsEdit
    BY <1>2, <2>1 DEF SendsEdit, SendExecute, Place
  <2> QED BY <2>2, <2>3, <2>4
<1>3. CASE ~IsOpen
  <2>1. Doomed'
    BY <1>3 DEF Doomed, IsOpen
  <2> QED BY <1>1, <1>3, <2>1 DEF Throw, Fails, Place, results
<1> QED BY <1>2, <1>3

\* The kind of ProvideFunction.
LEMMA ProvideFunctionKind ==
    ASSUME OneRequest, SingleInv, ~Lost, ProvideFunction(Owner)
    PROVE  Continues
<1> USE DEF ProvideFunction
<1>1. Owner \in Users /\ Inv /\ pc'[Owner] = "running"
  BY ContextAssumption DEF SingleInv, Inv, TypeOK
<1>2. Due(Owner)' = Due(Owner) + 1 /\ (InTriggers(Owner)' <=> InTriggers(Owner))
  BY <1>1, EnterKeeps
<1>3. Aggregating' <=> Aggregating
  BY <1>1, <1>2 DEF Aggregating, Place
<1> QED BY <1>1, <1>2, <1>3, PushContinues DEF Quiet, InCode, Place

\* The kind of Triggers.
LEMMA TriggersKind ==
    ASSUME OneRequest, SingleInv, ~Lost, Triggers(Owner)
    PROVE  Continues
<1> USE DEF Triggers
<1>1. Owner \in Users /\ Inv /\ pc'[Owner] = "running"
  BY ContextAssumption DEF SingleInv, Inv, TypeOK
<1>2. Due(Owner)' = Due(Owner) + 1 /\ InTriggers(Owner)'
  BY <1>1, EnterKeeps
<1>3. Aggregating' <=> Aggregating
  BY <1>1, <1>2 DEF Aggregating, Place
<1> QED BY <1>1, <1>2, <1>3, PushContinues DEF Quiet, InCode, Place

\* rollback() dooms the transaction, unless the closing of the socket has.
LEMMA RollingBackDooms ==
    ASSUME Inv, toServer' = RolledBack(toServer), socket' = socket
    PROVE  Doomed'
<1>1. toServer \in Seq(Messages)
  BY DEF Inv, TypeOK
<1> QED BY <1>1, RolledBackNoEdits DEF Doomed, IsOpen

\* Whatever throws, balks or cannot get triggers fails.
LEMMA FailureKind ==
    ASSUME OneRequest, SingleInv,
           \/ ProvideFails(Owner) \/ ThrowFromCommand(Owner) \/ ThrowFromTriggers(Owner)
           \/ ThrowFromProvided(Owner) \/ Balk(Owner) \/ TriggersFail(Owner)
    PROVE  Fails
<1>1. /\ Owner \in Users /\ Inv /\ pc \in [Users -> PCs]
      /\ answer \in [Users -> Results(Edits) \cup {Unanswered}]
  BY ContextAssumption DEF SingleInv, Inv, TypeOK, PCs
<1>2. CASE ThrowFromTriggers(Owner)
  BY <1>1, <1>2 DEF ThrowFromTriggers, AnswerFailure, Fails, Place
<1>3. CASE ProvideFails(Owner) \/ ThrowFromCommand(Owner)
  <2>1. /\ toServer' = RolledBack(toServer) /\ Place' = "throwing"
        /\ UNCHANGED <<socket, toClient, server, acceptors, answer>>
    BY <1>1, <1>3 DEF ProvideFails, ThrowFromCommand, Throw, Place
  <2> QED BY <1>1, <1>3, <2>1, RollingBackDooms
          DEF ProvideFails, ThrowFromCommand, Fails, Place
<1>4. CASE ThrowFromProvided(Owner) \/ Balk(Owner) \/ TriggersFail(Owner)
  BY <1>1, <1>4
     DEF ThrowFromProvided, Balk, Ran, TriggersFail, AnswerFailure, Fails, Place
<1> QED BY <1>2, <1>3, <1>4

\* The kind of CommandReturns.
LEMMA CommandReturnsKind ==
    ASSUME OneRequest, SingleInv, ~Lost, CommandReturns(Owner)
    PROVE  Continues \/ Fails
<1> USE DEF CommandReturns
<1>1. /\ Owner \in Users /\ Inv /\ pc \in [Users -> PCs]
      /\ heap \in Seq(Results(Edits)) /\ nested \in Seq(DOMAIN heap) /\ update \in DOMAIN heap
      /\ heap' = HeapAfterPop /\ nested' = Front(nested)
  BY ContextAssumption DEF SingleInv, Inv, TypeOK, PCs, PopContext
<1>2. nested # <<>>
  BY <1>1, TopIs, StackHolds
<1>3. CASE pc' = pc /\ toServer' = toServer
  <2>1. /\ Due(Owner)' = Due(Owner) - 1
        /\ Due(Owner) >= 1
        /\ InTriggers(Owner)' <=> InTriggers(Owner)
    <3>1. pc' = [pc EXCEPT ![Owner] = "running"]
      BY <1>1, <1>3
    <3> QED BY <1>1, <3>1, LeaveKeeps DEF PCs
  <2>2. Due(Owner) = Len(nested)
    BY DEF SingleInv, Tracked, StackMatches, Working, InCode, Place
  <2>3. Len(nested) >= 2
    <3>1. /\ frames[Owner] \in Seq(Frames) /\ Len(frames[Owner]) \in Nat
          /\ Len(frames[Owner]) >= 2
          /\ Top(Owner) = frames[Owner][Len(frames[Owner])]
          /\ Nests(Owner)
      BY <1>1, TopIs DEF Inv, FramesNest
    <3>2. InTriggers(Owner) => Len(frames[Owner]) >= 3
      <4>1. ASSUME NEW i \in DOMAIN frames[Owner], frames[Owner][i] = "triggers"
            PROVE  Len(frames[Owner]) >= 3
        <5> DEFINE n == Len(frames[Owner])
        <5>1. i = 2 /\ n \in Nat /\ n >= 2
          BY <3>1, <4>1 DEF Nests
        <5>2. frames[Owner][n] = "command"
          BY <3>1
        <5>3. n # 2
          BY <4>1, <5>1, <5>2
        <5> HIDE DEF n
        <5>4. n >= 3
          BY <5>1, <5>3
        <5> QED BY <5>4 DEF n
      <4> QED BY <4>1 DEF InTriggers
    <3>3. Due(Owner) >= 2
      BY <3>1, <3>2 DEF Due
    <3> QED BY <2>2, <3>3
  <2>4. /\ Len(Front(nested)) = Len(nested) - 1 /\ Len(nested) \in Nat
        /\ \A i \in 1..(Len(nested) - 1) : Front(nested)[i] = nested[i]
        /\ DOMAIN Front(nested) = 1..(Len(nested) - 1)
        /\ DOMAIN nested = 1..Len(nested)
    <3>1. /\ Len(Front(nested)) = Len(nested) - 1
          /\ Len(nested) \in Nat
          /\ \A i \in 1..(Len(nested) - 1) : Front(nested)[i] = nested[i]
          /\ Front(nested) \in Seq(DOMAIN heap)
      BY <1>1, <1>2, FrontProperties
    <3>2. DOMAIN nested = 1..Len(nested) /\ DOMAIN Front(nested) = 1..Len(Front(nested))
      BY <1>1, <3>1
    <3> QED BY <3>1, <3>2
  <2>5. heap' = [heap EXCEPT ![nested[Len(nested) - 1]] = Merge(@, heap[Last(nested)])]
    <3>1. Len(nested) # 1
      <4> HIDE DEF CommandReturns
      <4> QED BY <2>3, <2>4
    <3> QED BY <1>1, <3>1 DEF HeapAfterPop
  <2>6. Place' = Place /\ (Aggregating' <=> Aggregating)
    BY <1>3, <2>1 DEF Aggregating, Place
  <2>7. StackMatches'
    BY <1>1, <2>1, <2>2, <2>4 DEF StackMatches
  <2>8. Increasing(nested)
    BY DEF SingleInv, Tracked, ContextsDiffer, Working, InCode, Place
  <2>9. ContextsDiffer'
    <3>1. \A i \in 1..(Len(nested) - 1) : i \in 1..Len(nested)
      BY <2>4
    <3>2. Increasing(nested')
      BY <1>1, <2>4, <2>8, <3>1 DEF Increasing
    <3>3. ASSUME Aggregating PROVE \A i \in DOMAIN nested' : nested'[i] # update
      <4>1. \A i \in DOMAIN nested : nested[i] # update
        BY <3>3 DEF SingleInv, Tracked, ContextsDiffer, Working, InCode, Place
      <4> QED BY <1>1, <2>4, <3>1, <4>1
    <3> QED BY <2>6, <3>2, <3>3 DEF ContextsDiffer
  <2>10. Base' = Base
    <3>1. ASSUME Aggregating PROVE heap'[update] = heap[update]
      <4>1. Len(nested) - 1 \in DOMAIN nested
        BY <2>3, <2>4
      <4>2. nested[Len(nested) - 1] # update
        BY <3>1, <4>1 DEF SingleInv, Tracked, ContextsDiffer, Working, InCode, Place
      <4> QED BY <1>1, <2>5, <4>2
    <3> QED BY <2>6, <3>1 DEF Base
  <2>11. status = "open" => AddsUp(heap', nested', Base', log)
    <3> SUFFICES ASSUME status = "open" PROVE AddsUp(heap', nested', Base', log)
      OBVIOUS
    <3>1. AddsUp(heap, nested, Base, log)
      BY QuietAddsUp DEF Quiet, InCode, Place
    <3>2. AddsUp(heap', Front(nested), Base, log)
      BY <1>1, <2>3, <2>5, <2>8, <3>1, AddsUpPop
    <3> QED BY <1>1, <2>10, <3>2
  <2>12. Quiet /\ Quiet'
    BY <1>3, <2>6, DoomedKept DEF Quiet, InCode, Lost, Place, server
  <2> QED BY <1>3, <2>7, <2>9, <2>11, <2>12 DEF Continues, wires
<1>4. CASE toServer' = RolledBack(toServer) /\ Throw(Owner)
  <2>1. Doomed'
    BY <1>1, <1>4, RollingBackDooms
  <2> QED BY <1>1, <1>4, <2>1 DEF Throw, Fails, Place
<1> QED BY <1>3, <1>4

\* commit() goes on to ask for triggers, or answers with its result.
LEMMA CommitLoopKind ==
    ASSUME OneRequest, SingleInv, NEW delta, NEW result, CommitLoop(Owner, delta, result)
    PROVE  IF delta # <<>>
           THEN Place' = "committing" /\ UNCHANGED <<toServer, answer>>
           ELSE /\ Place' = "done"
                /\ NoEdits(toServer) => NoEdits(toServer')
                /\ answer'[Owner] = IF socket = "closed" THEN TransactionClosed ELSE result
<1>1. /\ Owner \in Users /\ toServer \in Seq(Messages) /\ pc \in [Users -> PCs]
      /\ answer \in [Users -> Results(Edits) \cup {Unanswered}]
  BY ContextAssumption DEF SingleInv, Inv, TypeOK, PCs
<1>2. CASE delta # <<>>
  BY <1>1, <1>2 DEF CommitLoop, Place
<1>3. CASE delta = <<>>
  BY <1>1, <1>3, CloseNoEdits DEF CommitLoop, SendClose, Place
<1> QED BY <1>2, <1>3

\* The kind of Commit.
LEMMA CommitKind ==
    ASSUME OneRequest, SingleInv, ~Lost, Commit(Owner)
    PROVE  Continues \/ Fails \/ Succeeds
<1> USE DEF Commit, Ran
<1> DEFINE c == Last(nested)
<1>1. /\ Owner \in Users /\ Inv /\ pc \in [Users -> PCs]
      /\ answer \in [Users -> Results(Edits) \cup {Unanswered}]
      /\ heap \in Seq(Results(Edits)) /\ nested \in Seq(DOMAIN heap)
      /\ heap' = HeapAfterPop /\ nested' = Front(nested) /\ update' = c
      /\ Quiet
  BY ContextAssumption DEF SingleInv, Inv, TypeOK, PCs, PopContext, Quiet, InCode, Place
<1>2. /\ Len(frames[Owner]) = 1 /\ frames[Owner] \in Seq(Frames)
      /\ frames[Owner][1] \in Provided
  BY <1>1, TopIs DEF Provided
<1>3. ~InTriggers(Owner)
  BY <1>2 DEF InTriggers, Provided
<1>4. Len(nested) = 1
  <2>1. Due(Owner) = 1
    BY <1>2, <1>3 DEF Due
  <2> QED BY <1>1, <2>1 DEF SingleInv, Tracked, StackMatches, Working, Quiet
<1>5. nested # <<>> /\ DOMAIN nested = {1} /\ nested[1] = c /\ c \in DOMAIN heap
  <2>1. nested # <<>> /\ DOMAIN nested = {1}
    <3>1. DOMAIN nested = 1..Len(nested)
      BY <1>1
    <3> HIDE DEF Commit
    <3> QED BY <1>4, <3>1
  <2>2. c = nested[1] /\ c \in DOMAIN heap
    BY <1>1, <1>4, <2>1 DEF Last
  <2> QED BY <2>1, <2>2
<1>6. nested' = <<>>
  BY <1>1, <1>4, <1>5, FrontProperties, EmptySeq
<1>7. heap' = heap
  BY <1>1, <1>4 DEF HeapAfterPop
<1>8. heap[c] \in Succeeded /\ heap[c].patch \in Seq(Edits)
  <2>1. heap[c] \in Succeeded
    BY <1>1, <1>5, HeapSucceeds
  <2> QED BY <2>1 DEF Succeeded, Results
<1>9. status = "open" => log = heap[c].patch
  <2> SUFFICES ASSUME status = "open" PROVE log = heap[c].patch
    OBVIOUS
  <2>1. Base = <<>>
    BY <1>3 DEF Base, Aggregating, Place
  <2>2. AddsUp(heap, nested, <<>>, log)
    BY <1>1, <2>1, QuietAddsUp
  <2>3. log = <<>> \o heap[c].patch
    <3> HIDE DEF c
    <3> QED BY <1>4, <1>5, <2>2, AddsUpOne
  <2>4. <<>> \o heap[c].patch = heap[c].patch
    BY <1>8, ConcatEmptySeq
  <2> QED BY <2>3, <2>4
<1>10. CASE ~IsOpen
  <2>1. /\ answer' = [answer EXCEPT ![Owner] = TransactionClosed]
        /\ pc' = [pc EXCEPT ![Owner] = "done"]
        /\ toServer' = toServer
    BY <1>10
  <2>2. answer'[Owner] = TransactionClosed /\ Place' = "done"
    BY <1>1, <2>1 DEF Place
  <2> QED BY <1>1, <1>5, <2>2 DEF Fails, Quiet, InCode
<1>11. CASE IsOpen
  <2>1. CommitLoop(Owner, heap[c].patch, heap[c])
    BY <1>11
  <2>2. CASE heap[c].patch # <<>>
    <3>1. Place' = "committing" /\ UNCHANGED <<toServer, answer>>
      <4> HIDE DEF c
      <4> QED BY <2>1, <2>2, CommitLoopKind
    <3>2. Due(Owner)' = 0
      BY <1>2, <3>1 DEF Due, Place
    <3>3. Aggregating'
      BY <3>1 DEF Aggregating
    <3>4. StackMatches' /\ ContextsDiffer'
      BY <1>6, <3>2 DEF StackMatches, ContextsDiffer, Increasing
    <3>5. Base' = heap[c].patch
      BY <1>1, <1>7, <3>3 DEF Base
    <3>6. status = "open" => AddsUp(heap', nested', Base', log)
      <4> HIDE DEF c
      <4> QED BY <1>6, <1>8, <1>9, <3>5, AddsUpNone
    <3>7. Quiet'
      BY <1>1, <3>1, DoomedKept DEF Quiet, InCode, Lost, server
    <3> QED BY <1>1, <3>1, <3>4, <3>6, <3>7 DEF Continues, wires
  <2>3. CASE heap[c].patch = <<>>
    <3>1. /\ Place' = "done"
          /\ NoEdits(toServer) => NoEdits(toServer')
          /\ answer'[Owner] = heap[c]
      <4> HIDE DEF c
      <4> QED BY <1>11, <2>1, <2>3, CommitLoopKind DEF IsOpen
    <3>2. NoEdits(toServer)
      BY <1>1 DEF SingleInv, Tracked, NotEnding, NoEdits
    <3> HIDE DEF c
    <3> QED BY <1>1, <1>5, <1>8, <1>9, <3>1, <3>2 DEF Succeeds
  <2> QED BY <2>2, <2>3
<1> QED BY <1>10, <1>11

\* The kind of NoTriggers.
LEMMA NoTriggersKind ==
    ASSUME OneRequest, SingleInv, ~Lost, NoTriggers(Owner)
    PROVE  Fails \/ Succeeds
<1> USE DEF NoTriggers
<1>1. /\ Owner \in Users /\ Inv /\ update \in DOMAIN heap /\ heap \in Seq(Succeeded) /\ Quiet
      /\ nested \in Seq(DOMAIN heap)
      /\ Nests(Owner)
  BY ContextAssumption, HeapSucceeds
     DEF SingleInv, Inv, TypeOK, Quiet, InCode, Place, FramesNest
<1>2. /\ Place' = "done"
      /\ NoEdits(toServer) => NoEdits(toServer')
      /\ answer'[Owner] = IF socket = "closed" THEN TransactionClosed ELSE heap[update]
  BY CommitLoopKind
<1>3. NoEdits(toServer)
  BY <1>1 DEF SingleInv, Tracked, NotEnding, NoEdits
<1>4. heap[update] \in Succeeded /\ heap[update].patch \in Seq(Edits)
  <2>1. heap[update] \in Succeeded
    BY <1>1
  <2> QED BY <2>1 DEF Succeeded, Results
<1>5. nested = <<>>
  <2>1. Due(Owner) = 0
    BY <1>1 DEF Due, Nests
  <2>2. Len(nested) = 0
    BY <1>1, <2>1 DEF SingleInv, Tracked, StackMatches, Working, Quiet
  <2> QED BY <1>1, <2>2, EmptySeq
<1>6. status = "open" => heap[update].patch = log
  <2>1. Base = heap[update].patch
    BY DEF Base, Aggregating, Place
  <2> QED BY <1>1, <1>4, <1>5, <2>1, QuietAddsUp, AddsUpNone
<1> QED BY <1>1, <1>2, <1>3, <1>4, <1>6 DEF Fails, Succeeds, Quiet, InCode, results

\* The kind of TriggersReturn.
LEMMA TriggersReturnKind ==
    ASSUME OneRequest, SingleInv, ~Lost, TriggersReturn(Owner)
    PROVE  Continues \/ Fails \/ Succeeds
<1> DEFINE c == Last(nested)
           more == heap[c].patch
<1>1. /\ Owner \in Users /\ Inv /\ Quiet
      /\ heap \in Seq(Results(Edits)) /\ nested \in Seq(DOMAIN heap) /\ update \in DOMAIN heap
      /\ frames \in [Users -> Seq(Frames)]
  BY ContextAssumption DEF TriggersReturn, SingleInv, Inv, TypeOK, Quiet, InCode, Place
<1>2. /\ heap' = [HeapAfterPop EXCEPT ![update] = Merge(@, heap[c])]
      /\ nested' = Front(nested) /\ update' = update
      /\ CommitLoop(Owner, more, Merge(heap[update], heap[c]))
      /\ pc[Owner] = "running" /\ Top(Owner) = "triggers"
      /\ UNCHANGED <<socket, toClient, server, acceptors>>
  BY DEF TriggersReturn
<1>3. Len(frames[Owner]) = 2 /\ frames[Owner][2] = "triggers"
  BY <1>1, <1>2, TopIs
<1>4. InTriggers(Owner)
  BY <1>1, <1>3 DEF InTriggers
<1>5. Len(nested) = 1
  <2>1. Due(Owner) = 1
    BY <1>2, <1>3, <1>4 DEF Due
  <2> QED BY <1>1, <2>1 DEF SingleInv, Tracked, StackMatches, Working, Quiet
<1>6. nested # <<>> /\ DOMAIN nested = {1} /\ nested[1] = c /\ c \in DOMAIN heap
  <2>1. DOMAIN nested = 1..Len(nested)
    BY <1>1
  <2>2. nested # <<>> /\ DOMAIN nested = {1} /\ nested[1] = c
    BY <1>5, <2>1 DEF Last
  <2> QED BY <1>1, <2>2
<1>7. nested' = <<>>
  BY <1>1, <1>2, <1>5, <1>6, FrontProperties, EmptySeq
<1>8. HeapAfterPop = heap
  BY <1>5 DEF HeapAfterPop
<1>9. /\ heap[c] \in Succeeded /\ heap[update] \in Succeeded
      /\ Merge(heap[update], heap[c]) \in Succeeded
      /\ Merge(heap[update], heap[c]).patch = heap[update].patch \o more
  <2>1. heap[c] \in Succeeded /\ heap[update] \in Succeeded
    BY <1>1, <1>6, HeapSucceeds
  <2>2. heap[c] \in Results(Edits) /\ heap[c].success /\ heap[update] \in Results(Edits)
    BY <2>1 DEF Succeeded
  <2> HIDE DEF c
  <2> QED BY <2>1, <2>2, MergeSucceeds, MergePatch
<1>10. status = "open" => log = heap[update].patch \o more
  <2> SUFFICES ASSUME status = "open" PROVE log = heap[update].patch \o more
    OBVIOUS
  <2>1. Base = heap[update].patch
    BY <1>4 DEF Base, Aggregating
  <2>2. AddsUp(heap, nested, heap[update].patch, log)
    BY <1>1, <2>1, QuietAddsUp
  <2> HIDE DEF c
  <2> QED BY <1>5, <1>6, <2>2, AddsUpOne DEF more
<1>11. CASE more # <<>>
  <2>1. Place' = "committing" /\ UNCHANGED <<toServer, answer>>
    <3> HIDE DEF c, more
    <3> QED BY <1>2, <1>11, CommitLoopKind
  <2>2. Len(frames'[Owner]) = 1
    <3>1. Len(Front(frames[Owner])) = 1
      <4>1. Len(Front(frames[Owner])) = Len(frames[Owner]) - 1
        BY <1>1, <1>2, TopIs
      <4> QED BY <1>3, <4>1
    <3>2. PICK balks \in BOOLEAN :
             frames' = [frames EXCEPT ![Owner] = IF balks THEN <<"balked">> ELSE Front(@)]
      BY DEF TriggersReturn
    <3>3. CASE balks
      BY <1>1, <3>2, <3>3
    <3>4. CASE ~balks
      <4>1. frames'[Owner] = Front(frames[Owner])
        BY <1>1, <3>2, <3>4
      <4> QED BY <3>1, <4>1
    <3> QED BY <3>3, <3>4
  <2>3. Due(Owner)' = 0
    BY <2>1, <2>2 DEF Due, Place
  <2>4. StackMatches' /\ ContextsDiffer'
    BY <1>7, <2>3 DEF StackMatches, ContextsDiffer, Increasing
  <2>5. Base' = heap[update].patch \o more
    <3>1. Base' = heap'[update].patch
      BY <1>2, <2>1 DEF Base, Aggregating
    <3>2. heap'[update] = Merge(heap[update], heap[c])
      BY <1>1, <1>2, <1>8
    <3> QED BY <1>9, <3>1, <3>2
  <2>6. status = "open" => AddsUp(heap', nested', Base', log)
    <3>1. log \in Seq(Edits)
      BY DEF SingleInv, Inv, TypeOK
    <3> HIDE DEF more
    <3> QED BY <1>7, <1>10, <2>5, <3>1, AddsUpNone
  <2>7. Quiet'
    BY <1>1, <1>2, <2>1, DoomedKept DEF Quiet, InCode, Lost, server
  <2> QED BY <1>1, <1>2, <2>1, <2>4, <2>6, <2>7 DEF Continues, wires
<1>12. CASE more = <<>>
  <2> DEFINE result == Merge(heap[update], heap[c])
  <2>1. /\ Place' = "done"
        /\ NoEdits(toServer) => NoEdits(toServer')
        /\ answer'[Owner] = IF socket = "closed" THEN TransactionClosed ELSE result
    <3> HIDE DEF c, result
    <3> QED BY <1>2, <1>12, CommitLoopKind DEF result
  <2>2. NoEdits(toServer)
    BY <1>1 DEF SingleInv, Tracked, NotEnding, NoEdits
  <2>3. result \in Succeeded /\ (status = "open" => result.patch = log)
    BY <1>9, <1>10
  <2> HIDE DEF result
  <2> QED BY <1>1, <1>2, <1>6, <2>1, <2>2, <2>3 DEF Fails, Succeeds, Quiet, InCode
<1> QED BY <1>11, <1>12

\* Unless it is lost, every step of the request is of one of the four kinds.
LEMMA UserStepKind ==
    ASSUME OneRequest, SingleInv, ~Lost, UserStep(Owner)
    PROVE  \/ SendsEdit /\ Due(Owner)' = Due(Owner) /\ (Aggregating' <=> Aggregating)
           \/ Continues
           \/ Fails
           \/ Succeeds
<1>1. ~Catch(Owner)
  BY DEF SingleInv, Tracked, ThrownIsDoomed, Lost, Catch, Place
<1> QED BY <1>1, BeginKind, EditKind, ExecuteProvidedKind, ProvideSubstituteKind,
           ProvideFunctionKind, TriggersKind, FailureKind, CommandReturnsKind, CommitKind,
           NoTriggersKind, TriggersReturnKind DEF UserStep

-----------------------------------------------------------------------------
(* Each kind of step keeps what is tracked.                                *)

\* A roll-back message stays on its way until the transaction has ended.
LEMMA DoomedLasts ==
    ASSUME OneRequest, Inv, [Next]_vars, Doomed
    PROVE  Doomed'
<1>1. toServer \in Seq(Messages)
  BY DEF Inv, TypeOK
<1>2. CASE ~IsOpen
  <2>1. ~IsOpen'
    <3>1. CASE UserStep(Owner)
      BY <1>2, <3>1, UserSendsOneEdit DEF SendsEdit, SendsNoEdit, IsOpen
    <3>2. CASE Connection
      BY <1>2, <3>2 DEF Connection, Receive, CloseFrame, ConnectionLost, StartClosing,
                        SocketClosed, IsOpen
    <3>3. CASE Server \/ UNCHANGED vars
      BY <1>2, <3>3 DEF Server, ServerExecutes, ServerEnds, ServerIgnores, ServerDrops,
                        vars, IsOpen
    <3> QED BY <3>1, <3>2, <3>3 DEF Next, OneRequest
  <2> QED BY <2>1 DEF Doomed
<1>3. CASE status # "open"
  <2>1. status' # "open"
    <3>1. CASE UserStep(Owner)
      BY <1>3, <3>1, UserSendsOneEdit DEF SendsEdit, SendsNoEdit, server
    <3>2. CASE Connection
      BY <1>3, <3>2 DEF Connection, Receive, CloseFrame, ConnectionLost, StartClosing,
                        SocketClosed, server
    <3>3. CASE Server \/ UNCHANGED vars
      BY <1>3, <3>3 DEF Server, ServerExecutes, ServerEnds, ServerIgnores, ServerDrops,
                        vars, server
    <3> QED BY <3>1, <3>2, <3>3 DEF Next, OneRequest
  <2> QED BY <2>1 DEF Doomed
<1>4. CASE RollsBack(toServer)
  <2>1. PICK i \in DOMAIN toServer : toServer[i].type = "roll-back"
    BY <1>4 DEF RollsBack
  <2>2. CASE Extends(toServer', toServer)
    BY <2>1, <2>2 DEF Extends, RollsBack, Doomed
  <2>3. CASE UserStep(Owner)
    <3>1. CASE SendsEdit
      <4> DEFINE n == Len(toServer)
      <4>1. \A m : Extends(Append(toServer, m), toServer)
        BY <1>1 DEF Extends
      <4> QED BY <2>2, <3>1, <4>1 DEF SendsEdit
    <3> QED BY <2>2, <2>3, <3>1, UserSendsOneEdit DEF SendsNoEdit
  <2>4. CASE Connection \/ UNCHANGED vars
    <3>1. toServer' = toServer
      BY <2>4 DEF Connection, Receive, CloseFrame, ConnectionLost, StartClosing,
                  SocketClosed, vars, wires
    <3> QED BY <2>2, <3>1 DEF Extends
  <2>5. CASE ServerExecutes
    <3>1. /\ Head(toServer).type = "execute" /\ toServer # <<>> /\ toServer' = Tail(toServer)
      BY <2>5 DEF ServerExecutes
    <3>2. i # 1 /\ i \in 1..Len(toServer)
      BY <1>1, <2>1, <3>1
    <3>3. i - 1 \in DOMAIN toServer' /\ toServer'[i - 1] = toServer[i]
      BY <1>1, <3>1, <3>2
    <3> QED BY <2>1, <3>3 DEF RollsBack, Doomed
  <2>6. CASE ServerEnds \/ ServerIgnores \/ ServerDrops
    BY <2>6 DEF ServerEnds, ServerIgnores, ServerDrops, server, Doomed
  <2> QED BY <2>3, <2>4, <2>5, <2>6 DEF Next, Server, OneRequest
<1> QED BY <1>2, <1>3, <1>4 DEF Doomed

\* A request is answered when it is done, and with a failure on a closed socket.
LEMMA UserAnswers ==
    ASSUME OneRequest, SingleInv, UserStep(Owner)
    PROVE  /\ Place # "done" /\ socket' = socket
           /\ Place' # "done" => answer'[Owner] = answer[Owner]
           /\ Place' = "done" /\ socket = "closed" => ~answer'[Owner].success
<1>1. /\ Owner \in Users /\ Inv /\ pc \in [Users -> PCs]
      /\ answer \in [Users -> Results(Edits) \cup {Unanswered}]
      /\ ~TransactionClosed.success
  BY ContextAssumption DEF SingleInv, Inv, TypeOK, PCs, TransactionClosed
<1>2. Place # "done" /\ socket' = socket
  BY <1>1, UserSendsOneEdit DEF SendsEdit, SendsNoEdit
<1>3. CASE answer' = answer /\ Place' # "done"
  BY <1>2, <1>3
<1>4. CASE AnswerFailure(Owner)
  <2>1. answer'[Owner] = TransactionClosed /\ Place' = "done"
    BY <1>1, <1>4 DEF AnswerFailure, Place
  <2> QED BY <1>1, <1>2, <2>1
<1>5. ASSUME NEW delta, NEW result, CommitLoop(Owner, delta, result)
      PROVE  /\ Place' # "done" => answer'[Owner] = answer[Owner]
             /\ Place' = "done" /\ socket = "closed" => ~answer'[Owner].success
  BY <1>1, <1>5, CommitLoopKind
<1>6. CASE Begin(Owner) \/ Edit(Owner) \/ ExecuteProvided(Owner) \/ ProvideSubstitute(Owner)
           \/ ProvideFunction(Owner) \/ ProvideFails(Owner) \/ CommandReturns(Owner)
           \/ Catch(Owner) \/ ThrowFromCommand(Owner) \/ Triggers(Owner)
  <2>1. answer' = answer
    BY <1>6 DEF Begin, Edit, ExecuteProvided, ProvideSubstitute, ProvideFunction,
                ProvideFails, CommandReturns, Catch, ThrowFromCommand, Triggers
  <2>2. CASE Edit(Owner) \/ ProvideSubstitute(Owner)
    BY <1>1, <1>3, <2>1, <2>2
       DEF Edit, ProvideSubstitute, SendExecute, Throw, Place
  <2>3. CASE Begin(Owner) \/ ExecuteProvided(Owner) \/ ProvideFunction(Owner)
             \/ ProvideFails(Owner) \/ Catch(Owner) \/ Triggers(Owner)
    BY <1>1, <1>3, <2>1, <2>3
       DEF Begin, ExecuteProvided, ProvideFunction, ProvideFails, Catch, Triggers, Throw,
           Place
  <2>4. CASE CommandReturns(Owner)
    <3>1. pc' = pc \/ Throw(Owner)
      BY <2>4 DEF CommandReturns
    <3> QED BY <1>1, <1>2, <1>3, <2>1, <3>1 DEF Throw, Place
  <2>5. CASE ThrowFromCommand(Owner)
    BY <1>1, <1>3, <2>1, <2>5 DEF ThrowFromCommand, Place
  <2> QED BY <1>6, <2>2, <2>3, <2>4, <2>5
<1>7. CASE ThrowFromTriggers(Owner) \/ ThrowFromProvided(Owner) \/ Balk(Owner)
           \/ TriggersFail(Owner)
  BY <1>4, <1>7 DEF ThrowFromTriggers, ThrowFromProvided, Balk, TriggersFail
<1>8. CASE NoTriggers(Owner)
  BY <1>2, <1>5, <1>8 DEF NoTriggers
<1>9. CASE TriggersReturn(Owner)
  BY <1>2, <1>5, <1>9 DEF TriggersReturn
<1>10. CASE Commit(Owner)
  <2>1. CASE IsOpen
    <3>1. CommitLoop(Owner, heap[Last(nested)].patch, heap[Last(nested)])
      BY <1>10, <2>1 DEF Commit
    <3> QED BY <1>2, <1>5, <3>1
  <2>2. CASE ~IsOpen
    <3>1. answer' = [answer EXCEPT ![Owner] = TransactionClosed]
          /\ pc' = [pc EXCEPT ![Owner] = "done"]
      BY <1>10, <2>2 DEF Commit
    <3> QED BY <1>4, <3>1 DEF AnswerFailure
  <2> QED BY <2>1, <2>2
<1> QED BY <1>6, <1>7, <1>8, <1>9, <1>10 DEF UserStep

\* So it is answered once it is done, whatever it has caught.
LEMMA UserAnswersWhenDone ==
    ASSUME OneRequest, SingleInv, OneEdit', UserStep(Owner)
    PROVE  AnsweredWhenDone'
<1>1. answer[Owner] = Unanswered
  BY UserAnswers DEF SingleInv, Tracked, AnsweredWhenDone
<1>2. Place' = "done" /\ answer'[Owner].success => NoEdits(toServer')
  BY UserAnswers DEF OneEdit, NoEdits
<1> QED BY <1>1, <1>2, UserAnswers DEF AnsweredWhenDone

\* Of a request that is lost, nothing more is known.
LEMMA LostKeeps ==
    ASSUME AnsweredWhenDone', Lost'
    PROVE  Tracked'
BY DEF Tracked, NotEnding, ThrownIsDoomed, StackMatches, ContextsDiffer, Accounted,
       Concerned, Working, Quiet, Lost

\* An edit that is sent changes nothing that is held yet.
LEMMA SendsEditKeeps ==
    ASSUME OneRequest, SingleInv, AnsweredWhenDone', ~Lost, SendsEdit,
           Due(Owner)' = Due(Owner), Aggregating' <=> Aggregating
    PROVE  Tracked'
<1> USE DEF SendsEdit
<1>0. /\ Quiet /\ ~Quiet' /\ Place' = "awaiting" /\ Place # "awaiting" /\ IsOpen'
      /\ UNCHANGED <<status, log, heap, nested, update, answer, toClient, socket>>
  BY DEF Quiet, InCode, server, results, IsOpen
<1>1. /\ toServer = <<>> /\ toClient = <<>>
      /\ toServer' = <<[type |-> "execute", edit |-> edits + 1]>>
  <2>1. toServer = <<>> /\ toClient = <<>>
    BY <1>0 DEF SingleInv, Tracked, NotEnding, OneEdit
  <2> QED BY <2>1
<1>2. NotEnding' /\ Working'
  <2>1. ~Ending
    BY <1>0, <1>1 DEF SingleInv, Tracked, NotEnding, Working, Quiet
  <2>2. ~Ending' /\ ~RollsBack(toServer')
    BY <1>0, <1>1, <2>1 DEF Ending, Terminal, RollsBack
  <2>3. ~Lost'
    BY <1>0, <1>1, <2>2 DEF Lost, Doomed, Quiet
  <2> QED BY <1>0, <1>1, <2>2, <2>3 DEF NotEnding, Working
<1>3. ThrownIsDoomed'
  BY <1>0, <1>1 DEF ThrownIsDoomed
<1>4. StackMatches'
  BY <1>0, <1>1 DEF SingleInv, Tracked, StackMatches, Working, Quiet
<1>5. ContextsDiffer'
  BY <1>0, <1>1 DEF SingleInv, Tracked, ContextsDiffer, Working, Quiet
<1>6. Accounted'
  <2> SUFFICES ASSUME status = "open"
               PROVE  \E all \in Seq(Edits) :
                         all \o Flight' = log /\ AddsUp(heap, nested, Base', all)
    BY <1>0, <1>1 DEF Accounted, Concerned
  <2>1. Base' = Base /\ Flight' = <<>>
    BY <1>0, <1>1 DEF Base, Flight
  <2>2. AddsUp(heap, nested, Base, log)
    BY <1>0, <1>1, QuietAddsUp
  <2>3. log \in Seq(Edits) /\ log \o <<>> = log
    BY ConcatEmptySeq DEF SingleInv, Inv, TypeOK
  <2> QED BY <2>1, <2>2, <2>3
<1> QED BY <1>2, <1>3, <1>4, <1>5, <1>6 DEF Tracked

\* A request that continues has said how its contexts add up.
LEMMA ContinuesKeeps ==
    ASSUME OneRequest, SingleInv, AnsweredWhenDone', Continues
    PROVE  Tracked'
<1> USE DEF Continues
<1>1. /\ toServer = <<>> /\ toClient = <<>> /\ Place' # "throwing"
      /\ UNCHANGED <<status, log, toServer, toClient, answer>>
  BY DEF SingleInv, Tracked, NotEnding, OneEdit, Quiet, InCode, server, wires
<1>2. NotEnding' /\ ThrownIsDoomed'
  <2>1. ~Ending
    BY DEF SingleInv, Tracked, NotEnding, Working, Quiet
  <2>2. ~Ending'
    BY <1>1, <2>1 DEF Ending
  <2> QED BY <1>1, <2>2 DEF NotEnding, ThrownIsDoomed
<1>3. Accounted'
  <2> SUFFICES ASSUME status = "open"
               PROVE  \E all \in Seq(Edits) :
                         all \o Flight' = log /\ AddsUp(heap', nested', Base', all)
    BY <1>1 DEF Accounted, Concerned
  <2>1. Flight' = <<>>
    BY <1>1 DEF Flight
  <2>2. log \in Seq(Edits) /\ log \o <<>> = log
    BY ConcatEmptySeq DEF SingleInv, Inv, TypeOK
  <2> QED BY <2>1, <2>2
<1> QED BY <1>2, <1>3 DEF Tracked

\* One that fails or succeeds has no more to account for.
LEMMA EndKeeps ==
    ASSUME AnsweredWhenDone', Fails \/ Succeeds
    PROVE  Tracked'
<1>1. Place' \in {"throwing", "done"} /\ (Place' = "throwing" => Doomed')
  BY DEF Fails, Succeeds
<1> QED BY <1>1 DEF Tracked, NotEnding, ThrownIsDoomed, StackMatches, ContextsDiffer,
                    Accounted, Concerned, Working, Quiet, InCode

\* So each step of the request keeps it.
LEMMA UserKeeps ==
    ASSUME OneRequest, SingleInv, Inv', OneEdit', UserStep(Owner)
    PROVE  Tracked'
<1>1. AnsweredWhenDone'
  BY UserAnswersWhenDone
<1>2. CASE Lost
  <2>1. [Next]_vars
    BY ContextAssumption DEF Next
  <2>2. Doomed'
    BY <1>2, <2>1, DoomedLasts DEF SingleInv, Lost
  <2> QED BY <1>1, <1>2, <2>2, LostKeeps DEF Lost
<1>3. CASE ~Lost
  BY <1>1, <1>3, UserStepKind, SendsEditKeeps, ContinuesKeeps, EndKeeps
<1> QED BY <1>2, <1>3

\* A single acceptor merges the reply into its context.
LEMMA MergeAllOne ==
    ASSUME NEW h, NEW takers, DOMAIN takers = {1}, NEW result
    PROVE  MergeAll(h, takers, result) =
              [h EXCEPT ![takers[1].current] = Merge(@, result)]
<1> DEFINE D == DOMAIN takers
           Choice(s) == CHOOSE x \in s : TRUE
           Into(i, merged) == [merged EXCEPT ![takers[i].current] = Merge(@, result)]
           Eq(f) == f = [s \in SUBSET D |->
                           IF s = {} THEN h ELSE Into(Choice(s), f[s \ {Choice(s)}])]
           fold == CHOOSE f : Eq(f)
           known == [s \in SUBSET D |-> IF s = {} THEN h ELSE Into(1, h)]
<1>1. MergeAll(h, takers, result) = fold[D]
  BY DEF MergeAll, FoldSeq, FoldFunction, FoldFunctionOnSet, MapThenFoldSet
<1>2. \A s \in SUBSET D : s # {} => s = D /\ Choice(s) = 1 /\ s \ {Choice(s)} = {}
  OBVIOUS
<1> HIDE DEF Into
<1>3. Eq(known)
  BY <1>2
<1>4. Eq(fold)
  <2> HIDE DEF Eq
  <2> QED BY <1>3
<1>5. fold[{}] = h /\ fold[D] = Into(Choice(D), fold[D \ {Choice(D)}])
  <2>1. D # {} /\ D \in SUBSET D /\ {} \in SUBSET D
    OBVIOUS
  <2> HIDE DEF fold
  <2> QED BY <1>4, <2>1
<1>6. Choice(D) = 1 /\ D \ {Choice(D)} = {}
  BY <1>2
<1>7. fold[D] = Into(1, h)
  <2> HIDE DEF fold
  <2> QED BY <1>5, <1>6
<1> QED BY <1>1, <1>7 DEF Into

\* A reply moves from the wire to the context on top of the stack.
LEMMA ReceiveKeeps ==
    ASSUME OneRequest, SingleInv, ~Lost, Receive
    PROVE  Tracked'
<1> DEFINE c == Last(nested)
           result == Head(toClient).result
<1>1. /\ IsOpen /\ toClient # <<>>
      /\ heap' = MergeAll(heap, acceptors, result)
      /\ pc' = [u \in Users |->
                  IF \E i \in DOMAIN acceptors : acceptors[i].user = u
                  THEN "running" ELSE pc[u]]
      /\ acceptors' = <<>> /\ toClient' = Tail(toClient)
      /\ UNCHANGED <<socket, toServer, status, log, nested, update, answer>>
  BY DEF Receive, Accepting, Listening, server
<1>2. /\ Place = "awaiting" /\ Working
      /\ Len(toClient) = 1 /\ NoEdits(toServer)
      /\ Len(acceptors) = 1 /\ acceptors[1].current = c
      /\ ~Lost'
  BY <1>1, DoomedKept DEF SingleInv, OneEdit, Working, Lost
<1>3. /\ Owner \in Users /\ Inv
      /\ heap \in Seq(Results(Edits)) /\ nested \in Seq(DOMAIN heap) /\ update \in DOMAIN heap
      /\ toServer \in Seq(Messages)
      /\ frames \in [Users -> Seq(Frames)]
  BY ContextAssumption DEF SingleInv, Inv, TypeOK
<1>4. DOMAIN acceptors = {1} /\ acceptors[1].user = Owner
  <2> DEFINE Waiting == [user : {v \in Users : pc[v] = "awaiting"},
                         edit : Edits, current : DOMAIN heap]
  <2>1. acceptors \in Seq(Waiting)
    BY <1>3 DEF Inv, TypeOK
  <2>2. \A a \in Waiting : a.user = Owner
    BY DEF OneRequest
  <2> HIDE DEF Waiting
  <2> QED BY <1>2, <2>1, <2>2
<1>5. result \in Results(Edits) /\ result = toClient[1].result
  <2>1. toClient \in Seq(Replies)
    BY <1>3 DEF Inv, TypeOK
  <2>2. Head(toClient) = toClient[1] /\ Head(toClient) \in Replies
    BY <1>1, <2>1, TailProperties
  <2> QED BY <2>2 DEF Replies
<1>6. toClient' = <<>>
  <2>1. toClient \in Seq(Replies)
    BY <1>3 DEF Inv, TypeOK
  <2>2. toClient' \in Seq(Replies) /\ Len(toClient') = 0
    BY <1>1, <1>2, <2>1
  <2> QED BY <2>2, EmptySeq
<1>7. pc'[Owner] = "running" /\ Place' = "running" /\ Quiet'
  BY <1>1, <1>2, <1>3, <1>4 DEF Place, Quiet, InCode
<1>8. heap' = [heap EXCEPT ![c] = Merge(@, result)]
  <2> HIDE DEF c, result
  <2>1. MergeAll(heap, acceptors, result) =
           [heap EXCEPT ![acceptors[1].current] = Merge(@, result)]
    BY <1>4, MergeAllOne
  <2> QED BY <1>1, <1>2, <2>1
<1>9. toServer = <<>>
  <2>1. ASSUME NEW m \in Messages, ~Executes(m) PROVE m.type \in Terminal
    BY <2>1 DEF Messages, Executes
  <2>2. \A i \in DOMAIN toServer : toServer[i].type \in Terminal
    BY <1>2, <1>3, <2>1 DEF NoEdits
  <2>3. DOMAIN toServer = {}
    BY <1>2, <2>2 DEF SingleInv, Tracked, NotEnding, Ending
  <2> QED BY <1>3, <2>3
<1>10. /\ Due(Owner)' = Due(Owner)
       /\ Aggregating' <=> Aggregating
  <2>1. \/ frames'[Owner] = frames[Owner]
        \/ frames[Owner] = <<"edited">> /\ frames'[Owner] = <<"refused">>
    BY <1>3 DEF Receive, Accepting
  <2>2. pc[Owner] = "awaiting"
    BY <1>2 DEF Place
  <2>3. CASE frames'[Owner] = frames[Owner]
    BY <1>7, <2>2, <2>3 DEF Due, Aggregating, InTriggers, Place
  <2>4. CASE frames[Owner] = <<"edited">> /\ frames'[Owner] = <<"refused">>
    <3>1. ~InTriggers(Owner) /\ ~InTriggers(Owner)'
      BY <2>4 DEF InTriggers
    <3> QED BY <1>7, <2>2, <2>4, <3>1 DEF Due, Aggregating, Place
  <2> QED BY <2>1, <2>3, <2>4
<1>11. NotEnding'
  <2>1. ~Ending
    BY <1>2 DEF SingleInv, Tracked, NotEnding
  <2>2. ~Ending'
    BY <1>1, <2>1 DEF Ending
  <2> QED BY <1>1, <1>9, <2>2 DEF NotEnding
<1>12. AnsweredWhenDone' /\ ThrownIsDoomed'
  BY <1>1, <1>2, <1>7 DEF SingleInv, Tracked, AnsweredWhenDone, ThrownIsDoomed
<1>13. StackMatches'
  BY <1>1, <1>2, <1>10 DEF SingleInv, Tracked, StackMatches
<1>14. ContextsDiffer'
  BY <1>1, <1>2, <1>10 DEF SingleInv, Tracked, ContextsDiffer
<1>15. nested # <<>>
  <2>1. Due(Owner) >= 1
    BY <1>2, <1>3, TopIs DEF Place
  <2> QED BY <1>3, <2>1, StackHolds
<1>16. Base' = Base
  <2>1. ASSUME Aggregating PROVE heap'[update] = heap[update]
    <3>1. Len(nested) \in DOMAIN nested /\ c = nested[Len(nested)]
      BY <1>3, <1>15 DEF Last
    <3>2. c # update
      BY <1>2, <2>1, <3>1 DEF SingleInv, Tracked, ContextsDiffer
    <3> QED BY <1>3, <1>8, <3>2
  <2> QED BY <1>1, <1>10, <2>1 DEF Base
<1>17. Accounted'
  <2> SUFFICES ASSUME status = "open"
               PROVE  \E all \in Seq(Edits) :
                         all \o Flight' = log /\ AddsUp(heap', nested, Base', all)
    BY <1>1 DEF Accounted, Concerned
  <2>1. PICK all \in Seq(Edits) : all \o Flight = log /\ AddsUp(heap, nested, Base, all)
    BY <1>1, <1>2 DEF SingleInv, Tracked, Accounted, Concerned
  <2>2. Flight = result.patch /\ Flight' = <<>>
    BY <1>1, <1>5, <1>6 DEF Flight
  <2>3. Increasing(nested)
    BY <1>2 DEF SingleInv, Tracked, ContextsDiffer
  <2> HIDE DEF c, result
  <2>4. AddsUp(heap', nested, Base, all \o result.patch)
    BY <1>3, <1>5, <1>8, <1>15, <2>1, <2>3, AddsUpMerge DEF c
  <2>5. AddsUp(heap', nested, Base', log)
    BY <1>16, <2>1, <2>2, <2>4
  <2>6. log \in Seq(Edits) /\ log \o <<>> = log
    BY ConcatEmptySeq DEF SingleInv, Inv, TypeOK
  <2> QED BY <2>2, <2>5, <2>6
<1> QED BY <1>11, <1>12, <1>13, <1>14, <1>17 DEF Tracked

\* A step of the server, or the end of the connection, that leaves the stack alone.
LEMMA OutsideKeeps ==
    ASSUME OneRequest, SingleInv,
           UNCHANGED <<heap, nested, update, frames, answer>>,
           Place' = Place \/ (Place = "awaiting" /\ Place' = "throwing" /\ Doomed'),
           Doomed => Doomed', Ending' => Ending,
           toServer = <<>> => toServer' = <<>>,
           NoEdits(toServer) => NoEdits(toServer'),
           Concerned' /\ Place' = Place =>
              Concerned /\ \E more \in Seq(Edits) :
                              /\ log' = log \o more
                              /\ Flight' = Flight \o more
    PROVE  Tracked'
<1>1. CASE Place' # Place
  BY <1>1 DEF SingleInv, Tracked, NotEnding, AnsweredWhenDone, ThrownIsDoomed, StackMatches,
              ContextsDiffer, Accounted, Concerned, Working, Quiet, InCode
<1>2. CASE Place' = Place
  <2> USE <1>2
  <2>1. Due(Owner)' = Due(Owner) /\ (Aggregating' <=> Aggregating)
    BY DEF Due, Aggregating, InTriggers, Place
  <2>2. (Working' => Working) /\ (Quiet' => Quiet)
    BY DEF Working, Quiet, InCode, Lost
  <2>3. NotEnding' /\ ThrownIsDoomed'
    BY <2>2 DEF SingleInv, Tracked, NotEnding, ThrownIsDoomed
  <2>4. AnsweredWhenDone' /\ StackMatches' /\ ContextsDiffer'
    BY <2>1, <2>2 DEF SingleInv, Tracked, AnsweredWhenDone, StackMatches, ContextsDiffer
  <2>5. Base' = Base
    BY <2>1 DEF Base
  <2>6. Accounted'
    <3> SUFFICES ASSUME Concerned'
                 PROVE  \E all \in Seq(Edits) :
                           all \o Flight' = log' /\ AddsUp(heap, nested, Base, all)
      BY <2>5 DEF Accounted
    <3>1. PICK more \in Seq(Edits) : log' = log \o more /\ Flight' = Flight \o more
      OBVIOUS
    <3>2. PICK all \in Seq(Edits) : all \o Flight = log /\ AddsUp(heap, nested, Base, all)
      BY DEF SingleInv, Tracked, Accounted
    <3>3. Flight \in Seq(Edits)
      <4>1. toClient \in Seq(Replies)
        BY DEF SingleInv, Inv, TypeOK
      <4>2. toClient # <<>> => toClient[1] \in Replies
        BY <4>1
      <4>3. toClient # <<>> => toClient[1].result.patch \in Seq(Edits)
        BY <4>2 DEF Replies, Results
      <4> QED BY <4>3 DEF Flight
    <3>4. (all \o Flight) \o more = all \o (Flight \o more)
      BY <3>3, PatchesAssociate
    <3> QED BY <3>1, <3>2, <3>4
  <2> QED BY <2>3, <2>4, <2>6 DEF Tracked
<1> QED BY <1>1, <1>2

\* Nothing is applied.
LEMMA NothingMore ==
    ASSUME SingleInv
    PROVE  log = log \o <<>> /\ Flight = Flight \o <<>> /\ <<>> \in Seq(Edits)
<1>1. log \in Seq(Edits) /\ toClient \in Seq(Replies)
  BY DEF SingleInv, Inv, TypeOK
<1>2. toClient # <<>> => toClient[1] \in Replies
  BY <1>1
<1>3. toClient # <<>> => toClient[1].result.patch \in Seq(Edits)
  BY <1>2 DEF Replies, Results
<1>4. Flight \in Seq(Edits)
  BY <1>3 DEF Flight
<1> QED BY <1>1, <1>4, ConcatEmptySeq

\* The reply that a closing socket drops concerns nobody any more.
LEMMA ClosingKeeps ==
    ASSUME OneRequest, SingleInv, CloseFrame \/ ConnectionLost
    PROVE  Tracked'
<1>1. /\ socket' = "closing" /\ toClient' = <<>>
      /\ UNCHANGED <<toServer, status, log, heap, nested, update, frames, answer, pc>>
  BY DEF CloseFrame, ConnectionLost, StartClosing, server, results, users
<1>2. Place' = Place /\ (Ending' => Ending) /\ Doomed'
  BY <1>1 DEF Place, Ending, Doomed, IsOpen
<1>3. Concerned' => Concerned /\ log' = log \o <<>> /\ Flight' = Flight \o <<>>
  <2> SUFFICES ASSUME Concerned'
               PROVE  Concerned /\ log' = log \o <<>> /\ Flight' = Flight \o <<>>
    OBVIOUS
  <2>1. InCode /\ Concerned
    BY <1>1, <1>2 DEF Concerned, Working, InCode, Lost, IsOpen
  <2>2. Flight' = Flight
    BY <1>1, <2>1 DEF Flight, SingleInv, OneEdit, InCode
  <2> QED BY <1>1, <2>1, <2>2, NothingMore
<1> QED BY <1>1, <1>2, <1>3, NothingMore, OutsideKeeps

\* Nor does anything, once the awaited edit is rejected.
LEMMA SocketClosedKeeps ==
    ASSUME OneRequest, SingleInv, SocketClosed
    PROVE  Tracked'
<1>1. /\ socket' = "closed" /\ socket = "closing"
      /\ UNCHANGED <<toServer, toClient, status, log, heap, nested, update, frames, answer>>
  BY DEF SocketClosed, wires, server, results
<1>2. /\ Place' = IF Place = "awaiting" THEN "throwing" ELSE Place
      /\ Ending' => Ending
      /\ Doomed /\ Doomed'
  BY <1>1, ContextAssumption DEF SocketClosed, Place, Ending, Doomed, IsOpen
<1>3. Concerned' /\ Place' = Place =>
         Concerned /\ log' = log \o <<>> /\ Flight' = Flight \o <<>>
  BY <1>1, <1>2, NothingMore DEF Concerned, Working, InCode, Lost, IsOpen, Flight
<1> QED BY <1>1, <1>2, <1>3, NothingMore, OutsideKeeps

\* What the server applies is on its way in the reply.
LEMMA ServerExecutesKeeps ==
    ASSUME OneRequest, SingleInv, Doomed => Doomed', ServerExecutes
    PROVE  Tracked'
<1> DEFINE e == Head(toServer).edit
<1>1. /\ toServer # <<>> /\ toServer' = Tail(toServer) /\ status = "open" /\ status' = "open"
      /\ Head(toServer).type = "execute"
      /\ UNCHANGED <<socket, heap, nested, update, frames, answer, pc>>
  BY DEF ServerExecutes, results, users
<1>2. toServer \in Seq(Messages) /\ log \in Seq(Edits)
  BY DEF SingleInv, Inv, TypeOK
<1>3. /\ Head(toServer) = toServer[1] /\ 1 \in DOMAIN toServer
      /\ \A i \in DOMAIN toServer' : i + 1 \in DOMAIN toServer /\ toServer'[i] = toServer[i + 1]
      /\ NoEdits(toServer) => NoEdits(toServer')
  BY <1>1, <1>2, TailNoEdits
<1>4. toClient = <<>>
  BY <1>1, <1>3 DEF SingleInv, OneEdit, NoEdits, Executes
<1>5. e \in Edits
  <2>1. Head(toServer) \in Messages
    BY <1>2, <1>3
  <2> QED BY <1>1, <2>1 DEF Messages, Terminal
<1>6. Place' = Place
  BY <1>1 DEF Place
<1>7. Ending' => Ending
  BY <1>1, <1>3 DEF Ending
<1>8. Concerned' => Concerned /\ \E more \in Seq(Edits) :
                                   log' = log \o more /\ Flight' = Flight \o more
  <2> SUFFICES ASSUME Concerned'
               PROVE  Concerned /\ \E more \in Seq(Edits) :
                                     log' = log \o more /\ Flight' = Flight \o more
    OBVIOUS
  <2>1. Working /\ ~Quiet
    BY <1>1, <1>6 DEF Concerned, Working, InCode, Lost, SingleInv, Tracked, NotEnding
  <2>2. Place = "awaiting" /\ IsOpen
    BY <1>1, <1>6, <2>1 DEF Concerned, Working, Quiet, IsOpen
  <2>3. Concerned /\ Flight = <<>>
    BY <1>1, <1>4, <2>1, <2>2 DEF Concerned, Flight
  <2>4. /\ <<e>> \in Seq(Edits) /\ <<>> \in Seq(Edits)
        /\ Append(log, e) = log \o <<e>> /\ log = log \o <<>>
        /\ <<e>> = <<>> \o <<e>> /\ <<>> = <<>> \o <<>>
    <3> HIDE DEF e
    <3>1. <<e>> \in Seq(Edits) /\ <<>> \in Seq(Edits)
      BY <1>5
    <3>2. Append(log, e) = log \o <<e>>
      BY <1>2, <1>5, AppendIsConcat
    <3> QED BY <1>2, <3>1, <3>2, ConcatEmptySeq
  <2>5. ASSUME NEW success, NEW patch, Reply(e, success, patch)
        PROVE  Flight' = patch
    <3>1. toClient' = <<[edit |-> e, result |-> [success |-> success, patch |-> patch]]>>
      BY <1>4, <2>2, <2>5 DEF Reply
    <3> QED BY <3>1 DEF Flight
  <2>6. \/ log' = Append(log, e) /\ Reply(e, TRUE, <<e>>)
        \/ \E success \in BOOLEAN : log' = log /\ Reply(e, success, <<>>)
    BY DEF ServerExecutes
  <2>7. CASE log' = Append(log, e) /\ Reply(e, TRUE, <<e>>)
    <3>1. log' = log \o <<e>> /\ Flight' = Flight \o <<e>>
      BY <2>3, <2>4, <2>5, <2>7
    <3> QED BY <2>3, <2>4, <3>1
  <2>8. CASE \E success \in BOOLEAN : log' = log /\ Reply(e, success, <<>>)
    <3>1. log' = log \o <<>> /\ Flight' = Flight \o <<>>
      BY <2>3, <2>4, <2>5, <2>8
    <3> QED BY <2>3, <2>4, <3>1
  <2> QED BY <2>6, <2>7, <2>8
<1> QED BY <1>1, <1>3, <1>6, <1>7, <1>8, OutsideKeeps

\* The server ends the transaction only after the request failed or is done, but may
\* ignore messages or drop the transaction at any time.
LEMMA ServerEndsKeeps ==
    ASSUME OneRequest, SingleInv, Doomed => Doomed',
           ServerEnds \/ ServerIgnores \/ ServerDrops
    PROVE  Tracked'
<1>1. /\ status' # "open"
      /\ UNCHANGED <<socket, toClient, heap, nested, update, frames, answer, pc>>
      /\ toServer' = toServer \/ (toServer # <<>> /\ toServer' = Tail(toServer))
  BY DEF ServerEnds, ServerIgnores, ServerDrops, results, users, server, wires
<1>2. toServer \in Seq(Messages)
  BY DEF SingleInv, Inv, TypeOK
<1>3. /\ NoEdits(toServer) => NoEdits(toServer')
      /\ toServer = <<>> => toServer' = <<>>
      /\ toServer' # toServer => Head(toServer) = toServer[1] /\ 1 \in DOMAIN toServer
      /\ \A i \in DOMAIN toServer' :
            \E k \in DOMAIN toServer : toServer'[i] = toServer[k]
  <2>1. CASE toServer' = toServer
    BY <2>1
  <2>2. CASE toServer # <<>> /\ toServer' = Tail(toServer)
    BY <1>2, <2>2, TailNoEdits
  <2> QED BY <1>1, <2>1, <2>2
<1>4. Ending' => Ending
  <2> SUFFICES ASSUME Ending' PROVE Ending
    OBVIOUS
  <2>1. CASE ServerEnds
    <3>1. toServer # <<>> /\ Head(toServer).type \in Terminal
      BY <2>1 DEF ServerEnds, Terminal
    <3> QED BY <1>2, <3>1 DEF Ending
  <2>2. CASE ServerIgnores \/ ServerDrops
    <3>1. status' \in {"committed", "rolledBack"} => status' = status
      BY <2>2 DEF ServerIgnores, ServerDrops, server
    <3> QED BY <1>3, <3>1 DEF Ending
  <2> QED BY <2>1, <2>2
<1>5. Place' = Place /\ ~Concerned'
  BY <1>1 DEF Place, Concerned
<1> QED BY <1>1, <1>3, <1>4, <1>5, OutsideKeeps

-----------------------------------------------------------------------------
(* The invariant of a single request, and the properties that follow.      *)

\* All of it holds at first.
LEMMA SingleInit ==
    ASSUME OneRequest, Init
    PROVE  SingleInv
<1>1. Inv /\ Place = "idle" /\ frames[Owner] = <<>>
  BY InitInv, ContextAssumption DEF Init, Place
<1>2. /\ heap = <<FreshResult>> /\ nested = <<1>> /\ toServer = <<>> /\ toClient = <<>>
      /\ log = <<>> /\ status = "open" /\ answer[Owner] = Unanswered
  BY ContextAssumption DEF Init
<1>3. ~Aggregating
  BY <1>1 DEF Aggregating, InTriggers
<1>4. OneEdit
  BY <1>1 DEF OneEdit, Init
<1>5. NotEnding /\ AnsweredWhenDone /\ ThrownIsDoomed
  BY <1>1, <1>2 DEF NotEnding, AnsweredWhenDone, ThrownIsDoomed, Ending
<1>6. StackMatches
  BY <1>1, <1>2 DEF StackMatches, Due, Place
<1>7. ContextsDiffer
  BY <1>2, <1>3 DEF ContextsDiffer, Increasing
<1>8. Accounted
  <2> DEFINE total == [i \in 0..1 |-> <<>>]
  <2>1. <<>> \in Seq(Edits) /\ FreshResult.patch = <<>> /\ <<>> \o <<>> = <<>>
    BY DEF FreshResult
  <2>2. Base = <<>> /\ Flight = <<>>
    BY <1>2, <1>3 DEF Base, Flight
  <2>3. AddsUp(heap, nested, <<>>, <<>>)
    <3>1. total \in [0..1 -> Seq(Edits)] /\ total[0] = <<>> /\ total[1] = <<>>
      BY <2>1
    <3>2. Len(nested) = 1 /\ DOMAIN nested = {1} /\ heap[nested[1]] = FreshResult
      BY <1>2
    <3> HIDE DEF total
    <3>3. \A i \in DOMAIN nested : total[i] = total[i - 1] \o heap[nested[i]].patch
      BY <2>1, <3>1, <3>2
    <3> QED BY <3>1, <3>2, <3>3 DEF AddsUp
  <2> QED BY <1>2, <2>1, <2>2, <2>3 DEF Accounted
<1> QED BY <1>1, <1>4, <1>5, <1>6, <1>7, <1>8 DEF SingleInv, Tracked

\* Every step keeps what is tracked.
LEMMA NextTracked ==
    ASSUME OneRequest, SingleInv, Inv', OneEdit', [Next]_vars
    PROVE  Tracked'
<1>0. Doomed => Doomed'
  BY DoomedLasts DEF SingleInv
<1>1. CASE \E u \in Users : UserStep(u)
  BY <1>1, UserKeeps DEF OneRequest
<1>2. CASE Connection
  <2>1. CASE Receive
    <3>1. CASE Lost
      <4>1. AnsweredWhenDone'
        BY <2>1, <1>0 DEF Receive, SingleInv, OneEdit, Tracked, AnsweredWhenDone
      <4> QED BY <1>0, <3>1, <4>1, LostKeeps DEF Lost
    <3> QED BY <2>1, <3>1, ReceiveKeeps
  <2> QED BY <1>2, <2>1, ClosingKeeps, SocketClosedKeeps DEF Connection
<1>3. CASE Server
  BY <1>0, <1>3, ServerExecutesKeeps, ServerEndsKeeps DEF Server
<1>4. CASE UNCHANGED vars
  <2>1. UNCHANGED <<socket, toServer, toClient, status, log, heap, nested, update, frames,
                    pc, answer>>
    BY <1>4 DEF vars, wires, server, results, users
  <2>2. Place' = Place /\ (Ending' <=> Ending)
    BY <2>1 DEF Place, Ending
  <2>3. log' = log \o <<>> /\ Flight' = Flight \o <<>> /\ <<>> \in Seq(Edits)
    BY <2>1, NothingMore DEF Flight
  <2>4. Concerned' => Concerned
    BY <1>0, <2>1, <2>2 DEF Concerned, Working, InCode, Lost, IsOpen, Doomed, RollsBack
  <2> QED BY <1>0, <2>1, <2>2, <2>3, <2>4, OutsideKeeps
<1> QED BY <1>1, <1>2, <1>3, <1>4 DEF Next

\* So the invariant is inductive.
LEMMA SingleNext ==
    ASSUME OneRequest, SingleInv, [Next]_vars
    PROVE  SingleInv'
<1>1. Inv'
  BY NextInv DEF SingleInv
<1>2. OneEdit'
  BY <1>1, NextOneEdit DEF SingleInv, OneRequest
<1> QED BY <1>1, <1>2, NextTracked DEF SingleInv

\* With a single request, at most one edit is under way. Until an exception may have
\* been caught, nothing ends the transaction before the request fails or is done, the
\* stack has exactly the contexts of the functions it is in, and what the server applied
\* is what they hold, in order.
THEOREM SingleInvariance ==
    ASSUME OneRequest
    PROVE  Spec => []SingleInv
<1>1. Init => SingleInv
  BY SingleInit
<1>2. SingleInv /\ [Next]_vars => SingleInv'
  BY SingleNext
<1> QED BY <1>1, <1>2, PTL DEF Spec

\* If plug-ins let exceptions pass, each popNestedContext takes the context that the
\* matching push put there: the root's until commit(), then one for every provided
\* command and round of triggers.
THEOREM StackMatchesTheFrames ==
    ASSUME OneRequest, ~PluginsCatch
    PROVE  Spec => []StackMatchesFrames
<1>1. SingleInv => StackMatchesFrames
  BY DEF SingleInv, Tracked, StackMatches, StackMatchesFrames, Working, InCode, Lost, Place
<1> QED BY <1>1, SingleInvariance, PTL

\* A step that registers an acceptor is one that sends an edit.
LEMMA AcceptorsGrow ==
    ASSUME OneRequest, ~PluginsCatch, SingleInv, [Next]_vars,
           Len(acceptors') > Len(acceptors)
    PROVE  ~Ending
<1>1. Len(acceptors) \in Nat /\ Len(<<>>) = 0
  BY DEF SingleInv, Inv, TypeOK
<1>2. acceptors' # acceptors /\ acceptors' # <<>>
  BY <1>1
<1>3. CASE UserStep(Owner)
  <2>1. SendsEdit
    BY <1>2, <1>3, UserSendsOneEdit DEF SendsNoEdit, SingleInv
  <2> QED BY <2>1 DEF SendsEdit, SingleInv, Tracked, NotEnding, Working, InCode, Lost
<1>4. CASE Connection \/ Server
  BY <1>2, <1>4
     DEF Connection, Receive, Accepting, Listening, CloseFrame, ConnectionLost,
         StartClosing,
         SocketClosed, Server, ServerExecutes, ServerEnds, ServerIgnores, ServerDrops
<1>5. CASE UNCHANGED vars
  BY <1>2, <1>5 DEF vars
<1> QED BY <1>3, <1>4, <1>5 DEF Next, OneRequest

\* After a close or roll-back message, no edit is sent: it would find no transaction.
THEOREM NoEditsAfterTheEnd ==
    ASSUME OneRequest, ~PluginsCatch
    PROVE  Spec => NoEditAfterEnding
<1>1. SingleInv /\ [Next]_vars => [Len(acceptors') > Len(acceptors) => ~Ending]_vars
  BY AcceptorsGrow
<1> QED BY <1>1, SingleInvariance, PTL DEF Spec, NoEditAfterEnding

-----------------------------------------------------------------------------
(* The request is atomic.                                                  *)

\* The outcome of the refinement mapping.
Outcome == IF status = "failed" THEN "rolledBack" ELSE status

\* A failure is told only while nothing has been committed.
LEMMA NotYetCommitted ==
    ASSUME SingleInv, Place # "done"
    PROVE  Outcome # "committed" /\ answer[Owner] = Unanswered
BY DEF SingleInv, Inv, ToldBeforeClose, Tracked, AnsweredWhenDone, Outcome, Place

\* A step of the request stutters, fails or succeeds in AtomicTransaction.
LEMMA UserIsAtomic ==
    ASSUME OneRequest, ~PluginsCatch, SingleInv, Inv', UserStep(Owner)
    PROVE  [Atomic!ANext]_(Atomic!avars)
<1> USE DEF Atomic!avars
<1>1. CASE SendsEdit \/ Continues
  BY <1>1 DEF SendsEdit, Continues, server
<1>2. CASE Fails
  <2>1. UNCHANGED <<log, status>>
    BY <1>2 DEF Fails, server
  <2>2. CASE Place' = "done"
    <3>1. Place # "done" /\ answer'[Owner] = TransactionClosed
      BY <1>2, <2>2 DEF Fails
    <3>2. Atomic!Fail
      BY <2>1, <3>1, NotYetCommitted DEF Atomic!Fail, Outcome, TransactionClosed,
         Atomic!TransactionClosed
    <3> QED BY <3>2 DEF Atomic!ANext
  <2>3. CASE Place' # "done"
    BY <1>2, <2>1, <2>3 DEF Fails
  <2> QED BY <2>2, <2>3
<1>3. CASE Succeeds
  <2>1. UNCHANGED <<log, status>> /\ Place # "done"
    BY <1>3 DEF Succeeds, server, Quiet, InCode
  <2>2. answer'[Owner] \in [success : {TRUE}, patch : Seq(Edits)]
    <3>1. answer'[Owner] \in Results(Edits) \cup {Unanswered}
      BY ContextAssumption DEF Inv, TypeOK
    <3>2. answer'[Owner] \in Succeeded
      BY <1>3 DEF Succeeds
    <3> QED BY <3>1, <3>2 DEF Results, Succeeded
  <2>3. Atomic!Succeed
    BY <1>3, <2>1, <2>2, NotYetCommitted DEF Atomic!Succeed, Succeeds, Outcome
  <2> QED BY <2>3 DEF Atomic!ANext
<1> QED BY <1>1, <1>2, <1>3, UserStepKind DEF Lost

\* A step of the connection stutters.
LEMMA ConnectionIsAtomic ==
    ASSUME Connection
    PROVE  UNCHANGED Atomic!avars
BY DEF Connection, Receive, CloseFrame, ConnectionLost, StartClosing, SocketClosed, server,
       users,
       Atomic!avars

\* The server handles an edit only while no success was told, and is told to commit
\* only after that.
LEMMA ServerIsAtomic ==
    ASSUME OneRequest, SingleInv, Server
    PROVE  [Atomic!ANext]_(Atomic!avars)
<1> USE DEF Atomic!avars
<1>1. toServer \in Seq(Messages) /\ answer' = answer
  BY DEF SingleInv, Inv, TypeOK, Server, ServerExecutes, ServerEnds, ServerIgnores,
         ServerDrops,
         users
<1>2. ASSUME toServer # <<>>
      PROVE  Head(toServer) = toServer[1] /\ 1 \in DOMAIN toServer
  BY <1>1, <1>2
<1>3. CASE ServerExecutes
  <2> DEFINE e == Head(toServer).edit
  <2>1. /\ status = "open" /\ status' = "open" /\ toServer # <<>>
        /\ Head(toServer).type = "execute"
        /\ log' = log \/ log' = Append(log, e)
    BY <1>3 DEF ServerExecutes
  <2>2. e \in Edits
    <3>1. Head(toServer) \in Messages
      BY <1>1, <2>1
    <3> QED BY <2>1, <3>1 DEF Messages, Terminal
  <2>3. answer[Owner] # Unanswered => ~answer[Owner].success
    BY <1>2, <2>1 DEF SingleInv, Tracked, AnsweredWhenDone, NoEdits, Executes
  <2>4. CASE log' = log
    BY <1>1, <2>1, <2>4
  <2>5. CASE log' = Append(log, e)
    <3> HIDE DEF e
    <3>1. Atomic!Apply(e)
      BY <1>1, <2>1, <2>3, <2>5 DEF Atomic!Apply
    <3> QED BY <2>2, <3>1 DEF Atomic!ANext
  <2> QED BY <2>1, <2>4, <2>5
<1>4. CASE ServerEnds
  <2>1. CASE Head(toServer).type = "close" /\ status' = "committed" /\ log' = log
    <3>1. status = "open" /\ toServer # <<>>
      BY <1>4 DEF ServerEnds
    <3>2. Closes(toServer)
      BY <1>2, <2>1, <3>1 DEF Closes
    <3>3. answer[Owner] # Unanswered /\ answer[Owner].success
      BY <3>2 DEF SingleInv, Inv, ToldBeforeClose
    <3>4. Atomic!Commit
      BY <1>1, <2>1, <3>1, <3>3 DEF Atomic!Commit
    <3> QED BY <3>4 DEF Atomic!ANext
  <2>2. CASE status' = "rolledBack" /\ log' = <<>>
    <3>1. Atomic!Discard
      BY <1>1, <1>4, <2>2 DEF Atomic!Discard, ServerEnds
    <3> QED BY <3>1 DEF Atomic!ANext
  <2> QED BY <1>4, <2>1, <2>2 DEF ServerEnds
<1>5. CASE ServerIgnores
  BY <1>1, <1>5 DEF ServerIgnores, server
<1>6. CASE ServerDrops
  <2>1. Atomic!Discard
    BY <1>1, <1>6 DEF Atomic!Discard, ServerDrops
  <2> QED BY <2>1 DEF Atomic!ANext
<1> QED BY <1>3, <1>4, <1>5, <1>6 DEF Server

\* So every step of TransactionContext is one of AtomicTransaction, or stutters there.
LEMMA NextIsAtomic ==
    ASSUME OneRequest, ~PluginsCatch, SingleInv, [Next]_vars
    PROVE  [Atomic!ANext]_(Atomic!avars)
<1>1. Inv'
  BY NextInv DEF SingleInv
<1>2. CASE UserStep(Owner)
  BY <1>1, <1>2, UserIsAtomic
<1>3. CASE Connection
  BY <1>3, ConnectionIsAtomic
<1>4. CASE Server
  BY <1>4, ServerIsAtomic
<1>5. CASE UNCHANGED vars
  BY <1>5 DEF vars, server, users, Atomic!avars
<1> QED BY <1>2, <1>3, <1>4, <1>5 DEF Next, OneRequest

\* The request, its transaction and the connection implement AtomicTransaction: a
\* success answer reports exactly the edits applied, none is applied after it, and
\* they become permanent together and only then; otherwise all are discarded.
THEOREM RequestIsAtomic ==
    ASSUME OneRequest, ~PluginsCatch
    PROVE  Spec => IsAtomic
<1>1. Init => Atomic!AInit
  BY ContextAssumption DEF Init, Atomic!AInit
<1>2. SingleInv /\ [Next]_vars => [Atomic!ANext]_(Atomic!avars)
  BY NextIsAtomic
<1> QED BY <1>1, <1>2, SingleInvariance, PTL DEF Spec, IsAtomic, Atomic!ASpec

-----------------------------------------------------------------------------
(* What becomes permanent was reported.                                    *)

\* The server has committed, or will if the connection and it last: the first message
\* that ends the transaction is a close.
Committing ==
    \/ status = "committed"
    \/ /\ status = "open"
       /\ \E i \in DOMAIN toServer :
             /\ toServer[i].type = "close"
             /\ \A j \in 1..(i - 1) : toServer[j].type # "roll-back"

\* Then the answer reports exactly what the server has applied.
Reported ==
    Committing =>
        answer[Owner] # Unanswered /\ answer[Owner].success /\ answer[Owner].patch = log

\* The request closes a transaction only while nothing dooms it, and then its contexts
\* are those it should have.
LEMMA UserReports ==
    ASSUME OneRequest, SingleInv, Inv', UserStep(Owner)
    PROVE  Reported'
<1> SUFFICES ASSUME Committing'
             PROVE  /\ answer'[Owner] # Unanswered /\ answer'[Owner].success
                    /\ answer'[Owner].patch = log'
  BY DEF Reported
<1>1. toServer \in Seq(Messages)
  BY DEF SingleInv, Inv, TypeOK
<1>2. /\ Place # "done" /\ answer[Owner] = Unanswered
      /\ ~Closes(toServer) /\ status # "committed"
  BY UserAnswers
     DEF SingleInv, Inv, ToldBeforeClose, Tracked, AnsweredWhenDone, Place
<1>3. UNCHANGED <<socket, status, log>>
  BY UserSendsOneEdit DEF SingleInv, SendsEdit, SendsNoEdit, server
<1>4. /\ status = "open"
      /\ Closes(toServer')
      /\ toServer' # toServer
  BY <1>2, <1>3 DEF Committing, Closes
<1>5. answer'[Owner] # Unanswered /\ answer'[Owner].success /\ Place' = "done"
  BY <1>4 DEF Inv, ToldBeforeClose, Place
<1>6. SendsNoEdit
  BY <1>5, UserSendsOneEdit DEF SingleInv, SendsEdit
<1>7. IsOpen /\ Extends(toServer', toServer)
  BY <1>4, <1>6 DEF SendsNoEdit
<1>8. ~RollsBack(toServer)
  <2> SUFFICES ASSUME RollsBack(toServer) PROVE FALSE
    OBVIOUS
  <2>1. PICK i \in DOMAIN toServer' :
           /\ toServer'[i].type = "close"
           /\ \A j \in 1..(i - 1) : toServer'[j].type # "roll-back"
    BY <1>3, <1>4 DEF Committing
  <2>2. PICK k \in DOMAIN toServer : toServer[k].type = "roll-back"
    BY DEF RollsBack
  <2>3. k \in DOMAIN toServer' /\ toServer'[k] = toServer[k]
    BY <1>7, <2>2 DEF Extends
  <2>4. i \notin DOMAIN toServer
    BY <1>2, <1>7, <2>1 DEF Extends, Closes
  <2>5. k \in 1..Len(toServer) /\ i \notin 1..Len(toServer) /\ i \in Nat \ {0}
    <3>1. toServer' \in Seq(Messages)
      BY DEF Inv, TypeOK
    <3> QED BY <1>1, <2>1, <2>2, <2>4, <3>1
  <2>6. k \in 1..(i - 1)
    BY <1>1, <2>5
  <2> QED BY <2>1, <2>2, <2>3, <2>6
<1>9. ~Lost
  BY <1>4, <1>7, <1>8 DEF Lost, Doomed
<1>10. Succeeds
  <2>1. ~SendsEdit
    BY <1>5 DEF SendsEdit
  <2>2. ~Continues
    BY <1>4 DEF Continues, wires
  <2>3. ~Fails
    BY <1>5 DEF Fails, TransactionClosed
  <2> QED BY <1>9, <2>1, <2>2, <2>3, UserStepKind
<1> QED BY <1>3, <1>4, <1>5, <1>10 DEF Succeeds

\* While a close message is on its way no edit is, so that the server commits what was
\* reported.
LEMMA ServerReports ==
    ASSUME OneRequest, SingleInv, Reported, Server
    PROVE  Reported'
<1>1. toServer \in Seq(Messages) /\ answer' = answer
  BY DEF SingleInv, Inv, TypeOK, Server, ServerExecutes, ServerEnds, ServerIgnores,
         ServerDrops, users
<1>2. CASE ServerExecutes
  <2>1. /\ status = "open" /\ status' = "open" /\ toServer # <<>>
        /\ Head(toServer).type = "execute" /\ toServer' = Tail(toServer)
    BY <1>2 DEF ServerExecutes
  <2>2. Head(toServer) = toServer[1] /\ 1 \in DOMAIN toServer
    BY <1>1, <2>1, TailNoEdits
  <2>3. ASSUME Committing' PROVE Committing
    <3>1. PICK i \in DOMAIN toServer' :
             /\ toServer'[i].type = "close"
             /\ \A j \in 1..(i - 1) : toServer'[j].type # "roll-back"
      BY <2>1, <2>3 DEF Committing
    <3>2. /\ i \in Nat \ {0} /\ i + 1 \in DOMAIN toServer
          /\ \A j \in 1..i : j \in DOMAIN toServer' /\ toServer'[j] = toServer[j + 1]
      BY <1>1, <2>1, <3>1
    <3>3. ASSUME NEW j \in 1..i PROVE toServer[j].type # "roll-back"
      <4>1. CASE j = 1
        BY <2>1, <2>2, <4>1
      <4>2. CASE j # 1
        <5>1. j - 1 \in 1..(i - 1) /\ j - 1 \in 1..i /\ (j - 1) + 1 = j
          BY <3>2, <4>2
        <5> QED BY <3>1, <3>2, <5>1
      <4> QED BY <4>1, <4>2
    <3>4. toServer[i + 1].type = "close" /\ (i + 1) - 1 = i
      BY <3>1, <3>2
    <3> QED BY <2>1, <3>2, <3>3, <3>4 DEF Committing
  <2>4. ~Committing
    BY <2>1, <2>2 DEF Reported, SingleInv, Tracked, AnsweredWhenDone, NoEdits, Executes
  <2> QED BY <2>3, <2>4 DEF Reported
<1>3. CASE ServerEnds
  <2>1. CASE Head(toServer).type = "close" /\ log' = log
    <3>1. status = "open" /\ toServer # <<>>
      BY <1>3 DEF ServerEnds
    <3>2. Head(toServer) = toServer[1] /\ 1 \in DOMAIN toServer /\ 1..(1 - 1) = {}
      BY <1>1, <3>1
    <3>3. Committing
      BY <2>1, <3>1, <3>2 DEF Committing
    <3> QED BY <1>1, <2>1, <3>3 DEF Reported
  <2>2. CASE status' = "rolledBack"
    BY <2>2 DEF Reported, Committing
  <2> QED BY <1>3, <2>1, <2>2 DEF ServerEnds
<1>4. CASE ServerIgnores
  <2>1. status # "open" /\ UNCHANGED <<status, log>>
    BY <1>4 DEF ServerIgnores, server
  <2> QED BY <1>1, <2>1 DEF Reported, Committing
<1>5. CASE ServerDrops
  BY <1>5 DEF ServerDrops, Reported, Committing
<1> QED BY <1>2, <1>3, <1>4, <1>5 DEF Server

\* So it is kept.
LEMMA NextReports ==
    ASSUME OneRequest, SingleInv, Reported, [Next]_vars
    PROVE  Reported'
<1>1. Inv'
  BY NextInv DEF SingleInv
<1>2. CASE Connection \/ UNCHANGED vars
  <2>1. UNCHANGED <<toServer, status, log, answer>>
    BY <1>2 DEF Connection, Receive, CloseFrame, ConnectionLost, StartClosing, SocketClosed,
                server, users, wires, vars
  <2> QED BY <2>1 DEF Reported, Committing
<1> QED BY <1>1, <1>2, UserReports, ServerReports DEF Next, OneRequest

\* What the server commits is exactly what commit() answered: the changes of every edit
\* that was applied, through all nested contexts and rounds of triggers, in order. This
\* holds even if plug-ins catch exceptions and go on: then a roll-back message is ahead
\* of the close message, or neither can be sent any more.
THEOREM CommitIsReported ==
    ASSUME OneRequest
    PROVE  Spec => []CommitsWhatIsReported
<1>1. Init => Reported
  BY DEF Init, Reported, Committing
<1>2. SingleInv /\ Reported /\ [Next]_vars => Reported'
  BY NextReports
<1>3. SingleInv /\ Reported => CommitsWhatIsReported
  <2> SUFFICES ASSUME SingleInv, Reported, status = "committed"
               PROVE  answer[Owner] = [success |-> TRUE, patch |-> log]
    BY DEF CommitsWhatIsReported
  <2>1. answer[Owner] # Unanswered /\ answer[Owner].success /\ answer[Owner].patch = log
    BY DEF Reported, Committing
  <2>2. answer[Owner] \in Results(Edits)
    BY <2>1, ContextAssumption DEF SingleInv, Inv, TypeOK
  <2> QED BY <2>1, <2>2 DEF Results
<1> QED BY <1>1, <1>2, <1>3, SingleInvariance, PTL DEF Spec
=============================================================================
