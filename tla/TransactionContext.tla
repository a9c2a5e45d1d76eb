-------------------------- MODULE TransactionContext --------------------------
(***************************************************************************)
(* DefaultTransactionContext (client/model-server-client.ts) with an open  *)
(* socket, used by edit requests the way EditService uses it               *)
(* (services/edit-service.ts).  Owner is the request whose openTransaction *)
(* created the context; every other user found it registered and got a     *)
(* child, which shares its socket and its stack of nested contexts.        *)
(*                                                                         *)
(* Each user runs a stack of functions (frames): the edit it provides, the *)
(* transaction functions of command providers called within it and, during *)
(* the owner's commit, those of trigger providers.  Plug-in code is        *)
(* external: a function makes any edits, then returns true or false.  The  *)
(* code between two awaits is one action.  The awaited UUID is known here, *)
(* so only microtasks come between a call and the message it sends: the    *)
(* two are one step.  An answer that performLiveValidation delays is given *)
(* at once: it never rejects.  The edit of a request without triggers that *)
(* no plug-in provides does not run in the transaction at all, and has no  *)
(* part here.                                                              *)
(***************************************************************************)
EXTENDS UpdateResults, Naturals, SequencesExt, FiniteSetsExt

CONSTANTS Users,         \* the edit requests that share the context
          Owner,         \* the one that opened it
          MaxEdits,      \* bound: edits attempted
          MaxContexts,   \* bound: nested contexts ever pushed
          PluginsCatch,  \* whether plug-in functions catch a failed edit and go on
          Unanswered

ASSUME ContextAssumption == /\ IsFiniteSet(Users)
                            /\ Owner \in Users
                            /\ MaxEdits \in Nat
                            /\ MaxContexts \in Nat \ {0}
                            /\ PluginsCatch \in BOOLEAN
                            /\ Unanswered \notin Results(1..MaxEdits)

VARIABLES
  socket,     \* "open", "closing" (the close event is due) or "closed"
  toServer,   \* messages on their way to the upstream server
  toClient,   \* replies on their way back
  status,     \* the upstream server's transaction
  log,        \* the edits it has applied in it
  heap,       \* every aggregated result ever pushed; a context is its index
  nested,     \* nestedContexts
  acceptors,  \* the message acceptors on the socket, in order of registration
  edits,      \* the number of edits attempted so far; it names the next one
  frames,     \* of each user, the functions it is in, outermost first
  pc,         \* of each user, where the innermost one stands
  update,     \* the updateResult that the owner's commit aggregates into
  answer      \* of each user, the result that its request was answered with

server  == <<status, log>>
wires   == <<toServer, toClient>>
results == <<heap, nested>>
users   == <<frames, pc, update, answer>>
vars    == <<socket, wires, server, results, acceptors, edits, users>>

Edits    == 1..MaxEdits
Contexts == 1..MaxContexts
Terminal == {"close", "roll-back"}
Messages == [type : {"execute"}, edit : Edits] \cup [type : Terminal]
Replies  == [edit : Edits, result : Results(Edits)]

\* The provided edit is the function of a plug-in, or a command or patch that
\* EditService's own function makes: still to be made ("edit"), made ("edited"), and
\* failed by the server ("refused").  "balked" stands for it once a round of triggers
\* returned false.  The code looks at neither of the last two.
Provided == {"edit", "edited", "refused", "function", "balked"}
Frames   == Provided \cup {"command", "triggers"}

Init == /\ socket = "open"
        /\ toServer = <<>> /\ toClient = <<>>
        /\ status = "open" /\ log = <<>>
        /\ heap = <<FreshResult>> /\ nested = <<1>>  \* pushed by open()
        /\ acceptors = <<>>
        /\ edits = 0
        /\ frames = [u \in Users |-> <<>>]
        /\ pc = [u \in Users |-> "idle"]
        /\ update = 1
        /\ answer = [u \in Users |-> Unanswered]

-----------------------------------------------------------------------------
(* The stack of nested contexts.                                           *)

IsOpen == socket = "open"
Top(u) == Last(frames[u])

CanPush == Len(heap) < MaxContexts

\* A bug it could have: a context is pushed only where there is none.
PushFirstOnly == IF nested = <<>>
                 THEN heap' = Append(heap, FreshResult) /\ nested' = <<Len(heap) + 1>>
                 ELSE UNCHANGED <<heap, nested>>

\* pushNestedContext.
PushContext == /\ CanPush
               /\ heap' = Append(heap, FreshResult)
               /\ nested' = Append(nested, Len(heap) + 1)

\* Bugs popNestedContext could have: what was popped is lost to the parent, or comes
\* before what the parent had.
PopWithoutMerge == heap
PopPrepends ==
    IF Len(nested) = 1 THEN heap
    ELSE [heap EXCEPT ![nested[Len(nested) - 1]] = Merge(heap[Last(nested)], @)]

\* popNestedContext on a stack that is not empty (StackCoversFrames): the results
\* once the deepest context was merged into the one below it.
HeapAfterPop ==
    IF Len(nested) = 1 THEN heap
    ELSE [heap EXCEPT ![nested[Len(nested) - 1]] = Merge(@, heap[Last(nested)])]

\* Another one: it peeks where it should pop.
PeekContext == heap' = HeapAfterPop /\ nested' = nested

PopContext == /\ heap' = HeapAfterPop
              /\ nested' = Front(nested)

-----------------------------------------------------------------------------
(* Messages sent and requests answered.                                    *)

\* Bugs it could have: the message type is spelt differently from the protocol's, or is
\* that of the other terminal message.
MisspeltRollBack(wire) == IF IsOpen THEN Append(wire, [type |-> "rollback"]) ELSE wire
RollBackCloses(wire) == IF IsOpen THEN Append(wire, [type |-> "close"]) ELSE wire

\* rollback(): tells the server if the socket is open, and leaves it open.
RolledBack(wire) == IF IsOpen THEN Append(wire, [type |-> "roll-back"]) ELSE wire

\* EditService's catch, and its rollback of a function that returned false: the
\* request fails.
AnswerFailure(u) == /\ answer' = [answer EXCEPT ![u] = TransactionClosed]
                    /\ pc' = [pc EXCEPT ![u] = "done"]

\* The end of commit(), with its updateResult.  A socket that is closing drops the
\* message silently; one that has closed is undefined, and the TypeError makes
\* EditService roll back, which no longer sends anything.
SendClose(u, updateResult) ==
    /\ toServer' = IF IsOpen THEN Append(toServer, [type |-> "close"]) ELSE toServer
    /\ answer' = [answer EXCEPT ![u] =
                    IF socket = "closed" THEN TransactionClosed ELSE updateResult]
    /\ pc' = [pc EXCEPT ![u] = "done"]

\* The head of commit()'s loop: ask for triggers if there are changes, else end.
CommitLoop(u, modelDelta, updateResult) ==
    IF modelDelta = <<>>
    THEN SendClose(u, updateResult)
    ELSE /\ pc' = [pc EXCEPT ![u] = "committing"]
         /\ UNCHANGED <<toServer, answer>>

\* A bug autoRollback could have: it does not rethrow.
Swallow(u) == pc' = [pc EXCEPT ![u] = "running"]

\* The call that user u awaits ends in an exception.
Throw(u) == pc' = [pc EXCEPT ![u] = "throwing"]

-----------------------------------------------------------------------------
(* Edits.                                                                  *)

\* Bound: an edit is left for every other request that has its own still to make.
EditsLeft(u) ==
    edits + Cardinality({v \in Users \ {u} : frames[v] \in {<<>>, <<"edit">>}}) < MaxEdits

\* The function may make an edit.
MayEdit(u) == pc[u] = "running" /\ Top(u) \notin {"edited", "refused"} /\ EditsLeft(u)

\* An edit that EditService makes itself is made once.
Spend(u) == frames' = [frames EXCEPT ![u] =
                         IF Last(@) = "edit" THEN Append(Front(@), "edited") ELSE @]

\* sendExecuteMessage on an open socket.  The edit's result will be merged into the
\* context that is current now (StackCoversFrames: there is one).
SendExecute(u) ==
    /\ edits' = edits + 1
    /\ acceptors' = Append(acceptors,
           [user |-> u, edit |-> edits + 1, current |-> Last(nested)])
    /\ toServer' = Append(toServer, [type |-> "execute", edit |-> edits + 1])
    /\ pc' = [pc EXCEPT ![u] = "awaiting"]

\* applyPatch, or execute of a command that no plug-in provides.
Edit(u) == /\ MayEdit(u)
           /\ Spend(u)
           /\ IF IsOpen
              THEN SendExecute(u)
              ELSE Throw(u) /\ edits' = edits + 1 /\ UNCHANGED <<acceptors, toServer>>
           /\ UNCHANGED <<socket, toClient, server, results, update, answer>>

\* execute of a command that a plug-in provides: ask it.
ExecuteProvided(u) ==
    /\ MayEdit(u)
    /\ IsOpen
    /\ Spend(u)
    /\ edits' = edits + 1
    /\ pc' = [pc EXCEPT ![u] = "providing"]
    /\ UNCHANGED <<socket, wires, server, results, acceptors, update, answer>>

\* The provider gives a substitute command or patch.
ProvideSubstitute(u) ==
    /\ pc[u] = "providing"
    /\ EditsLeft(u)
    /\ IF IsOpen
       THEN SendExecute(u)
       ELSE Throw(u) /\ edits' = edits + 1 /\ UNCHANGED <<acceptors, toServer>>
    /\ UNCHANGED <<socket, toClient, server, results, frames, update, answer>>

\* The provider gives a transaction function, run in a nested context.
ProvideFunction(u) ==
    /\ pc[u] = "providing"
    /\ PushContext
    /\ frames' = [frames EXCEPT ![u] = Append(@, "command")]
    /\ pc' = [pc EXCEPT ![u] = "running"]
    /\ UNCHANGED <<socket, wires, server, acceptors, edits, update, answer>>

\* The provider fails.
ProvideFails(u) ==
    /\ pc[u] = "providing"
    /\ toServer' = RolledBack(toServer)
    /\ Throw(u)
    /\ UNCHANGED <<socket, toClient, server, results, acceptors, edits, frames, update, answer>>

\* A command's function returns: its context is popped either way, and false
\* rejects the edit, which rolls the transaction back.
CommandReturns(u) ==
    /\ pc[u] = "running"
    /\ Top(u) = "command"
    /\ frames' = [frames EXCEPT ![u] = Front(@)]
    /\ \E success \in BOOLEAN :
          IF success
          THEN UNCHANGED <<toServer, pc>>
          ELSE toServer' = RolledBack(toServer) /\ Throw(u)
    /\ PopContext
    /\ UNCHANGED <<socket, toClient, server, acceptors, edits, update, answer>>

-----------------------------------------------------------------------------
(* Replies and the end of the connection.                                  *)

\* A bug that the acceptance of a reply could have: a failure is not accepted.
DropsFailures(reply) == IF reply.result.success THEN acceptors ELSE <<>>

\* The acceptors that take a message: all there are, whichever edit it answers.
Accepting(reply) == acceptors

\* A bug that handleMessage could have: an acceptor goes on listening.
KeepsListening(takers) == acceptors

\* The acceptors left after some took a message: these stop listening.
Listening(takers) == IF takers = <<>> THEN acceptors ELSE <<>>

\* The results once each of these acceptors merged one into its context.
MergeAll(h, takers, result) ==
    FoldSeq(LAMBDA a, merged : [merged EXCEPT ![a.current] = Merge(@, result)], h, takers)

\* A message: every acceptor takes it, in order, merges it and resumes its user.
Receive ==
    /\ IsOpen
    /\ toClient # <<>>
    /\ LET reply == Head(toClient)
           takers == Accepting(reply)
       IN /\ heap' = MergeAll(heap, takers, reply.result)
          /\ pc' = [u \in Users |->
                      IF \E i \in DOMAIN takers : takers[i].user = u THEN "running" ELSE pc[u]]
          /\ frames' = [u \in Users |->
                           IF /\ ~reply.result.success
                              /\ frames[u] = <<"edited">>
                              /\ \E i \in DOMAIN takers : takers[i].user = u
                           THEN <<"refused">> ELSE frames[u]]
          /\ acceptors' = Listening(takers)
    /\ toClient' = Tail(toClient)
    /\ UNCHANGED <<socket, toServer, server, nested, edits, update, answer>>

\* The socket starts closing: the server ended the transaction and all it sent has
\* arrived, or the connection is lost, with the replies under way on it.
StartClosing == /\ IsOpen
                /\ socket' = "closing"
                /\ toClient' = <<>>
                /\ UNCHANGED <<toServer, server, results, acceptors, edits, users>>

CloseFrame     == status # "open" /\ toClient = <<>> /\ StartClosing
ConnectionLost == status = "open" /\ StartClosing

\* The close event: the acceptors reject.  The rollback this causes in each user
\* finds the socket closed and sends nothing.
SocketClosed ==
    /\ socket = "closing"
    /\ socket' = "closed"
    /\ pc' = [u \in Users |-> IF pc[u] = "awaiting" THEN "throwing" ELSE pc[u]]
    /\ acceptors' = <<>>
    /\ UNCHANGED <<wires, server, results, edits, frames, update, answer>>

-----------------------------------------------------------------------------
(* Exceptions.                                                             *)

\* A plug-in's function catches the exception of an edit and goes on.
Catch(u) == /\ PluginsCatch
            /\ pc[u] = "throwing"
            /\ Top(u) \in {"function", "command", "triggers"}
            /\ pc' = [pc EXCEPT ![u] = "running"]
            /\ UNCHANGED <<socket, wires, server, results, acceptors, edits, frames, update, answer>>

\* It leaves a command's function: execute() rolls back, and nothing is popped.
ThrowFromCommand(u) ==
    /\ pc[u] = "throwing"
    /\ Top(u) = "command"
    /\ frames' = [frames EXCEPT ![u] = Front(@)]
    /\ toServer' = RolledBack(toServer)
    /\ UNCHANGED <<socket, toClient, server, results, acceptors, edits, pc, update,
                   answer>>

\* It leaves the triggers' function: performTriggers pops, commit() rejects, and
\* EditService rolls back.
ThrowFromTriggers(u) ==
    /\ pc[u] = "throwing"
    /\ Top(u) = "triggers"
    /\ frames' = [frames EXCEPT ![u] = Front(@)]
    /\ PopContext
    /\ toServer' = RolledBack(toServer)
    /\ AnswerFailure(u)
    /\ UNCHANGED <<socket, toClient, server, acceptors, edits, update>>

\* It leaves the provided edit: EditService rolls back.
ThrowFromProvided(u) ==
    /\ pc[u] = "throwing"
    /\ Top(u) \in Provided
    /\ toServer' = RolledBack(toServer)
    /\ AnswerFailure(u)
    /\ UNCHANGED <<socket, toClient, server, results, acceptors, edits, frames, update>>

-----------------------------------------------------------------------------
(* A request from its beginning to its answer.                             *)

\* The edit that the request provides starts; a child pushes its context.  The
\* context is registered until its close event.
Begin(u) ==
    /\ pc[u] = "idle"
    /\ socket # "closed"
    /\ IF u = Owner THEN UNCHANGED results ELSE PushContext
    /\ \E provided \in {"edit", "function"} :
          frames' = [frames EXCEPT ![u] = <<provided>>]
    /\ pc' = [pc EXCEPT ![u] = "running"]
    /\ UNCHANGED <<socket, wires, server, acceptors, edits, update, answer>>

\* The provided edit has run.  (EditService's own function returns true whatever
\* result its edit had.)
Ran(u) == pc[u] = "running" /\ Top(u) \in {"edited", "refused", "function"}

\* A plug-in's function returned false.
Balk(u) == /\ Ran(u)
           /\ Top(u) = "function"
           /\ toServer' = RolledBack(toServer)
           /\ AnswerFailure(u)
           /\ UNCHANGED <<socket, toClient, server, results, acceptors, edits, frames,
                          update>>

\* It returned true.  A child's commit() only pops its context; the root's pops and,
\* unless the socket is closed, starts on the triggers.
Commit(u) ==
    /\ Ran(u)
    /\ PopContext
    /\ update' = IF u = Owner THEN Last(nested) ELSE update
    /\ LET result == heap[Last(nested)]
       IN IF u = Owner /\ IsOpen
          THEN CommitLoop(u, result.patch, result)
          ELSE /\ answer' = [answer EXCEPT ![u] =
                               IF u = Owner THEN TransactionClosed ELSE result]
               /\ pc' = [pc EXCEPT ![u] = "done"]
               /\ UNCHANGED <<toServer>>
    /\ UNCHANGED <<socket, toClient, server, acceptors, edits, frames>>

\* No trigger applies to the changes.
NoTriggers(u) ==
    /\ pc[u] = "committing"
    /\ CommitLoop(u, <<>>, heap[update])
    /\ UNCHANGED <<socket, toClient, server, results, acceptors, edits, frames, update>>

\* A trigger provider fails: autoRollback and EditService's catch both roll back.
TriggersFail(u) ==
    /\ pc[u] = "committing"
    /\ toServer' = RolledBack(RolledBack(toServer))
    /\ AnswerFailure(u)
    /\ UNCHANGED <<socket, toClient, server, results, acceptors, edits, frames, update>>

\* Triggers apply: performTriggers runs them in a nested context.  (A trigger patch
\* is a function that makes one edit.)
Triggers(u) ==
    /\ pc[u] = "committing"
    /\ PushContext
    /\ frames' = [frames EXCEPT ![u] = Append(@, "triggers")]
    /\ pc' = [pc EXCEPT ![u] = "running"]
    /\ UNCHANGED <<socket, wires, server, acceptors, edits, update, answer>>

\* Their function returns, true or false: its changes are merged and may trigger
\* more.
TriggersReturn(u) ==
    /\ pc[u] = "running"
    /\ Top(u) = "triggers"
    /\ \E balks \in BOOLEAN :
          frames' = [frames EXCEPT ![u] = IF balks THEN <<"balked">> ELSE Front(@)]
    /\ nested' = Front(nested)
    /\ LET result == heap[Last(nested)]
       IN /\ heap' = [HeapAfterPop EXCEPT ![update] = Merge(@, result)]
          /\ CommitLoop(u, result.patch, Merge(heap[update], result))
    /\ UNCHANGED <<socket, toClient, server, acceptors, edits, update>>

-----------------------------------------------------------------------------
(* The upstream server.                                                    *)

\* It applies the edit, finds nothing to change, or reports a failure.
Reply(e, success, patch) ==
    toClient' = IF IsOpen
                THEN Append(toClient, [edit |-> e,
                                       result |-> [success |-> success, patch |-> patch]])
                ELSE toClient

ServerExecutes ==
    /\ status = "open"
    /\ toServer # <<>>
    /\ Head(toServer).type = "execute"
    /\ toServer' = Tail(toServer)
    /\ LET e == Head(toServer).edit
       IN \/ log' = Append(log, e) /\ Reply(e, TRUE, <<e>>)
          \/ \E success \in BOOLEAN : log' = log /\ Reply(e, success, <<>>)
    /\ UNCHANGED <<socket, status, results, acceptors, edits, users>>

ServerEnds ==
    /\ status = "open"
    /\ toServer # <<>>
    /\ toServer' = Tail(toServer)
    /\ \/ Head(toServer).type = "close" /\ status' = "committed" /\ log' = log
       \/ Head(toServer).type = "roll-back" /\ status' = "rolledBack" /\ log' = <<>>
    /\ UNCHANGED <<socket, toClient, results, acceptors, edits, users>>

\* Once the transaction has ended, messages find nobody.
ServerIgnores ==
    /\ status # "open"
    /\ toServer # <<>>
    /\ toServer' = Tail(toServer)
    /\ UNCHANGED <<socket, toClient, server, results, acceptors, edits, users>>

\* The server fails the transaction, or sees the connection lost.
ServerDrops ==
    /\ status = "open"
    /\ status' = "failed"
    /\ log' = <<>>
    /\ UNCHANGED <<socket, wires, results, acceptors, edits, users>>

-----------------------------------------------------------------------------
UserStep(u) ==
    \/ Begin(u) \/ Edit(u)
    \/ ExecuteProvided(u) \/ ProvideSubstitute(u) \/ ProvideFunction(u) \/ ProvideFails(u)
    \/ CommandReturns(u) \/ Catch(u)
    \/ ThrowFromCommand(u) \/ ThrowFromTriggers(u) \/ ThrowFromProvided(u)
    \/ Balk(u) \/ Commit(u)
    \/ NoTriggers(u) \/ TriggersFail(u) \/ Triggers(u)
    \/ TriggersReturn(u)

Connection == Receive \/ CloseFrame \/ ConnectionLost \/ SocketClosed

Server == ServerExecutes \/ ServerEnds \/ ServerIgnores \/ ServerDrops

Next == (\E u \in Users : UserStep(u)) \/ Connection \/ Server

Spec == Init /\ [][Next]_vars

\* Plug-in code ends (here: its edits are bounded), messages and close events are
\* delivered, and the upstream server handles what it was sent.  A connection need not
\* be lost.
Fairness == /\ \A u \in Users : WF_vars(UserStep(u))
            /\ WF_vars(Receive \/ CloseFrame \/ SocketClosed)
            /\ WF_vars(ServerExecutes \/ ServerEnds \/ ServerIgnores)

FairSpec == Spec /\ Fairness
-----------------------------------------------------------------------------
(* Properties.                                                             *)

\* The values of the variables; an acceptor always belongs to a user that waits.
TypeOK ==
    /\ socket \in {"open", "closing", "closed"}
    /\ toServer \in Seq(Messages)
    /\ toClient \in Seq(Replies)
    /\ status \in {"open", "committed", "rolledBack", "failed"}
    /\ log \in Seq(Edits)
    /\ heap \in Seq(Results(Edits))
    /\ nested \in Seq(DOMAIN heap)
    /\ acceptors \in Seq([user : {u \in Users : pc[u] = "awaiting"},
                          edit : Edits, current : DOMAIN heap])
    /\ edits \in 0..MaxEdits
    /\ frames \in [Users -> Seq(Frames)]
    /\ pc \in [Users -> {"idle", "running", "providing", "awaiting", "throwing",
                         "committing", "done"}]
    /\ update \in DOMAIN heap
    /\ answer \in [Users -> Results(Edits) \cup {Unanswered}]

InTriggers(u) == \E i \in DOMAIN frames[u] : frames[u][i] = "triggers"

\* The contexts that a user has yet to pop if all goes well.
Due(u) == CASE pc[u] = "idle" -> IF u = Owner THEN 1 ELSE 0
            [] pc[u] = "done" -> 0
            [] OTHER -> Len(frames[u]) - (IF pc[u] = "committing" \/ InTriggers(u) THEN 1 ELSE 0)

\* A single request's nested contexts mirror the functions it is in, so that each
\* pop takes the context that the matching push put there: the root's until
\* commit(), then one for every provided command and every round of triggers.
StackMatchesFrames ==
    pc[Owner] \in {"running", "providing", "awaiting", "committing"} =>
        Len(nested) = Due(Owner)

\* However the pushes and pops of concurrent requests interleave, and whatever
\* exceptions skip a pop, each function finds a context to merge into and to pop.
StackCoversFrames ==
    Len(nested) >= SumFunction([u \in Users |-> Due(u)])

\* An edit resolves with the reply to that edit (plugin-ext executor.ts: `the result
\* of the command's execution').
OwnReply ==
    IsOpen /\ toClient # <<>> =>
        LET reply == Head(toClient)
        IN \A i \in DOMAIN Accepting(reply) : Accepting(reply)[i].edit = reply.edit

\* The client has told the server to end the transaction.
Ending == \/ status \in {"committed", "rolledBack"}
          \/ \E i \in DOMAIN toServer : toServer[i].type \in Terminal

\* After a close or roll-back message no edit is sent: it would find no transaction.
NoEditAfterEnding ==
    [][Len(acceptors') > Len(acceptors) => ~Ending]_vars

\* Every request is answered, whatever the server, the plug-ins and the connection
\* do: no exception is lost on its way to the caller, no reply waited for in vain.
EveryRequestAnswered == \A u \in Users : pc[u] = "running" ~> answer[u] # Unanswered

\* The single request is atomic and its answer truthful: see AtomicTransaction.
Atomic == INSTANCE AtomicTransaction
    WITH outcome <- IF status = "failed" THEN "rolledBack" ELSE status,
         answer <- answer[Owner]

IsAtomic == Atomic!ASpec

\* What becomes permanent is what the owner's request was told, edit by edit: no merge
\* into a parent or into commit()'s result loses one, repeats one or moves one.
CommitsWhatIsReported ==
    status = "committed" => answer[Owner] = [success |-> TRUE, patch |-> log]

\* The edits become permanent only once the owner was told of success, whatever the
\* other requests did to the stack and to the acceptors.
CommitsOnlyOnSuccess ==
    status = "committed" => answer[Owner] # Unanswered /\ answer[Owner].success

\* A command or patch that the server failed is not answered with success.
FailedEditIsReported ==
    \A u \in Users :
        frames[u] = <<"refused">> /\ answer[u] # Unanswered => ~answer[u].success

\* If the transaction of a trigger provider balks, everything is rolled back
\* (trigger-provider-registry.ts: `then roll everything back').
BalkedTriggersRollBack ==
    \A u \in Users :
        frames[u] = <<"balked">> /\ answer[u] # Unanswered => ~answer[u].success
=============================================================================
