------------------------------- MODULE PiWorker -------------------------------
(* A turn of the conversation agent: PiWorkerProcessClient sends ping, start,  *)
(* prompt and close to a worker process over JSONL, PiSupervisor answers each  *)
(* request once and forwards it to Pi, and the reply is the last text before   *)
(* Pi settled.  Answers may time out, workers end, and what a killed worker    *)
(* wrote is still read afterwards.  Turns run one after the other.             *)
EXTENDS Integers, Sequences
CONSTANTS LastTurn,          \* bound: turns 1..LastTurn
          LastWorker,        \* bound: worker processes 1..LastWorker
          MaxReplay,         \* maxReplayEntries of the supervisor
          RotateAfter,       \* completed turns after which the worker is replaced
          MaxWorkerFaults    \* bound: timeouts, exits and refusals of Pi
ASSUME PiWorkerAssumption ==
  /\ LastTurn \in Nat /\ LastWorker \in Nat /\ MaxWorkerFaults \in Nat
  /\ RotateAfter \in Nat \ {0} /\ MaxReplay \in Nat \ {0}
VARIABLES pwUp,          \* the Hub process has not ended
          pwTurn, pwStep,\* the turn at work and what it waits for
          pwChild, pwSpawned,  \* the present worker, the workers started so far
          pwWorker,      \* worker -> session, prompted, replay entries, alive
          pwStdin,       \* worker -> the request it has not taken
          pwStdout,      \* worker -> what the Hub has not read
          pwText,        \* turn whose text came last in the active turn, 0 for none
          pwReply,       \* turn -> 0, Failed or the turn whose text it got
          pwGuilty,      \* turns whose own worker or request went wrong
          pwVerified, pwCompleted, pwFaults
pwVars == <<pwUp, pwTurn, pwStep, pwChild, pwSpawned, pwWorker, pwStdin, pwStdout, pwText,
            pwReply, pwGuilty, pwVerified, pwCompleted, pwFaults>>
Workers == 1..LastWorker
Failed == -1
NoRequest == [op |-> "none", turn |-> 0]
Fresh == [session |-> 0, prompted |-> FALSE, used |-> 0, alive |-> FALSE]
PWInit == /\ pwUp = TRUE /\ pwTurn = 0 /\ pwStep = "idle" /\ pwChild = 0 /\ pwSpawned = 0
          /\ pwWorker = [w \in Workers |-> Fresh] /\ pwStdin = [w \in Workers |-> NoRequest]
          /\ pwStdout = [w \in Workers |-> <<>>] /\ pwText = 0
          /\ pwReply = [t \in 1..LastTurn |-> 0] /\ pwGuilty = {}
          /\ pwVerified = FALSE /\ pwCompleted = 0 /\ pwFaults = 0
Fault == pwFaults < MaxWorkerFaults /\ pwFaults' = pwFaults + 1
Steps == {"ping", "start", "prompt", "close"}

-----------------------------------------------------------------------------
(* The client.  A request starts a worker when there is none.                 *)
Ask(op, turn) ==
  LET w == IF pwChild = 0 THEN pwSpawned + 1 ELSE pwChild IN
  /\ w \in Workers /\ pwStep' = op /\ pwChild' = w
  /\ pwSpawned' = IF pwChild = 0 THEN w ELSE pwSpawned
  /\ pwWorker' = [pwWorker EXCEPT ![w].alive = TRUE]
  /\ pwStdin' = [pwStdin EXCEPT ![w] = [op |-> op, turn |-> turn]]
BeginTurn == /\ pwUp /\ pwStep = "idle" /\ pwTurn < LastTurn /\ pwTurn' = pwTurn + 1
             /\ Ask(IF pwVerified THEN "start" ELSE "ping", pwTurn') /\ pwText' = 0
             /\ UNCHANGED <<pwUp, pwStdout, pwReply, pwGuilty, pwVerified, pwCompleted, pwFaults>>
Fails == pwReply' = [pwReply EXCEPT ![pwTurn] = Failed]
(* #terminate: the worker is killed and whoever waits is rejected.  While the *)
(* prompt is unacknowledged nobody has awaited active.settled yet: its         *)
(* rejection is unhandled and ends the process.  What the killed worker wrote  *)
(* stays to be read, its first record perhaps without its beginning.           *)
Torn(messages) == IF messages = <<>> THEN <<>> ELSE <<[op |-> "torn", turn |-> 0, ok |-> FALSE]>> \o Tail(messages)
Terminate(guilty, out) ==
  /\ pwChild' = 0 /\ pwVerified' = FALSE
  /\ IF pwChild = 0 THEN UNCHANGED <<pwWorker, pwStdin>> /\ pwStdout' = out
     ELSE /\ pwWorker' = [pwWorker EXCEPT ![pwChild].alive = FALSE]
          /\ pwStdin' = [pwStdin EXCEPT ![pwChild] = NoRequest]
          /\ \E rest \in {out[pwChild], Torn(out[pwChild])} : pwStdout' = [out EXCEPT ![pwChild] = rest]
  /\ pwStep' = "idle" /\ pwUp' = (pwStep # "prompt")
  /\ pwGuilty' = IF guilty THEN pwGuilty \union {pwTurn} ELSE pwGuilty
  /\ IF pwStep \in {"ping", "start", "prompt", "settle"} THEN Fails ELSE UNCHANGED pwReply
  /\ UNCHANGED <<pwTurn, pwSpawned, pwText>>
Timeout == /\ pwUp /\ pwStep \in Steps \union {"settle"} /\ Fault
           /\ Terminate(TRUE, pwStdout) /\ UNCHANGED pwCompleted
WorkerExits == /\ pwUp /\ pwChild # 0 /\ Fault
               /\ Terminate(TRUE, pwStdout) /\ UNCHANGED pwCompleted
(* The turn is over for its caller; the session is closed before the next one. *)
Close(reply) == /\ pwReply' = [pwReply EXCEPT ![pwTurn] = reply]
                /\ pwGuilty' = IF reply = Failed THEN pwGuilty \union {pwTurn} ELSE pwGuilty
                /\ Ask("close", pwTurn)
Refused == IF pwStep = "prompt" THEN Close(Failed) /\ UNCHANGED pwUp
           ELSE /\ pwStep' = "idle" /\ Fails /\ pwGuilty' = pwGuilty \union {pwTurn}
                /\ UNCHANGED <<pwUp, pwChild, pwSpawned, pwWorker, pwStdin>>
Accepted ==
  /\ IF pwStep = "prompt" THEN pwStep' = "settle" /\ UNCHANGED <<pwChild, pwSpawned, pwWorker, pwStdin>>
     ELSE Ask(IF pwStep = "ping" THEN "start" ELSE "prompt", pwTurn)
  /\ UNCHANGED <<pwUp, pwReply, pwGuilty>>
IsAwaited(message) == message.op = pwStep /\ message.turn = pwTurn
HandleResponse(w, message, out) ==
  \/ /\ ~IsAwaited(message) /\ Terminate(w = pwChild, out) /\ UNCHANGED pwCompleted
  \/ /\ IsAwaited(message) /\ pwStep # "close"
     /\ IF message.ok THEN Accepted ELSE Refused
     /\ pwStdout' = out /\ pwVerified' = (pwVerified \/ (pwStep = "ping" /\ message.ok))
     /\ UNCHANGED <<pwTurn, pwText, pwCompleted>>
  \/ /\ IsAwaited(message) /\ pwStep = "close" /\ message.ok /\ pwCompleted + 1 < RotateAfter
     /\ pwCompleted' = pwCompleted + 1 /\ pwStep' = "idle" /\ pwStdout' = out
     /\ UNCHANGED <<pwUp, pwTurn, pwChild, pwSpawned, pwWorker, pwStdin, pwText, pwReply, pwGuilty, pwVerified>>
  \/ /\ IsAwaited(message) /\ pwStep = "close" /\ ~(message.ok /\ pwCompleted + 1 < RotateAfter)
     /\ pwCompleted' = IF message.ok THEN 0 ELSE pwCompleted
     /\ Terminate(FALSE, out)
\* Faulty variant: an event of an earlier turn counts for this one.
AnyEvent(message) == pwStep \in {"prompt", "settle"}
OfActiveTurn(message) == pwStep \in {"prompt", "settle"} /\ message.turn = pwTurn
HandleEvent(message, out) ==
  /\ UNCHANGED <<pwUp, pwTurn, pwVerified, pwCompleted>>
  /\ \/ /\ OfActiveTurn(message) /\ message.op = "settled" /\ pwStep = "settle" /\ pwStdout' = out
        /\ Close(IF pwText = 0 THEN Failed ELSE pwText) /\ UNCHANGED pwText
     \/ /\ ~(OfActiveTurn(message) /\ message.op = "settled") /\ pwStdout' = out
        /\ pwText' = IF OfActiveTurn(message) THEN message.turn ELSE pwText
        /\ UNCHANGED <<pwStep, pwChild, pwSpawned, pwWorker, pwStdin, pwReply, pwGuilty>>
(* Output is read in the order of each worker, also of a killed one.  Pi       *)
(* acknowledges a prompt before it settles.                                    *)
ReadOutput(w) ==
  /\ pwUp /\ pwStdout[w] # <<>>
  /\ LET message == Head(pwStdout[w]) out == [pwStdout EXCEPT ![w] = Tail(@)] IN
       \/ message.op = "torn" /\ Terminate(w = pwChild, out) /\ UNCHANGED pwCompleted
       \/ message.op \in Steps /\ HandleResponse(w, message, out)
       \/ message.op \in {"text", "settled"} /\ HandleEvent(message, out)
  /\ UNCHANGED pwFaults

-----------------------------------------------------------------------------
(* The supervisor: requests in order, each remembered for its replay; the full *)
(* cache refuses new ones; one external Pi session at a time.                   *)
Say(w, messages) == pwStdout' = [pwStdout EXCEPT ![w] = @ \o messages]
Response(request, ok) == [op |-> request.op, turn |-> request.turn, ok |-> ok]
Performs(worker, request) ==
  CASE request.op = "ping" -> worker
    [] request.op = "start" -> [worker EXCEPT !.session = request.turn]
    [] request.op = "prompt" -> [worker EXCEPT !.prompted = TRUE]
    [] request.op = "close" -> [worker EXCEPT !.session = 0, !.prompted = FALSE]
Dispatchable(worker, request) ==
  CASE request.op = "ping" -> TRUE
    [] request.op = "start" -> worker.session = 0
    [] OTHER -> worker.session = request.turn
\* Faulty variant: no bound on the requests remembered.
AnyReplayCapacity(worker) == TRUE
HasReplayCapacity(worker) == worker.used < MaxReplay
Supervise(w) ==
  LET request == pwStdin[w] worker == pwWorker[w] IN
  /\ worker.alive /\ request # NoRequest
  /\ pwStdin' = [pwStdin EXCEPT ![w] = NoRequest]
  /\ \/ /\ HasReplayCapacity(worker) /\ Dispatchable(worker, request)
        /\ pwWorker' = [pwWorker EXCEPT ![w] = [Performs(worker, request) EXCEPT !.used = @ + 1]]
        /\ Say(w, <<Response(request, TRUE)>>) /\ UNCHANGED pwFaults
     \/ /\ HasReplayCapacity(worker) /\ request.op \in {"start", "prompt"} /\ Fault
        /\ pwWorker' = [pwWorker EXCEPT ![w].used = @ + 1]
        /\ Say(w, <<Response(request, FALSE)>>)
     \/ /\ ~HasReplayCapacity(worker) \/ ~Dispatchable(worker, request)
        /\ Say(w, <<Response(request, FALSE)>>) /\ UNCHANGED <<pwWorker, pwFaults>>
  /\ UNCHANGED <<pwUp, pwTurn, pwStep, pwChild, pwSpawned, pwText, pwReply, pwGuilty, pwVerified, pwCompleted>>
(* Pi writes the text of the turn, or none, and settles.                        *)
PiSettles(w, texts) ==
  /\ pwWorker[w].alive /\ pwWorker[w].prompted
  /\ pwWorker' = [pwWorker EXCEPT ![w].prompted = FALSE]
  /\ LET event(kind) == [op |-> kind, turn |-> pwWorker[w].session, ok |-> TRUE] IN
       Say(w, (IF texts THEN <<event("text")>> ELSE <<>>) \o <<event("settled")>>)
  /\ UNCHANGED <<pwUp, pwTurn, pwStep, pwChild, pwSpawned, pwStdin, pwText, pwReply, pwGuilty,
                 pwVerified, pwCompleted, pwFaults>>

PWNext == \/ BeginTurn
          \/ Timeout
          \/ WorkerExits
          \/ \E w \in Workers :
               \/ ReadOutput(w)
               \/ Supervise(w)
               \/ \E texts \in BOOLEAN : PiSettles(w, texts)
PWSpec == PWInit /\ [][PWNext]_pwVars

-----------------------------------------------------------------------------
PWTypeOK ==
  /\ pwTurn \in 0..LastTurn /\ pwStep \in Steps \union {"idle", "settle"}
  /\ pwChild \in 0..pwSpawned /\ pwSpawned \in 0..LastWorker /\ pwText \in 0..LastTurn
  /\ \A w \in Workers : pwWorker[w].used \in 0..MaxReplay /\ pwWorker[w].session \in 0..LastTurn
(* The reply of a turn is text Pi wrote for this turn, whatever timed out, was *)
(* killed or is still read from an earlier worker (pi-worker-client.ts).       *)
AnswersItsTurn == \A t \in 1..LastTurn : pwReply[t] \in {0, t, Failed}
(* A worker that ends, or answers too late, fails the turn it worked for and   *)
(* nothing else: neither another turn nor the Hub (docs/architecture.md:129).  *)
OnlyItsTurnFails == pwUp /\ \A t \in 1..LastTurn : pwReply[t] = Failed => t \in pwGuilty
=============================================================================
