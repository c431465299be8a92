----------------------------- MODULE DuelSession -----------------------------
(***************************************************************************)
(* A running duel: DuelSession drives the external core and hands its      *)
(* messages to ServerDuelHandler or SoloDuelHandler; DuelManager brings in *)
(* the answers and ends the duel; each human's ClientDuelState answers at  *)
(* most once per prompt.                                                   *)
(*                                                                         *)
(* All server code runs on one thread.  While it runs, a listener may end  *)
(* the duel and close the session that is still on the call stack, and the *)
(* answer of the AI re-enters the engine from inside the handling of an    *)
(* earlier one.  `thread` is where that thread is; packets of the players  *)
(* and ends from outside are handled only when it is idle.  Answers carry  *)
(* no mark of the prompt they were given for: the `of` they have here is   *)
(* history, and the code must not depend on it.                            *)
(***************************************************************************)
EXTENDS Naturals, Sequences

CONSTANTS
    MaxPrompts  \* bound on the times the core goes on in one duel

ASSUME PromptAssumption == MaxPrompts \in Nat

VARIABLES
    core,       \* external: the duel in the engine
    session,    \* DuelSession, and whether DuelManager.activeDuels has it
    handler,    \* the listener: a SoloDuelHandler or a ServerDuelHandler, and its fields
    thread,     \* the server thread inside this duel
    client,     \* ClientDuelState of each human
    toClient,   \* packets on their way to each human
    toServer,   \* responses on their way from each human
    results,    \* history: the DuelEndPayloads sent to each human
    misuse      \* history: a native call was made after nDestroyDuel

vars == <<core, session, handler, thread, client, toClient, toServer, results, misuse>>

Seats == {0, 1}
HUMAN_PLAYER == 0
AI == 1
Solo == handler.solo
Humans == IF Solo THEN {HUMAN_PLAYER} ELSE Seats
NoSeat == 2         \* -1 in the code
NoPrompt == 0       \* prompts are numbered from 1
MAX_AI_RETRIES == 3

\* choice: any prompt both a human and the AI can answer.  declare: one the AI has no
\* answer for.  emptyChain: a chain prompt with nothing to chain, not forced.
Kinds == {"choice", "declare", "emptyChain"}

Prompt(seat, kind, id) == [type |-> "prompt", seat |-> seat, kind |-> kind, id |-> id]
Info == [type |-> "info"]
Retry == [type |-> "retry"]
Win == [type |-> "win"]
NoMessage == [type |-> "none"]

Answer(seat, of) == [by |-> seat, of |-> of]
NoAnswer == Answer(NoSeat, NoPrompt)
Pass == Answer(NoSeat, NoPrompt + 1)

DUEL_STATUS_END == 0
DUEL_STATUS_AWAITING == 1
DUEL_STATUS_CONTINUE == 2

Idle == thread.at = "idle"
Goto(place) == thread' = [thread EXCEPT !.at = place]

\* A native call on the handle of the session.
Native == misuse' = (misuse \/ session.closed)

-----------------------------------------------------------------------------
(* The core *)

\* The prompt it waits at, and the answer it was given; prompts: how many there were.
NewCore == [prompt |-> NoMessage, answer |-> NoAnswer, prompts |-> 0]

Waits == core.prompt # NoMessage
Answered == core.answer # NoAnswer

\* The answer is refused: the prompt stays.  A pass is legal where it is used.
Refuses ==
    /\ Waits /\ Answered /\ core.answer # Pass
    /\ core' = [core EXCEPT !.answer = NoAnswer]
    /\ thread' = [thread EXCEPT !.at = "dispatch", !.batch = <<Retry>>,
                                !.status = DUEL_STATUS_AWAITING, !.autoResponded = FALSE]

\* It goes on, to a stop without a prompt, to a prompt, or to the end with or without a
\* winner.  A prompt is the last record of its batch.
GoesOn ==
    /\ Waits => Answered
    /\ core.prompts <= MaxPrompts
    /\ \E seat \in Seats, kind \in Kinds, infos \in {<<>>, <<Info>>} :
        LET id == core.prompts + 1
            prompt == Prompt(seat, kind, id)
            went(stop, last, status) ==
                /\ core' = [prompt |-> stop, answer |-> NoAnswer, prompts |-> id]
                /\ thread' = [thread EXCEPT !.at = "dispatch", !.batch = infos \o last,
                                            !.status = status, !.autoResponded = FALSE]
        IN \/ id <= MaxPrompts /\ went(prompt, <<prompt>>, DUEL_STATUS_AWAITING)
           \/ id <= MaxPrompts /\ went(NoMessage, <<>>, DUEL_STATUS_CONTINUE)
           \/ \E status \in {DUEL_STATUS_CONTINUE, DUEL_STATUS_END} : went(NoMessage, <<Win>>, status)
           \/ went(NoMessage, <<>>, DUEL_STATUS_END)

-----------------------------------------------------------------------------
(* Packets to the humans *)

\* The listener's sends, seat by seat.
Send(packets) ==
    toClient' = [seat \in Seats |-> toClient[seat] \o packets[seat]]

Nothing == [seat \in Seats |-> <<>>]
To(seat, message) == [Nothing EXCEPT ![seat] = <<message>>]

\* Every human is told a result, `times` over.
SendResult(times) == results' = [seat \in Seats |-> results[seat] + (IF seat \in Humans THEN times ELSE 0)]

-----------------------------------------------------------------------------
(* End of the duel *)

\* endDuel: DuelManager forgets the duel and closes the session, once.
EndDuel ==
    /\ session.active
    /\ session' = [session EXCEPT !.active = FALSE, !.closed = TRUE]

\* The session has ended and tells the listener: `complete` ends the duel, after a draw
\* if no win was sent.  `won`: the results just sent.
OnDuelEnd(winSent, won) ==
    /\ session' = [active |-> FALSE, closed |-> TRUE, ended |-> TRUE]
    /\ SendResult(won + (IF winSent \/ ~session.active THEN 0 ELSE 1))

-----------------------------------------------------------------------------
(* Listeners *)

\* ServerDuelHandler.sendToPlayer: the owner gets the message; the other one waits, which
\* changes nothing that can be answered and is left out.
SendToPlayer(seat, message) ==
    /\ handler' = [handler EXCEPT !.pending = seat]
    /\ Send(To(seat, message))

\* Mutant: the prompt goes out without its owner being noted.
ServerPromptOwnerless(message) ==
    UNCHANGED handler /\ Send(To(message.seat, message))

ServerPrompt(message) == SendToPlayer(message.seat, message)

\* A rejected answer goes back to the last player prompted.
ServerRetry ==
    IF handler.pending # NoSeat THEN SendToPlayer(handler.pending, Retry)
    ELSE UNCHANGED <<handler, toClient>>

\* buildAutoResponse and buildFallbackResponse: the AI can answer all but one kind.
AiAnswers(prompt) == prompt.kind # "declare"

\* The human gets a prompt of the AI.
ForwardAiPrompt(prompt, fields) ==
    /\ handler' = [fields EXCEPT !.pending = HUMAN_PLAYER]
    /\ Send(To(HUMAN_PLAYER, prompt))

\* Mutant: the count of the AI's retries is not reset by a new prompt.
RoutePromptCounting(message) ==
    LET routed == [handler EXCEPT !.last = message, !.pending = message.seat]
    IN IF message.seat = HUMAN_PLAYER
       THEN handler' = routed /\ Send(To(HUMAN_PLAYER, message))
       ELSE IF AiAnswers(message)
       THEN handler' = [routed EXCEPT !.auto = message.id] /\ UNCHANGED toClient
       ELSE ForwardAiPrompt(message, routed)

\* SoloDuelHandler.routePrompt: the AI's answer is left for DuelManager to apply.
RoutePrompt(message) ==
    LET routed == [handler EXCEPT !.last = message, !.pending = message.seat, !.retries = 0]
    IN IF message.seat = HUMAN_PLAYER
       THEN handler' = routed /\ Send(To(HUMAN_PLAYER, message))
       ELSE IF AiAnswers(message)
       THEN handler' = [routed EXCEPT !.auto = message.id] /\ UNCHANGED toClient
       ELSE ForwardAiPrompt(message, routed)

\* Mutant: the AI tries again without end.
HandleRetryForEver ==
    IF handler.pending # AI \/ handler.last = NoMessage
    THEN Send(To(HUMAN_PLAYER, Retry)) /\ UNCHANGED handler
    ELSE handler' = [handler EXCEPT !.auto = handler.last.id] /\ UNCHANGED toClient

\* SoloDuelHandler.handleRetry: the AI tries again a few times, then the human must.
HandleRetry ==
    LET counted == [handler EXCEPT !.retries = @ + 1]
    IN IF handler.pending # AI \/ handler.last = NoMessage
       THEN Send(To(HUMAN_PLAYER, Retry)) /\ UNCHANGED handler
       ELSE IF counted.retries > MAX_AI_RETRIES \/ ~AiAnswers(handler.last)
       THEN ForwardAiPrompt(handler.last, counted)
       ELSE handler' = [counted EXCEPT !.auto = handler.last.id] /\ UNCHANGED toClient

\* onMessage for a prompt or a retry: the session must stop for an answer.
Prompted(message) ==
    IF message = Retry THEN (IF Solo THEN HandleRetry ELSE ServerRetry)
    ELSE IF Solo THEN RoutePrompt(message) ELSE ServerPrompt(message)

IsInfo(message) == message = Info
IsEmptyChain(message) == message.type = "prompt" /\ message.kind = "emptyChain"

-----------------------------------------------------------------------------
(* DuelSession.process *)

\* process() after the end does nothing.
EnterProcess ==
    /\ thread.at = "process"
    /\ Goto(IF session.ended THEN "auto" ELSE "run")
    /\ UNCHANGED <<core, session, handler, client, toClient, toServer, results, misuse>>

\* nDuelProcess and nDuelGetMessage.
RunCore ==
    /\ thread.at = "run"
    /\ Native
    /\ Refuses \/ GoesOn
    /\ UNCHANGED <<session, handler, client, toClient, toServer, results>>

\* An empty chain prompt is passed at once and the batch left.
AutoPass ==
    /\ thread.at = "dispatch" /\ thread.batch # <<>>
    /\ IsEmptyChain(Head(thread.batch))
    /\ Native
    /\ core' = [core EXCEPT !.answer = Pass]
    /\ thread' = [thread EXCEPT !.batch = <<>>, !.autoResponded = TRUE]
    /\ UNCHANGED <<session, handler, client, toClient, toServer, results>>

\* The listener wants the next message; the queries before and after it are native calls.
DispatchInfo ==
    /\ thread.at = "dispatch" /\ thread.batch # <<>>
    /\ IsInfo(Head(thread.batch))
    /\ Native
    /\ thread' = [thread EXCEPT !.batch = Tail(@)]
    /\ UNCHANGED <<core, session, handler, client, toClient, toServer, results>>

\* The listener awaits a response: the batch is left.
DispatchPrompt ==
    /\ thread.at = "dispatch" /\ thread.batch # <<>>
    /\ LET message == Head(thread.batch)
       IN /\ message.type \in {"prompt", "retry"}
          /\ ~IsInfo(message) /\ ~IsEmptyChain(message)
          /\ Prompted(message)
    /\ Native
    /\ Goto("auto")
    /\ UNCHANGED <<core, session, client, toServer, results>>

\* Mutant: the loop is not left after the win.
DispatchWinGoesOn ==
    /\ thread.at = "dispatch" /\ thread.batch # <<>>
    /\ Head(thread.batch) = Win
    /\ Native
    /\ handler' = [handler EXCEPT !.winSent = TRUE]
    /\ OnDuelEnd(handler'.winSent, 1)
    /\ thread' = [thread EXCEPT !.batch = Tail(@)]
    /\ UNCHANGED <<core, client, toClient, toServer>>

\* Mutant: winSent is not set.
DispatchWinUnnoted ==
    /\ thread.at = "dispatch" /\ thread.batch # <<>>
    /\ Head(thread.batch) = Win
    /\ Native
    /\ OnDuelEnd(handler.winSent, 1)
    /\ Goto("auto")
    /\ UNCHANGED <<core, handler, client, toClient, toServer>>

\* The listener sends the result and ends the duel, which closes this session.
DispatchWin ==
    /\ thread.at = "dispatch" /\ thread.batch # <<>>
    /\ Head(thread.batch) = Win
    /\ Native
    /\ handler' = [handler EXCEPT !.winSent = TRUE]
    /\ OnDuelEnd(handler'.winSent, 1)
    /\ Goto("auto")
    /\ UNCHANGED <<core, client, toClient, toServer>>

\* The batch is done: run on, end the duel, or wait.
BatchDone ==
    /\ thread.at = "dispatch" /\ thread.batch = <<>>
    /\ IF thread.status = DUEL_STATUS_CONTINUE \/ thread.autoResponded
       THEN Goto("run") /\ UNCHANGED <<session, results>>
       ELSE /\ Goto("auto")
            /\ IF thread.status = DUEL_STATUS_END THEN OnDuelEnd(handler.winSent, 0)
               ELSE UNCHANGED <<session, results>>
    /\ UNCHANGED <<core, handler, client, toClient, toServer, misuse>>

-----------------------------------------------------------------------------
(* DuelManager *)

\* start: the session is made, registered, set up and processed.
Start ==
    /\ Idle /\ ~session.active /\ ~session.closed
    /\ session' = [session EXCEPT !.active = TRUE]
    /\ Native
    /\ Goto("process")
    /\ UNCHANGED <<core, handler, client, toClient, toServer, results>>

\* session.setResponse, then process.
SetResponse(answer) ==
    /\ Native
    /\ core' = [core EXCEPT !.answer = answer]
    /\ Goto("process")

Accepts == session.active /\ ~session.ended

\* handleResponse: applied only for the player the listener waits for.
HandleResponse(seat) ==
    /\ Idle /\ toServer[seat] # <<>>
    /\ toServer' = [toServer EXCEPT ![seat] = Tail(@)]
    /\ IF Accepts /\ handler.pending = seat
       THEN SetResponse(Answer(seat, Head(toServer[seat])))
       ELSE UNCHANGED <<core, thread, misuse>>
    /\ UNCHANGED <<session, handler, client, toClient, results>>

\* processSoloAutoResponse: the AI's answer, if the duel is still there, is consumed and
\* applied by handleSoloAutoResponse, which comes back here; then the thread is done.
ProcessSoloAutoResponse ==
    /\ thread.at = "auto"
    /\ IF session.active /\ handler.auto # NoPrompt
       THEN /\ handler' = [handler EXCEPT !.auto = NoPrompt]
            /\ IF Accepts THEN SetResponse(Answer(AI, handler.auto))
               ELSE Goto("idle") /\ UNCHANGED <<core, misuse>>
       ELSE Goto("idle") /\ UNCHANGED <<core, handler, misuse>>
    /\ UNCHANGED <<session, client, toClient, toServer, results>>

\* forfeit and logout.
FinishDuel ==
    /\ Idle
    /\ EndDuel
    /\ SendResult(1)
    /\ UNCHANGED <<core, handler, thread, client, toClient, toServer, misuse>>

\* shutdown, when the server stops.
Shutdown ==
    /\ Idle
    /\ EndDuel
    /\ UNCHANGED <<core, handler, thread, client, toClient, toServer, results, misuse>>

-----------------------------------------------------------------------------
(* ClientDuelState *)

\* setPrompt arms the answered guard.
SetPrompt(id) == [prompt |-> id, last |-> id, sent |-> FALSE]

\* A retry brings back the last prompt.
RestorePrompt(shown) == [prompt |-> shown.last, last |-> shown.last, sent |-> FALSE]

Receive(seat) ==
    /\ toClient[seat] # <<>>
    /\ toClient' = [toClient EXCEPT ![seat] = Tail(@)]
    /\ LET message == Head(toClient[seat])
       IN client' = [client EXCEPT ![seat] =
            IF message = Retry THEN RestorePrompt(@) ELSE SetPrompt(message.id)]
    /\ UNCHANGED <<core, session, handler, thread, toServer, results, misuse>>

\* Mutant: no answered guard.
RespondAgain(seat) ==
    /\ client[seat].prompt # NoPrompt
    /\ Len(toServer[seat]) < 2
    /\ toServer' = [toServer EXCEPT ![seat] = Append(@, client[seat].prompt)]
    /\ UNCHANGED <<core, session, handler, thread, client, toClient, results, misuse>>

\* markResponseSent, the packet, onResponseSent.
Respond(seat) ==
    /\ client[seat].prompt # NoPrompt /\ ~client[seat].sent
    /\ toServer' = [toServer EXCEPT ![seat] = Append(@, client[seat].prompt)]
    /\ client' = [client EXCEPT ![seat].sent = TRUE, ![seat].prompt = NoPrompt]
    /\ UNCHANGED <<core, session, handler, thread, toClient, results, misuse>>

-----------------------------------------------------------------------------

Init ==
    /\ core = NewCore
    /\ session = [active |-> FALSE, closed |-> FALSE, ended |-> FALSE]
    /\ handler \in [solo : BOOLEAN, pending : {NoSeat}, last : {NoMessage}, retries : {0},
                    auto : {NoPrompt}, winSent : {FALSE}]
    /\ thread = [at |-> "idle", batch |-> <<>>, status |-> DUEL_STATUS_CONTINUE,
                 autoResponded |-> FALSE]
    /\ client = [seat \in Seats |-> [prompt |-> NoPrompt, last |-> NoPrompt, sent |-> FALSE]]
    /\ toClient = Nothing /\ toServer = Nothing
    /\ results = [seat \in Seats |-> 0]
    /\ misuse = FALSE

\* The server thread at work.
ThreadStep ==
    \/ EnterProcess
    \/ RunCore
    \/ AutoPass
    \/ DispatchInfo
    \/ DispatchPrompt
    \/ DispatchWin
    \/ BatchDone
    \/ ProcessSoloAutoResponse

Next ==
    \/ Start
    \/ ThreadStep
    \/ \E seat \in Humans : HandleResponse(seat) \/ Receive(seat) \/ Respond(seat)
    \/ FinishDuel
    \/ Shutdown

\* The thread runs on, and the network delivers.  Nothing makes a player answer.
Fairness ==
    /\ WF_vars(ThreadStep)
    /\ \A seat \in Seats : WF_vars(Receive(seat)) /\ WF_vars(HandleResponse(seat))

Spec == Init /\ [][Next]_vars /\ Fairness

-----------------------------------------------------------------------------
(* Properties *)

Messages == [type : {"prompt"}, seat : Seats, kind : Kinds, id : 1..MaxPrompts]
                \cup {Info, Retry, Win, NoMessage}

\* Every variable has the values its Java counterpart can have.
TypeOK ==
    /\ core.prompt \in Messages /\ core.prompts \in 0..(MaxPrompts + 1)
    /\ session \in [active : BOOLEAN, closed : BOOLEAN, ended : BOOLEAN]
    /\ handler.pending \in Seats \cup {NoSeat} /\ handler.last \in Messages
    /\ handler.auto \in 0..MaxPrompts /\ handler.retries \in 0..(MAX_AI_RETRIES + 1)
    /\ thread.at \in {"idle", "process", "run", "dispatch", "auto"}
    /\ thread.batch \in Seq(Messages)
    /\ \A seat \in Seats : toClient[seat] \in Seq(Messages) /\ toServer[seat] \in Seq(1..MaxPrompts)
    /\ misuse \in BOOLEAN

\* The engine is never called for a duel that was destroyed, although the listener and
\* the AI's answer may end the duel while process() is on the stack (DuelSession.java:127-137).
HandleRespected == ~misuse

Given == core.answer \notin {NoAnswer, Pass}

\* The engine is given an answer only to the prompt it waits at and only from its owner,
\* or from the human the AI's prompt was handed to; and it is passed only where a pass is
\* legal.  No answer is for an earlier prompt although none says which it is for: the
\* client's answered guard, the order of the packets and pendingPlayer must do.
AnswersMeetPrompts ==
    /\ Answered => Waits
    /\ Given =>
        /\ core.answer.of = core.prompt.id
        /\ \/ core.answer.by = core.prompt.seat
           \/ Solo /\ core.prompt.seat = AI /\ core.answer.by = HUMAN_PLAYER
    /\ core.answer = Pass => IsEmptyChain(core.prompt)

\* The prompt a client shows once it has received the packet on its way, if there is one.
PromptAhead(seat) ==
    IF toClient[seat] = <<>> THEN client[seat].prompt
    ELSE IF Head(toClient[seat]) = Retry THEN client[seat].last
    ELSE Head(toClient[seat]).id

\* A running duel that is not being worked on waits for one human: the engine owes nothing,
\* no answer of the AI is left, and the human the server would listen to sees the prompt,
\* or will, or has its one answer to it on the way; nobody else is asked.  So no duel is
\* wedged, and no answer to a running duel is thrown away.
SomeoneIsAsked ==
    Idle /\ session.active =>
        /\ Waits /\ ~Answered
        /\ handler.auto = NoPrompt
        /\ handler.pending \in Humans
        /\ ~Solo => handler.pending = core.prompt.seat
        /\ LET asked == handler.pending
           IN /\ Len(toClient[asked]) + Len(toServer[asked]) <= 1
              /\ IF toServer[asked] = <<>> THEN PromptAhead(asked) = core.prompt.id
                 ELSE toServer[asked] = <<core.prompt.id>> /\ client[asked].prompt = NoPrompt
        /\ \A other \in Humans \ {handler.pending} :
              toServer[other] = <<>> /\ toClient[other] = <<>> /\ client[other].prompt = NoPrompt

\* However the duel ends, no player is told two results, and one is told whenever the
\* session itself ended (winSent, finishDuel).
OneResult ==
    \A seat \in Humans : results[seat] <= 1 /\ (session.ended => results[seat] = 1)

\* The server thread always comes back: however often the engine refuses, the AI gives up
\* (MAX_AI_RETRIES) and leaves the prompt to the human.
ThreadReturns == ~Idle ~> Idle
=============================================================================
