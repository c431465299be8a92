-------------------------- MODULE DuelSessionProofs --------------------------
(***************************************************************************)
(* What holds of a running duel however long it is: its types, that the    *)
(* engine is never called for a destroyed duel, that it is given answers   *)
(* to the prompt it waits at only, that one human is asked whenever the    *)
(* server waits, and that each player is told one result.                  *)
(*                                                                         *)
(* The engine and the players pass one token around: the right to go on.   *)
(* SessionInv says where it can be.  While the thread is inside the duel   *)
(* no packet is under way; when it leaves, the token is with one human, in *)
(* one of four places (Asks), or with the AI; an answer brings it back.    *)
(***************************************************************************)
EXTENDS DuelSession, SequenceTheorems, TLAPS

Prompts == [type : {"prompt"}, seat : Seats, kind : Kinds, id : 1..MaxPrompts]
Packets == Prompts \cup {Retry}
Answers == [by : Seats \cup {NoSeat}, of : Nat]
Places == {"idle", "process", "run", "dispatch", "auto"}

CoreTypes == core \in [prompt : Prompts \cup {NoMessage}, answer : Answers, prompts : 0..(MaxPrompts + 1)]
SessionTypes == session \in [active : BOOLEAN, closed : BOOLEAN, ended : BOOLEAN]
HandlerTypes ==
    /\ handler \in [solo : BOOLEAN, pending : Seats \cup {NoSeat}, last : Prompts \cup {NoMessage},
                    retries : 0..(MAX_AI_RETRIES + 1), auto : 0..MaxPrompts, winSent : BOOLEAN]
    /\ Solo /\ handler.pending = AI => handler.retries <= MAX_AI_RETRIES
ThreadTypes ==
    thread \in [at : Places, batch : Seq(Messages), autoResponded : BOOLEAN,
                status : {DUEL_STATUS_END, DUEL_STATUS_AWAITING, DUEL_STATUS_CONTINUE}]
ClientTypes == client \in [Seats -> [prompt : 0..MaxPrompts, last : 0..MaxPrompts, sent : BOOLEAN]]
NetworkTypes == toClient \in [Seats -> Seq(Packets)] /\ toServer \in [Seats -> Seq(1..MaxPrompts)]
HistoryTypes == results \in [Seats -> Nat] /\ misuse \in BOOLEAN

Types ==
    /\ CoreTypes /\ SessionTypes /\ HandlerTypes /\ ThreadTypes
    /\ ClientTypes /\ NetworkTypes /\ HistoryTypes

\* The thread is inside the duel only while DuelManager has it.
Lifecycle ==
    /\ session.active => ~session.closed /\ ~session.ended
    /\ session.ended => session.closed
    /\ thread.at \in {"process", "run", "dispatch"} => session.active
    /\ ~misuse

\* Results told so far.
Told ==
    /\ ~session.closed => \A seat \in Seats : results[seat] = 0
    /\ \A seat \in Humans : results[seat] <= 1
    /\ session.ended => \A seat \in Humans : results[seat] = 1
    /\ handler.winSent => session.ended

\* Nothing of the duel is at this seat or under way to or from it.
Quiet(seat) == toServer[seat] = <<>> /\ toClient[seat] = <<>> /\ client[seat].prompt = NoPrompt
AllQuiet == \A seat \in Seats : Quiet(seat)

\* This seat has the prompt to come, is about to be asked again, is asked, or has answered.
Asks(seat) ==
    \/ /\ toServer[seat] = <<>> /\ toClient[seat] = <<core.prompt>>
       /\ client[seat].prompt = NoPrompt
    \/ /\ toServer[seat] = <<>> /\ toClient[seat] = <<Retry>>
       /\ client[seat].prompt = NoPrompt /\ client[seat].last = core.prompt.id
    \/ /\ toServer[seat] = <<>> /\ toClient[seat] = <<>>
       /\ client[seat].prompt = core.prompt.id /\ client[seat].last = core.prompt.id
    \/ /\ toServer[seat] = <<core.prompt.id>> /\ toClient[seat] = <<>>
       /\ client[seat].prompt = NoPrompt /\ client[seat].last = core.prompt.id

\* A human may answer the prompt: its owner, or the human of a solo duel.
HumanFor(seat) == seat \in Humans /\ (Solo \/ seat = core.prompt.seat)

HumanAsked ==
    /\ Waits /\ ~Answered /\ handler.auto = NoPrompt
    /\ HumanFor(handler.pending) /\ Asks(handler.pending)
    /\ \A other \in Seats \ {handler.pending} : Quiet(other)

AiTurn == Solo /\ handler.pending = AI /\ handler.last = core.prompt /\ core.prompt.seat = AI

AiAsked ==
    /\ Waits /\ ~Answered /\ AllQuiet
    /\ AiTurn /\ handler.auto = core.prompt.id

\* A retry would reach the one whose answer it was.
Retriable ==
    \/ HumanFor(handler.pending) /\ client[handler.pending].last = core.prompt.id
    \/ AiTurn

\* The engine has what it needs to go on.
Supplied ==
    /\ AllQuiet /\ handler.auto = NoPrompt
    /\ Waits <=> Answered
    /\ core.answer = Pass => IsEmptyChain(core.prompt)
    /\ Given =>
        /\ core.answer.of = core.prompt.id
        /\ core.answer.by = core.prompt.seat \/ (Solo /\ core.prompt.seat = AI /\ core.answer.by = HUMAN_PLAYER)
        /\ Retriable

\* What is left of a batch, and what the core waits for after it.
BatchRefused ==
    /\ thread.batch = <<Retry>> /\ thread.status = DUEL_STATUS_AWAITING /\ ~thread.autoResponded
    /\ Waits /\ ~Answered /\ Retriable
BatchPrompts ==
    /\ thread.batch \in {<<core.prompt>>, <<Info, core.prompt>>}
    /\ thread.status = DUEL_STATUS_AWAITING /\ ~thread.autoResponded
    /\ Waits /\ ~Answered
BatchPassed ==
    /\ thread.batch = <<>> /\ thread.autoResponded
    /\ core.answer = Pass /\ IsEmptyChain(core.prompt)
BatchStops ==
    /\ thread.batch \in {<<>>, <<Info>>, <<Win>>, <<Info, Win>>}
    /\ thread.status # DUEL_STATUS_AWAITING
    /\ ~Waits /\ ~Answered

Dispatching ==
    /\ AllQuiet /\ handler.auto = NoPrompt
    /\ BatchRefused \/ BatchPrompts \/ BatchPassed \/ BatchStops

\* Where the token is.
TokenInv ==
    /\ session.active =>
        /\ thread.at = "idle" => HumanAsked
        /\ thread.at = "auto" => HumanAsked \/ AiAsked
        /\ thread.at \in {"process", "run"} => Supplied
        /\ thread.at = "dispatch" => Dispatching
    /\ ~session.active => ~Answered
    /\ ~session.active /\ ~session.closed =>
        /\ thread.at = "idle" /\ AllQuiet /\ ~Waits /\ handler.auto = NoPrompt

SessionInv == Types /\ Lifecycle /\ Told /\ TokenInv

-----------------------------------------------------------------------------
(* Messages *)

\* The four plain messages differ, and no prompt is one of them.
LEMMA MessagesApart ==
    /\ Info # Retry /\ Info # Win /\ Info # NoMessage
    /\ Retry # Win /\ Retry # NoMessage /\ Win # NoMessage
    /\ \A p \in Prompts : p \notin {Info, Retry, Win, NoMessage}
<1>1. Info.type = "info" /\ Retry.type = "retry" /\ Win.type = "win" /\ NoMessage.type = "none"
  BY DEF Info, Retry, Win, NoMessage
<1>2. \A p \in Prompts : p.type = "prompt"
  BY DEF Prompts
<1> QED
  BY <1>1, <1>2

\* The messages are the prompts and the four plain ones.
LEMMA MessageKinds == Messages = Prompts \cup {Info, Retry, Win, NoMessage}
BY DEF Messages, Prompts

\* A prompt of the core is one of Prompts.
LEMMA PromptTyped ==
    ASSUME NEW seat \in Seats, NEW kind \in Kinds, NEW id \in 1..MaxPrompts
    PROVE  Prompt(seat, kind, id) \in Prompts
BY DEF Prompt, Prompts

\* Answers of the players and the AI are told apart from no answer and from a pass.
LEMMA AnswersApart ==
    /\ NoAnswer \in Answers /\ Pass \in Answers /\ Pass # NoAnswer
    /\ \A seat \in Seats, of \in Nat :
          /\ Answer(seat, of) \in Answers /\ Answer(seat, of) \notin {NoAnswer, Pass}
          /\ Answer(seat, of).by = seat /\ Answer(seat, of).of = of
<1>1. \A seat, of : Answer(seat, of).by = seat /\ Answer(seat, of).of = of
  BY DEF Answer
<1>2. NoAnswer.by = NoSeat /\ NoAnswer.of = 0 /\ Pass.by = NoSeat /\ Pass.of = 1
  BY <1>1 DEF NoAnswer, Pass, NoPrompt
<1>3. \A seat \in Seats \cup {NoSeat}, of \in Nat : Answer(seat, of) \in Answers
  BY DEF Answer, Answers
<1>4. NoAnswer \in Answers /\ Pass \in Answers
  BY <1>3 DEF NoAnswer, Pass, NoPrompt
<1> QED
  BY <1>1, <1>2, <1>3, <1>4 DEF Seats, NoSeat

-----------------------------------------------------------------------------
(* Types *)

\* Initially every type holds.
LEMMA InitTypes == Init => Types
<1> SUFFICES ASSUME Init PROVE Types
  OBVIOUS
<1>1. CoreTypes
  BY AnswersApart, PromptAssumption DEF Init, CoreTypes, NewCore
<1>2. SessionTypes
  BY DEF Init, SessionTypes
<1>3. HandlerTypes
  <2>1. 0 \in 0..MaxPrompts /\ 0 \in 0..(MAX_AI_RETRIES + 1)
    BY PromptAssumption DEF MAX_AI_RETRIES
  <2>2. handler.pending = NoSeat /\ NoSeat # AI
    BY DEF Init, NoSeat, AI
  <2> QED
    BY <2>1, <2>2 DEF Init, HandlerTypes, NoPrompt
<1>4. ThreadTypes
  BY DEF Init, ThreadTypes, Places
<1>5. ClientTypes
  BY PromptAssumption DEF Init, ClientTypes, NoPrompt
<1>6. NetworkTypes
  BY DEF Init, NetworkTypes, Nothing
<1>7. HistoryTypes
  BY DEF Init, HistoryTypes
<1> QED
  BY <1>1, <1>2, <1>3, <1>4, <1>5, <1>6, <1>7 DEF Types

\* What the core may do in one run of it.
LEMMA GoesOnForms ==
    ASSUME CoreTypes, GoesOn
    PROVE  \E infos \in {<<>>, <<Info>>}, stop \in Prompts \cup {NoMessage},
              id \in 1..(MaxPrompts + 1), last \in Seq(Messages),
              status \in {DUEL_STATUS_END, DUEL_STATUS_AWAITING, DUEL_STATUS_CONTINUE} :
              /\ core' = [prompt |-> stop, answer |-> NoAnswer, prompts |-> id]
              /\ thread' = [thread EXCEPT !.at = "dispatch", !.batch = infos \o last,
                                          !.status = status, !.autoResponded = FALSE]
              /\ \/ stop \in Prompts /\ last = <<stop>> /\ status = DUEL_STATUS_AWAITING
                 \/ stop = NoMessage /\ last \in {<<>>, <<Win>>} /\ status # DUEL_STATUS_AWAITING
<1> DEFINE id == core.prompts + 1
<1>1. id \in 1..(MaxPrompts + 1)
  BY PromptAssumption DEF CoreTypes, GoesOn
<1> DEFINE Went(infos, stop, last, status) ==
        /\ core' = [prompt |-> stop, answer |-> NoAnswer, prompts |-> id]
        /\ thread' = [thread EXCEPT !.at = "dispatch", !.batch = infos \o last,
                                    !.status = status, !.autoResponded = FALSE]
<1>2. PICK seat \in Seats, kind \in Kinds, infos \in {<<>>, <<Info>>} :
        \/ /\ id <= MaxPrompts
           /\ Went(infos, Prompt(seat, kind, id), <<Prompt(seat, kind, id)>>, DUEL_STATUS_AWAITING)
        \/ id <= MaxPrompts /\ Went(infos, NoMessage, <<>>, DUEL_STATUS_CONTINUE)
        \/ \E status \in {DUEL_STATUS_CONTINUE, DUEL_STATUS_END} : Went(infos, NoMessage, <<Win>>, status)
        \/ Went(infos, NoMessage, <<>>, DUEL_STATUS_END)
  BY DEF GoesOn
<1>3. id <= MaxPrompts => Prompt(seat, kind, id) \in Prompts
  BY <1>1, PromptTyped
<1>4. DUEL_STATUS_CONTINUE # DUEL_STATUS_AWAITING /\ DUEL_STATUS_END # DUEL_STATUS_AWAITING
  BY DEF DUEL_STATUS_CONTINUE, DUEL_STATUS_AWAITING, DUEL_STATUS_END
<1>5. Prompts \subseteq Messages /\ Win \in Messages
  BY MessageKinds
<1> DEFINE Stops(stop, last, status) ==
        \/ stop \in Prompts /\ last = <<stop>> /\ status = DUEL_STATUS_AWAITING
        \/ stop = NoMessage /\ last \in {<<>>, <<Win>>} /\ status # DUEL_STATUS_AWAITING
<1>6. \E stop \in Prompts \cup {NoMessage}, last \in Seq(Messages),
         status \in {DUEL_STATUS_END, DUEL_STATUS_AWAITING, DUEL_STATUS_CONTINUE} :
            Went(infos, stop, last, status) /\ Stops(stop, last, status)
  <2> HIDE DEF Went, id
  <2>1. \A p \in Prompts \cup {Win} : <<p>> \in Seq(Messages)
    BY <1>5
  <2>2. CASE id <= MaxPrompts /\ Went(infos, Prompt(seat, kind, id), <<Prompt(seat, kind, id)>>, DUEL_STATUS_AWAITING)
    BY <1>3, <2>1, <2>2
  <2>3. \A last \in {<<>>, <<Win>>}, status \in {DUEL_STATUS_CONTINUE, DUEL_STATUS_END} :
           last \in Seq(Messages) /\ Stops(NoMessage, last, status)
    <3>1. <<>> \in Seq(Messages) /\ <<Win>> \in Seq(Messages)
      BY <2>1
    <3> QED
      BY <1>4, <3>1
  <2> QED
    BY <1>2, <2>2, <2>3
<1>7. PICK stop \in Prompts \cup {NoMessage}, last \in Seq(Messages),
           status \in {DUEL_STATUS_END, DUEL_STATUS_AWAITING, DUEL_STATUS_CONTINUE} :
            Went(infos, stop, last, status) /\ Stops(stop, last, status)
  BY <1>6
<1> WITNESS infos \in {<<>>, <<Info>>}, stop \in Prompts \cup {NoMessage},
            id \in 1..(MaxPrompts + 1), last \in Seq(Messages),
            status \in {DUEL_STATUS_END, DUEL_STATUS_AWAITING, DUEL_STATUS_CONTINUE}
<1> QED
  BY <1>7

\* One run of the core keeps the types of the core and of the thread.
LEMMA GoesOnTypes ==
    ASSUME CoreTypes, ThreadTypes, GoesOn
    PROVE  CoreTypes' /\ ThreadTypes'
<1>1. PICK infos \in {<<>>, <<Info>>}, stop \in Prompts \cup {NoMessage},
           id \in 1..(MaxPrompts + 1), last \in Seq(Messages),
           status \in {DUEL_STATUS_END, DUEL_STATUS_AWAITING, DUEL_STATUS_CONTINUE} :
            /\ core' = [prompt |-> stop, answer |-> NoAnswer, prompts |-> id]
            /\ thread' = [thread EXCEPT !.at = "dispatch", !.batch = infos \o last,
                                        !.status = status, !.autoResponded = FALSE]
  BY GoesOnForms
<1>2. infos \o last \in Seq(Messages)
  <2>1. <<>> \in Seq(Messages) /\ <<Info>> \in Seq(Messages)
    BY MessageKinds
  <2>2. infos \in Seq(Messages)
    BY <2>1
  <2> QED
    BY <2>2
<1>3. CoreTypes'
  BY <1>1, AnswersApart, PromptAssumption DEF CoreTypes
<1>4. ThreadTypes'
  BY <1>1, <1>2 DEF ThreadTypes, Places
<1> QED
  BY <1>3, <1>4

\* The answers SetResponse is given are answers.
LEMMA SetResponseTypes ==
    ASSUME CoreTypes, NEW answer \in Answers, SetResponse(answer)
    PROVE  CoreTypes'
BY DEF CoreTypes, SetResponse

\* Every step keeps the type of the core.
LEMMA CoreTypesStep == Types /\ [Next]_vars => CoreTypes'
<1> SUFFICES ASSUME Types, [Next]_vars PROVE CoreTypes'
  OBVIOUS
<1> USE DEF Types
<1>1. CASE RunCore
  <2>1. CASE Refuses
    BY <2>1, AnswersApart DEF Refuses, CoreTypes
  <2>2. CASE GoesOn
    BY <2>2, GoesOnTypes
  <2> QED
    BY <1>1, <2>1, <2>2 DEF RunCore
<1>2. CASE AutoPass
  BY <1>2, AnswersApart DEF AutoPass, CoreTypes
<1>3. ASSUME NEW seat \in Humans, HandleResponse(seat) PROVE CoreTypes'
  <2>1. seat \in Seats
    BY DEF Humans, Seats, HUMAN_PLAYER
  <2>2. Head(toServer[seat]) \in Nat
    <3>1. toServer[seat] \in Seq(1..MaxPrompts) /\ toServer[seat] # <<>>
      BY <1>3, <2>1 DEF NetworkTypes, HandleResponse
    <3> QED
      BY <3>1, PromptAssumption
  <2>3. Answer(seat, Head(toServer[seat])) \in Answers
    BY <2>1, <2>2, AnswersApart
  <2> QED
    BY <1>3, <2>3, SetResponseTypes DEF HandleResponse, CoreTypes
<1>4. CASE ProcessSoloAutoResponse
  <2>1. Answer(AI, handler.auto) \in Answers
    BY AnswersApart, PromptAssumption DEF HandlerTypes, AI, Seats
  <2> QED
    BY <1>4, <2>1, SetResponseTypes DEF ProcessSoloAutoResponse, CoreTypes
<1>5. CASE core' = core
  BY <1>5 DEF CoreTypes
<1> QED
  BY <1>1, <1>2, <1>3, <1>4, <1>5
  DEF Next, ThreadStep, vars, Start, EnterProcess, DispatchInfo, DispatchPrompt, DispatchWin, BatchDone,
      FinishDuel, Shutdown, Receive, Respond

\* A batch that is done: the core runs on, the duel ends, or the thread leaves.
LEMMA BatchDoneForms ==
    ASSUME BatchDone
    PROVE  \/ /\ thread.status = DUEL_STATUS_CONTINUE \/ thread.autoResponded
              /\ Goto("run") /\ UNCHANGED <<session, results>>
           \/ /\ thread.status = DUEL_STATUS_END /\ ~thread.autoResponded
              /\ Goto("auto") /\ OnDuelEnd(handler.winSent, 0)
           \/ /\ thread.status \notin {DUEL_STATUS_CONTINUE, DUEL_STATUS_END} /\ ~thread.autoResponded
              /\ Goto("auto") /\ UNCHANGED <<session, results>>
<1>1. CASE thread.status = DUEL_STATUS_CONTINUE \/ thread.autoResponded
  BY <1>1, Zenon DEF BatchDone
<1>2. CASE ~(thread.status = DUEL_STATUS_CONTINUE \/ thread.autoResponded)
  BY <1>2, Zenon DEF BatchDone
<1> QED
  BY <1>1, <1>2

\* Every step keeps the type of the session.
LEMMA SessionTypesStep == Types /\ [Next]_vars => SessionTypes'
<1> SUFFICES ASSUME Types, [Next]_vars PROVE SessionTypes'
  OBVIOUS
<1> USE DEF Types, SessionTypes
<1>1. CASE Start
  BY <1>1 DEF Start
<1>2. CASE DispatchWin
  BY <1>2 DEF DispatchWin, OnDuelEnd
<1>3. CASE BatchDone
  <2>1. UNCHANGED <<session, results>> \/ OnDuelEnd(handler.winSent, 0)
    BY <1>3, BatchDoneForms
  <2>2. CASE UNCHANGED <<session, results>>
    BY <2>2
  <2>3. CASE OnDuelEnd(handler.winSent, 0)
    BY <2>3 DEF OnDuelEnd
  <2> QED
    BY <2>1, <2>2, <2>3
<1>4. CASE FinishDuel
  BY <1>4 DEF FinishDuel, EndDuel
<1>5. CASE Shutdown
  BY <1>5 DEF Shutdown, EndDuel
<1>6. CASE session' = session
  BY <1>6
<1> QED
  BY <1>1, <1>2, <1>3, <1>4, <1>5, <1>6
  DEF Next, ThreadStep, vars, EnterProcess, RunCore, AutoPass, DispatchInfo, DispatchPrompt,
      HandleResponse, ProcessSoloAutoResponse, Receive, Respond

\* A send to one seat appends there and changes nothing else.
LEMMA SendOne ==
    ASSUME NetworkTypes, NEW seat \in Seats, NEW packet \in Packets, Send(To(seat, packet))
    PROVE  /\ toClient'[seat] = toClient[seat] \o <<packet>>
           /\ \A other \in Seats \ {seat} : toClient'[other] = toClient[other]
           /\ toClient' \in [Seats -> Seq(Packets)]
<1>1. \A s \in Seats : toClient[s] \in Seq(Packets)
  BY DEF NetworkTypes
<1>2. \A s \in Seats : toClient'[s] = toClient[s] \o (IF s = seat THEN <<packet>> ELSE <<>>)
  BY DEF Send, To, Nothing
<1>3. toClient'[seat] = toClient[seat] \o <<packet>>
  BY <1>2
<1>4. \A other \in Seats \ {seat} : toClient'[other] = toClient[other]
  <2> TAKE other \in Seats \ {seat}
  <2>1. toClient'[other] = toClient[other] \o <<>>
    BY <1>2
  <2> QED
    BY <1>1, <2>1
<1>5. toClient'[seat] \in Seq(Packets)
  <2>1. <<packet>> \in Seq(Packets)
    OBVIOUS
  <2> QED
    BY <1>1, <1>3, <2>1
<1>6. \A s \in Seats : toClient'[s] \in Seq(Packets)
  BY <1>1, <1>4, <1>5
<1>7. toClient' = [s \in Seats |-> toClient'[s]]
  BY DEF Send
<1> QED
  BY <1>3, <1>4, <1>6, <1>7

\* What the listener does with a prompt or a retry, and to whom.
LEMMA PromptedForms ==
    ASSUME HandlerTypes, NEW message \in Packets, Prompted(message)
    PROVE  \/ /\ ~Solo /\ message \in Prompts
              /\ SendToPlayer(message.seat, message)
           \/ /\ ~Solo /\ message = Retry /\ handler.pending \in Seats
              /\ SendToPlayer(handler.pending, Retry)
           \/ /\ ~Solo /\ message = Retry /\ handler.pending = NoSeat
              /\ UNCHANGED <<handler, toClient>>
           \/ /\ Solo /\ message \in Prompts
              /\ handler' = [handler EXCEPT !.last = message, !.pending = HUMAN_PLAYER, !.retries = 0]
              /\ Send(To(HUMAN_PLAYER, message))
           \/ /\ Solo /\ message \in Prompts /\ message.seat = AI
              /\ handler' = [handler EXCEPT !.last = message, !.pending = AI, !.retries = 0,
                                            !.auto = message.id]
              /\ UNCHANGED toClient
           \/ /\ Solo /\ message = Retry /\ (handler.pending # AI \/ handler.last = NoMessage)
              /\ UNCHANGED handler /\ Send(To(HUMAN_PLAYER, Retry))
           \/ /\ Solo /\ message = Retry /\ handler.pending = AI /\ handler.last \in Prompts
              /\ handler' = [handler EXCEPT !.pending = HUMAN_PLAYER, !.retries = @ + 1]
              /\ Send(To(HUMAN_PLAYER, handler.last))
           \/ /\ Solo /\ message = Retry /\ handler.pending = AI /\ handler.last \in Prompts
              /\ handler.retries + 1 <= MAX_AI_RETRIES
              /\ handler' = [handler EXCEPT !.retries = @ + 1, !.auto = handler.last.id]
              /\ UNCHANGED toClient
<1>1. CASE message = Retry /\ ~Solo
  BY <1>1 DEF Prompted, ServerRetry, HandlerTypes
<1>2. CASE message # Retry /\ ~Solo
  BY <1>2 DEF Prompted, ServerPrompt, Packets
<1>3. CASE message = Retry /\ Solo
  <2>1. HandleRetry
    BY <1>3 DEF Prompted
  <2>2. CASE handler.pending # AI \/ handler.last = NoMessage
    BY <1>3, <2>1, <2>2 DEF HandleRetry
  <2>3. CASE ~(handler.pending # AI \/ handler.last = NoMessage)
    <3>1. handler.pending = AI /\ handler.last \in Prompts
      BY <2>3 DEF HandlerTypes
    <3> DEFINE counted == [handler EXCEPT !.retries = @ + 1]
    <3>2. counted.retries = handler.retries + 1 /\ handler.retries \in Nat
      BY DEF HandlerTypes
    <3>3. CASE counted.retries > MAX_AI_RETRIES \/ ~AiAnswers(handler.last)
      <4>1. ForwardAiPrompt(handler.last, counted)
        BY <2>1, <2>3, <3>3 DEF HandleRetry
      <4>2. handler' = [handler EXCEPT !.pending = HUMAN_PLAYER, !.retries = @ + 1]
        BY <4>1 DEF ForwardAiPrompt, HandlerTypes
      <4> QED
        BY <1>3, <3>1, <4>1, <4>2 DEF ForwardAiPrompt
    <3>4. CASE ~(counted.retries > MAX_AI_RETRIES \/ ~AiAnswers(handler.last))
      <4>1. handler' = [counted EXCEPT !.auto = handler.last.id] /\ UNCHANGED toClient
        BY <2>1, <2>3, <3>4 DEF HandleRetry
      <4>2. handler.retries + 1 <= MAX_AI_RETRIES
        BY <3>2, <3>4 DEF MAX_AI_RETRIES
      <4> QED
        BY <1>3, <3>1, <4>1, <4>2
    <3> QED
      BY <3>3, <3>4
  <2> QED
    BY <2>2, <2>3
<1>4. CASE message # Retry /\ Solo
  <2>1. RoutePrompt(message) /\ message \in Prompts
    BY <1>4 DEF Prompted, Packets
  <2>2. message.seat \in {HUMAN_PLAYER, AI}
    BY <2>1 DEF Prompts, Seats, HUMAN_PLAYER, AI
  <2> DEFINE routed == [handler EXCEPT !.last = message, !.pending = message.seat, !.retries = 0]
  <2>3. CASE message.seat = HUMAN_PLAYER
    BY <1>4, <2>1, <2>3 DEF RoutePrompt
  <2>4. CASE message.seat # HUMAN_PLAYER /\ AiAnswers(message)
    BY <1>4, <2>1, <2>2, <2>4 DEF RoutePrompt
  <2>5. CASE message.seat # HUMAN_PLAYER /\ ~AiAnswers(message)
    <3>1. ForwardAiPrompt(message, routed)
      BY <2>1, <2>5 DEF RoutePrompt
    <3>2. handler' = [handler EXCEPT !.last = message, !.pending = HUMAN_PLAYER, !.retries = 0]
      BY <3>1 DEF ForwardAiPrompt, HandlerTypes
    <3> QED
      BY <1>4, <2>1, <3>1, <3>2 DEF ForwardAiPrompt
  <2> QED
    BY <2>3, <2>4, <2>5
<1> QED
  BY <1>1, <1>2, <1>3, <1>4

\* What DispatchPrompt hands to the listener is a packet.
LEMMA DispatchPromptHead ==
    ASSUME ThreadTypes, DispatchPrompt
    PROVE  Head(thread.batch) \in Packets /\ Prompted(Head(thread.batch))
<1>1. Head(thread.batch) \in Messages
  BY DEF ThreadTypes, DispatchPrompt
<1>2. Head(thread.batch).type \in {"prompt", "retry"} /\ Prompted(Head(thread.batch))
  BY DEF DispatchPrompt
<1>3. Info.type = "info" /\ Win.type = "win" /\ NoMessage.type = "none"
  BY DEF Info, Win, NoMessage
<1> QED
  BY <1>1, <1>2, <1>3, MessageKinds DEF Packets

\* Every step keeps the types of the listener.
LEMMA HandlerTypesStep == Types /\ [Next]_vars => HandlerTypes'
<1> SUFFICES ASSUME Types, [Next]_vars PROVE HandlerTypes'
  OBVIOUS
<1> USE DEF Types
<1>1. CASE DispatchPrompt
  <2> DEFINE message == Head(thread.batch)
  <2>1. message \in Packets /\ Prompted(message)
    BY <1>1, DispatchPromptHead
  <2>2. \A p \in Prompts : p.seat \in Seats /\ p.id \in 0..MaxPrompts
    BY PromptAssumption DEF Prompts
  <2>3. HUMAN_PLAYER \in Seats /\ AI \in Seats /\ HUMAN_PLAYER # AI
    BY DEF HUMAN_PLAYER, AI, Seats
  <2>4. handler.retries \in 0..(MAX_AI_RETRIES + 1) /\ 0 \in 0..(MAX_AI_RETRIES + 1) /\ 0 <= MAX_AI_RETRIES
    BY DEF HandlerTypes, MAX_AI_RETRIES
  <2>5. CASE \E seat \in Seats : ~Solo /\ handler' = [handler EXCEPT !.pending = seat]
    BY <2>5 DEF HandlerTypes, Solo
  <2>6. CASE handler' = handler
    BY <2>6 DEF HandlerTypes, Solo
  <2>7. CASE message \in Prompts /\ handler' = [handler EXCEPT !.last = message, !.pending = HUMAN_PLAYER, !.retries = 0]
    BY <2>3, <2>4, <2>7 DEF HandlerTypes, Solo
  <2>8. CASE message \in Prompts /\ handler' = [handler EXCEPT !.last = message, !.pending = AI, !.retries = 0, !.auto = message.id]
    BY <2>2, <2>3, <2>4, <2>8 DEF HandlerTypes, Solo
  <2>9. CASE Solo /\ handler.pending = AI /\ handler' = [handler EXCEPT !.pending = HUMAN_PLAYER, !.retries = @ + 1]
    <3>1. handler.retries + 1 \in 0..(MAX_AI_RETRIES + 1)
      BY <2>4, <2>9 DEF HandlerTypes, MAX_AI_RETRIES
    <3> QED
      BY <2>3, <2>9, <3>1 DEF HandlerTypes, Solo
  <2>10. CASE /\ handler.retries + 1 <= MAX_AI_RETRIES /\ handler.last \in Prompts
              /\ handler' = [handler EXCEPT !.retries = @ + 1, !.auto = handler.last.id]
    <3>1. handler.retries + 1 \in 0..(MAX_AI_RETRIES + 1)
      BY <2>4, <2>10 DEF MAX_AI_RETRIES
    <3> QED
      BY <2>2, <2>10, <3>1 DEF HandlerTypes, Solo
  <2> QED
    BY <2>1, <2>2, <2>5, <2>6, <2>7, <2>8, <2>9, <2>10, PromptedForms DEF SendToPlayer
<1>2. CASE DispatchWin
  BY <1>2 DEF DispatchWin, HandlerTypes, Solo
<1>3. CASE ProcessSoloAutoResponse
  <2>1. NoPrompt \in 0..MaxPrompts
    BY PromptAssumption DEF NoPrompt
  <2>2. handler' = [handler EXCEPT !.auto = NoPrompt] \/ handler' = handler
    BY <1>3 DEF ProcessSoloAutoResponse
  <2> QED
    BY <2>1, <2>2 DEF HandlerTypes, Solo
<1>4. CASE handler' = handler
  BY <1>4 DEF HandlerTypes, Solo
<1> QED
  BY <1>1, <1>2, <1>3, <1>4
  DEF Next, ThreadStep, vars, Start, EnterProcess, RunCore, AutoPass, DispatchInfo, BatchDone,
      HandleResponse, FinishDuel, Shutdown, Receive, Respond

\* Going to another place keeps the types of the thread.
LEMMA GotoTypes ==
    ASSUME ThreadTypes, NEW place \in Places, Goto(place)
    PROVE  ThreadTypes'
BY DEF ThreadTypes, Goto

\* Every step keeps the types of the thread.
LEMMA ThreadTypesStep == Types /\ [Next]_vars => ThreadTypes'
<1> SUFFICES ASSUME Types, [Next]_vars PROVE ThreadTypes'
  OBVIOUS
<1> USE DEF Types
<1>1. CASE RunCore
  <2>1. CASE Refuses
    <3>1. <<Retry>> \in Seq(Messages)
      BY MessageKinds
    <3> QED
      BY <2>1, <3>1 DEF Refuses, ThreadTypes, Places
  <2>2. CASE GoesOn
    BY <2>2, GoesOnTypes
  <2> QED
    BY <1>1, <2>1, <2>2 DEF RunCore
<1>2. CASE AutoPass
  <2>1. <<>> \in Seq(Messages)
    OBVIOUS
  <2> QED
    BY <1>2, <2>1 DEF AutoPass, ThreadTypes
<1>3. CASE DispatchInfo
  <2>1. Tail(thread.batch) \in Seq(Messages)
    BY <1>3 DEF DispatchInfo, ThreadTypes
  <2> QED
    BY <1>3, <2>1 DEF DispatchInfo, ThreadTypes
<1>4. CASE \E place \in Places : Goto(place)
  BY <1>4, GotoTypes
<1>5. CASE thread' = thread
  BY <1>5 DEF ThreadTypes
<1>6. ASSUME NEW seat, HandleResponse(seat) PROVE thread' = thread \/ Goto("process")
  BY <1>6 DEF HandleResponse, SetResponse
<1>7. CASE BatchDone
  <2>1. Goto("run") \/ Goto("auto")
    BY <1>7, BatchDoneForms
  <2> QED
    BY <1>4, <2>1 DEF Places
<1>8. ProcessSoloAutoResponse => Goto("process") \/ Goto("idle")
  BY DEF ProcessSoloAutoResponse, SetResponse
<1>9. EnterProcess => Goto("auto") \/ Goto("run")
  BY DEF EnterProcess
<1> QED
  BY <1>1, <1>2, <1>3, <1>4, <1>5, <1>6, <1>7, <1>8, <1>9
  DEF Next, ThreadStep, vars, Start, DispatchPrompt, DispatchWin, FinishDuel, Shutdown, Receive, Respond, Places

\* What follows the first element of a sequence.
LEMMA RestTyped ==
    ASSUME NEW S, NEW s \in Seq(S), s # <<>>
    PROVE  Head(s) \in S /\ Tail(s) \in Seq(S)
OBVIOUS

\* The humans sit on seats.
LEMMA HumansSit == Humans \subseteq Seats /\ HUMAN_PLAYER \in Seats /\ AI \in Seats
BY DEF Humans, Seats, HUMAN_PLAYER, AI

\* A packet that is received is a retry or brings a prompt.
LEMMA ReceivedTypes ==
    ASSUME ClientTypes, NetworkTypes, NEW seat \in Seats, Receive(seat)
    PROVE  ClientTypes' /\ NetworkTypes'
<1> DEFINE message == Head(toClient[seat])
<1>1. toClient[seat] \in Seq(Packets) /\ toClient[seat] # <<>>
  BY DEF NetworkTypes, Receive
<1>2. message \in Packets /\ Tail(toClient[seat]) \in Seq(Packets)
  BY <1>1
<1>3. NetworkTypes'
  BY <1>2 DEF NetworkTypes, Receive
<1>4. client[seat].last \in 0..MaxPrompts
  BY DEF ClientTypes
<1>5. message # Retry => message.id \in 0..MaxPrompts
  BY <1>2, PromptAssumption DEF Packets, Prompts
<1>6. PICK shown \in 0..MaxPrompts :
        client' = [client EXCEPT ![seat] = [prompt |-> shown, last |-> shown, sent |-> FALSE]]
  <2>1. CASE message = Retry
    BY <2>1, <1>4 DEF Receive, RestorePrompt
  <2>2. CASE message # Retry
    BY <2>2, <1>5 DEF Receive, SetPrompt
  <2> QED
    BY <2>1, <2>2
<1>7. ClientTypes'
  BY <1>6 DEF ClientTypes
<1> QED
  BY <1>3, <1>7

\* A response that is sent is for a prompt.
LEMMA RespondedTypes ==
    ASSUME ClientTypes, NetworkTypes, NEW seat \in Seats, Respond(seat)
    PROVE  ClientTypes' /\ NetworkTypes'
<1>1. client[seat].prompt \in 1..MaxPrompts
  BY PromptAssumption DEF ClientTypes, Respond, NoPrompt
<1>2. toServer[seat] \in Seq(1..MaxPrompts)
  BY DEF NetworkTypes
<1>3. Append(toServer[seat], client[seat].prompt) \in Seq(1..MaxPrompts)
  BY <1>1, <1>2
<1>4. NetworkTypes'
  BY <1>3 DEF NetworkTypes, Respond
<1>5. client' = [client EXCEPT ![seat] = [@ EXCEPT !.sent = TRUE, !.prompt = NoPrompt]]
  <2>1. client' = [client EXCEPT ![seat].sent = TRUE, ![seat].prompt = NoPrompt]
    BY DEF Respond
  <2>2. client[seat] \in [prompt : 0..MaxPrompts, last : 0..MaxPrompts, sent : BOOLEAN]
    BY DEF ClientTypes
  <2> QED
    BY <2>1, <2>2 DEF ClientTypes
<1>6. ClientTypes'
  <2>1. NoPrompt \in 0..MaxPrompts
    BY PromptAssumption DEF NoPrompt
  <2> QED
    BY <1>5, <2>1 DEF ClientTypes
<1> QED
  BY <1>4, <1>6

\* Every step keeps the types of the clients and of the network.
LEMMA NetworkTypesStep == Types /\ [Next]_vars => ClientTypes' /\ NetworkTypes'
<1> SUFFICES ASSUME Types, [Next]_vars PROVE ClientTypes' /\ NetworkTypes'
  OBVIOUS
<1> USE DEF Types
<1>1. CASE DispatchPrompt
  <2> DEFINE message == Head(thread.batch)
  <2>1. message \in Packets /\ Prompted(message)
    BY <1>1, DispatchPromptHead
  <2>2. (\E seat \in Seats, packet \in Packets : Send(To(seat, packet))) \/ UNCHANGED toClient
    <3>1. \A p \in Prompts : p \in Packets /\ p.seat \in Seats
      BY DEF Prompts, Packets
    <3>2. Retry \in Packets
      BY DEF Packets
    <3> QED
      BY <2>1, <3>1, <3>2, HumansSit, PromptedForms DEF SendToPlayer
  <2>3. toClient' \in [Seats -> Seq(Packets)]
    BY <2>2, SendOne DEF NetworkTypes
  <2> QED
    BY <1>1, <2>3 DEF DispatchPrompt, NetworkTypes, ClientTypes
<1>2. ASSUME NEW seat \in Humans, HandleResponse(seat) PROVE ClientTypes' /\ NetworkTypes'
  <2>1. toServer[seat] \in Seq(1..MaxPrompts) /\ toServer[seat] # <<>>
    BY <1>2, HumansSit DEF NetworkTypes, HandleResponse
  <2>2. Tail(toServer[seat]) \in Seq(1..MaxPrompts)
    BY <2>1, RestTyped
  <2> QED
    BY <1>2, <2>2 DEF HandleResponse, NetworkTypes, ClientTypes
<1>3. ASSUME NEW seat \in Humans, Receive(seat) PROVE ClientTypes' /\ NetworkTypes'
  BY <1>3, HumansSit, ReceivedTypes
<1>4. ASSUME NEW seat \in Humans, Respond(seat) PROVE ClientTypes' /\ NetworkTypes'
  BY <1>4, HumansSit, RespondedTypes
<1>5. CASE UNCHANGED <<client, toClient, toServer>>
  BY <1>5 DEF NetworkTypes, ClientTypes
<1> QED
  BY <1>1, <1>2, <1>3, <1>4, <1>5
  DEF Next, ThreadStep, vars, Start, EnterProcess, RunCore, AutoPass, DispatchInfo, DispatchWin, BatchDone,
      ProcessSoloAutoResponse, FinishDuel, Shutdown

\* Telling a result counts it for the humans and for nobody else.
LEMMA SendResultCounts ==
    ASSUME HistoryTypes, NEW times \in Nat, SendResult(times)
    PROVE  /\ results' \in [Seats -> Nat]
           /\ \A seat \in Humans : results'[seat] = results[seat] + times
           /\ \A seat \in Seats \ Humans : results'[seat] = results[seat]
BY HumansSit DEF HistoryTypes, SendResult

\* Every step keeps the types of the history.
LEMMA HistoryTypesStep == Types /\ [Next]_vars => HistoryTypes'
<1> SUFFICES ASSUME Types, [Next]_vars PROVE HistoryTypes'
  OBVIOUS
<1> USE DEF Types
<1>1. \A won \in Nat, sent \in BOOLEAN : OnDuelEnd(sent, won) => results' \in [Seats -> Nat]
  <2> SUFFICES ASSUME NEW won \in Nat, NEW sent \in BOOLEAN, OnDuelEnd(sent, won)
               PROVE  results' \in [Seats -> Nat]
    OBVIOUS
  <2> DEFINE times == won + (IF sent \/ ~session.active THEN 0 ELSE 1)
  <2>1. times \in Nat /\ SendResult(times)
    BY DEF OnDuelEnd
  <2> QED
    BY <2>1, SendResultCounts
<1>2. results' \in [Seats -> Nat]
  <2>1. CASE DispatchWin
    BY <2>1, <1>1 DEF DispatchWin, HandlerTypes
  <2>2. CASE BatchDone
    <3>1. handler.winSent \in BOOLEAN
      BY DEF HandlerTypes
    <3> QED
      BY <2>2, <3>1, <1>1, BatchDoneForms DEF HistoryTypes
  <2>3. CASE FinishDuel
    BY <2>3, SendResultCounts DEF FinishDuel
  <2>4. CASE results' = results
    BY <2>4 DEF HistoryTypes
  <2> QED
    BY <2>1, <2>2, <2>3, <2>4
    DEF Next, ThreadStep, vars, Start, EnterProcess, RunCore, AutoPass, DispatchInfo, DispatchPrompt,
        HandleResponse, ProcessSoloAutoResponse, Shutdown, Receive, Respond
<1>3. misuse' \in BOOLEAN
  <2>1. misuse \in BOOLEAN /\ session.closed \in BOOLEAN
    BY DEF HistoryTypes, SessionTypes
  <2>2. CASE Native
    BY <2>1, <2>2 DEF Native
  <2>3. CASE misuse' = misuse
    BY <2>1, <2>3
  <2> QED
    BY <2>2, <2>3
    DEF Next, ThreadStep, vars, Start, EnterProcess, RunCore, AutoPass, DispatchInfo, DispatchPrompt,
        DispatchWin, BatchDone, HandleResponse, ProcessSoloAutoResponse, SetResponse, FinishDuel, Shutdown,
        Receive, Respond
<1> QED
  BY <1>2, <1>3 DEF HistoryTypes

\* Every step keeps every type.
LEMMA TypesStep == Types /\ [Next]_vars => Types'
BY CoreTypesStep, SessionTypesStep, HandlerTypesStep, ThreadTypesStep, NetworkTypesStep, HistoryTypesStep
DEF Types

-----------------------------------------------------------------------------
(* The life of the session *)

\* The thread moves as Goto says.
LEMMA GotoMoves ==
    ASSUME ThreadTypes, NEW place, Goto(place)
    PROVE  thread'.at = place
BY DEF ThreadTypes, Goto

\* Where RunCore leaves the thread.
LEMMA RunCoreMoves ==
    ASSUME CoreTypes, ThreadTypes, RunCore
    PROVE  thread'.at = "dispatch"
<1>1. CASE Refuses
  BY <1>1 DEF Refuses, ThreadTypes
<1>2. CASE GoesOn
  BY <1>2, GoesOnForms DEF ThreadTypes
<1> QED
  BY <1>1, <1>2 DEF RunCore

\* Initially the session is not there yet.
LEMMA InitLifecycle == Init => Lifecycle
BY DEF Init, Lifecycle

\* Every step keeps the thread inside a live duel only.
LEMMA LifecycleStep == Types /\ Lifecycle /\ [Next]_vars => Lifecycle'
<1> SUFFICES ASSUME Types, Lifecycle, [Next]_vars PROVE Lifecycle'
  OBVIOUS
<1>0. CoreTypes /\ ThreadTypes /\ SessionTypes /\ HandlerTypes
  BY DEF Types
<1>1. CASE Start
  BY <1>0, <1>1, GotoMoves DEF Start, Lifecycle, SessionTypes, Native
<1>2. CASE EnterProcess
  <2>1. thread'.at \in {"auto", "run"}
    BY <1>0, <1>2, GotoMoves DEF EnterProcess
  <2> QED
    BY <1>2, <2>1 DEF EnterProcess, Lifecycle
<1>3. CASE RunCore
  BY <1>0, <1>3, RunCoreMoves DEF RunCore, Lifecycle, Native
<1>4. CASE AutoPass \/ DispatchInfo
  <2>1. thread'.at = "dispatch" /\ thread.at = "dispatch"
    BY <1>0, <1>4 DEF AutoPass, DispatchInfo, ThreadTypes
  <2> QED
    BY <1>4, <2>1 DEF AutoPass, DispatchInfo, Lifecycle, Native
<1>5. CASE DispatchPrompt
  BY <1>0, <1>5, GotoMoves DEF DispatchPrompt, Lifecycle, Native
<1>6. CASE DispatchWin
  BY <1>0, <1>6, GotoMoves DEF DispatchWin, Lifecycle, Native, OnDuelEnd
<1>7. CASE BatchDone
  <2>1. misuse' = misuse /\ thread.at = "dispatch"
    BY <1>7 DEF BatchDone
  <2>2. CASE Goto("run") /\ UNCHANGED <<session, results>>
    BY <1>0, <2>1, <2>2, GotoMoves DEF Lifecycle
  <2>3. CASE Goto("auto") /\ OnDuelEnd(handler.winSent, 0)
    BY <1>0, <2>1, <2>3, GotoMoves DEF Lifecycle, OnDuelEnd
  <2>4. CASE Goto("auto") /\ UNCHANGED <<session, results>>
    BY <1>0, <2>1, <2>4, GotoMoves DEF Lifecycle
  <2> QED
    BY <1>7, <2>2, <2>3, <2>4, BatchDoneForms
<1>8. ASSUME NEW seat, HandleResponse(seat) PROVE Lifecycle'
  <2>1. CASE Accepts /\ handler.pending = seat
    BY <1>0, <1>8, <2>1, GotoMoves DEF HandleResponse, SetResponse, Accepts, Native, Lifecycle
  <2>2. CASE ~(Accepts /\ handler.pending = seat)
    BY <1>8, <2>2 DEF HandleResponse, Lifecycle
  <2> QED
    BY <2>1, <2>2
<1>9. CASE ProcessSoloAutoResponse
  <2>1. CASE session.active /\ handler.auto # NoPrompt /\ Accepts
    BY <1>0, <1>9, <2>1, GotoMoves DEF ProcessSoloAutoResponse, SetResponse, Accepts, Native, Lifecycle
  <2>2. CASE ~(session.active /\ handler.auto # NoPrompt /\ Accepts)
    <3>1. Goto("idle") /\ UNCHANGED <<session, misuse>>
      BY <1>9, <2>2 DEF ProcessSoloAutoResponse
    <3> QED
      BY <1>0, <3>1, GotoMoves DEF Lifecycle
  <2> QED
    BY <2>1, <2>2
<1>10. CASE FinishDuel \/ Shutdown
  <2>1. session' = [session EXCEPT !.active = FALSE, !.closed = TRUE]
    BY <1>10 DEF FinishDuel, Shutdown, EndDuel
  <2>2. ~session'.active /\ session'.closed
    BY <1>0, <2>1 DEF SessionTypes
  <2>3. thread' = thread /\ thread.at = "idle" /\ misuse' = misuse
    BY <1>10 DEF FinishDuel, Shutdown, Idle
  <2> QED
    BY <2>2, <2>3 DEF Lifecycle
<1>11. CASE UNCHANGED <<session, thread, misuse>>
  BY <1>11 DEF Lifecycle
<1> QED
  BY <1>1, <1>2, <1>3, <1>4, <1>5, <1>6, <1>7, <1>8, <1>9, <1>10, <1>11
  DEF Next, ThreadStep, vars, Receive, Respond

\* A duel stays the kind of duel it is.
LEMMA SoloKept == Types /\ [Next]_vars => Solo' = Solo /\ Humans' = Humans
<1> SUFFICES ASSUME Types, [Next]_vars PROVE handler'.solo = handler.solo
  BY DEF Solo, Humans
<1>0. HandlerTypes /\ ThreadTypes
  BY DEF Types
<1>1. CASE DispatchPrompt
  <2>1. Head(thread.batch) \in Packets /\ Prompted(Head(thread.batch))
    BY <1>0, <1>1, DispatchPromptHead
  <2> QED
    BY <1>0, <2>1, PromptedForms DEF SendToPlayer, HandlerTypes
<1>2. CASE DispatchWin
  BY <1>0, <1>2 DEF DispatchWin, HandlerTypes
<1>3. CASE ProcessSoloAutoResponse
  BY <1>0, <1>3 DEF ProcessSoloAutoResponse, HandlerTypes
<1>4. CASE handler' = handler
  BY <1>4
<1> QED
  BY <1>1, <1>2, <1>3, <1>4
  DEF Next, ThreadStep, vars, Start, EnterProcess, RunCore, AutoPass, DispatchInfo, BatchDone,
      HandleResponse, FinishDuel, Shutdown, Receive, Respond

\* Only a win notes that a win was sent.
LEMMA WinSentKept ==
    Types /\ [Next]_vars /\ ~DispatchWin => handler'.winSent = handler.winSent
<1> SUFFICES ASSUME Types, [Next]_vars, ~DispatchWin PROVE handler'.winSent = handler.winSent
  OBVIOUS
<1>0. HandlerTypes /\ ThreadTypes
  BY DEF Types
<1>1. CASE DispatchPrompt
  <2>1. Head(thread.batch) \in Packets /\ Prompted(Head(thread.batch))
    BY <1>0, <1>1, DispatchPromptHead
  <2> QED
    BY <1>0, <2>1, PromptedForms DEF SendToPlayer, HandlerTypes
<1>2. CASE ProcessSoloAutoResponse
  BY <1>0, <1>2 DEF ProcessSoloAutoResponse, HandlerTypes
<1>3. CASE handler' = handler
  BY <1>3
<1> QED
  BY <1>1, <1>2, <1>3
  DEF Next, ThreadStep, vars, Start, EnterProcess, RunCore, AutoPass, DispatchInfo, BatchDone,
      HandleResponse, FinishDuel, Shutdown, Receive, Respond

-----------------------------------------------------------------------------
(* Results *)

\* Initially no result was told.
LEMMA InitTold == Init => Told
<1> SUFFICES ASSUME Init PROVE Told
  OBVIOUS
<1>1. results = [seat \in Seats |-> 0] /\ handler.winSent = FALSE /\ session.ended = FALSE
  BY DEF Init
<1>2. \A seat \in Seats : results[seat] = 0
  BY <1>1
<1> QED
  BY <1>1, <1>2, HumansSit DEF Told

\* Every step tells a result only where none was told.
LEMMA ToldStep == Types /\ Lifecycle /\ Told /\ [Next]_vars => Told'
<1> SUFFICES ASSUME Types, Lifecycle, Told, [Next]_vars PROVE Told'
  OBVIOUS
<1>0. HandlerTypes /\ SessionTypes /\ HistoryTypes /\ Humans' = Humans /\ Humans \subseteq Seats
  BY SoloKept, HumansSit DEF Types
<1>1. ASSUME session.active, SendResult(1), session'.closed
      PROVE  /\ session'.closed
             /\ \A seat \in Humans' : results'[seat] = 1
  <2>1. \A seat \in Humans : results[seat] = 0
    BY <1>0, <1>1 DEF Told, Lifecycle
  <2>2. \A seat \in Humans : results'[seat] = results[seat] + 1
    BY <1>0, <1>1, SendResultCounts
  <2> QED
    BY <1>0, <1>1, <2>1, <2>2
<1>2. CASE DispatchWin
  <2>1. session.active /\ handler'.winSent = TRUE
    BY <1>0, <1>2 DEF DispatchWin, Lifecycle, HandlerTypes
  <2>2. session'.closed /\ session'.ended
    BY <1>2 DEF DispatchWin, OnDuelEnd
  <2>3. SendResult(1)
    BY <1>2, <2>1 DEF DispatchWin, OnDuelEnd
  <2> QED
    BY <1>1, <2>1, <2>2, <2>3 DEF Told
<1>3. CASE BatchDone /\ OnDuelEnd(handler.winSent, 0)
  <2>1. session.active /\ ~handler.winSent
    BY <1>3 DEF BatchDone, Lifecycle, Told
  <2>2. session'.closed /\ session'.ended
    BY <1>3 DEF OnDuelEnd
  <2>3. SendResult(1)
    BY <1>3, <2>1 DEF OnDuelEnd
  <2> QED
    BY <1>1, <2>1, <2>2, <2>3 DEF Told
<1>4. CASE FinishDuel
  <2>1. session.active /\ SendResult(1)
    BY <1>4 DEF FinishDuel, EndDuel
  <2>2. session'.closed /\ session'.ended = session.ended
    BY <1>0, <1>4 DEF FinishDuel, EndDuel, SessionTypes
  <2>3. ~session.ended /\ handler' = handler
    BY <1>4, <2>1 DEF Lifecycle, FinishDuel
  <2> QED
    BY <1>1, <2>1, <2>2, <2>3 DEF Told
<1>5. ASSUME results' = results, session'.ended = session.ended, session.closed => session'.closed,
             handler'.winSent = handler.winSent
      PROVE  Told'
  BY <1>0, <1>5 DEF Told
<1>6. CASE Start \/ Shutdown
  <2>1. results' = results /\ handler' = handler /\ session'.ended = session.ended
    BY <1>0, <1>6 DEF Start, Shutdown, EndDuel, SessionTypes
  <2>2. session.closed => session'.closed
    BY <1>0, <1>6 DEF Start, Shutdown, EndDuel, SessionTypes
  <2> QED
    BY <1>5, <2>1, <2>2
<1>7. CASE UNCHANGED <<session, results>> /\ ~DispatchWin
  BY <1>5, <1>7, WinSentKept
<1>8. ~DispatchWin /\ ~FinishDuel /\ ~Start /\ ~Shutdown /\ ~(BatchDone /\ OnDuelEnd(handler.winSent, 0))
        => UNCHANGED <<session, results>>
  BY BatchDoneForms
  DEF Next, ThreadStep, vars, EnterProcess, RunCore, AutoPass, DispatchInfo, DispatchPrompt,
      HandleResponse, ProcessSoloAutoResponse, Receive, Respond
<1> QED
  BY <1>2, <1>3, <1>4, <1>6, <1>7, <1>8

-----------------------------------------------------------------------------
(* The token *)

\* Short sequences.
LEMMA ShortSequences ==
    /\ \A a : Head(<<a>>) = a /\ Tail(<<a>>) = <<>> /\ <<a>> # <<>>
    /\ \A a, b : Head(<<a, b>>) = a /\ Tail(<<a, b>>) = <<b>> /\ <<a, b>> # <<>>
    /\ \A a, b : <<>> \o <<a>> = <<a>> /\ <<a>> \o <<>> = <<a>> /\ <<a>> \o <<b>> = <<a, b>>
    /\ <<>> \o <<>> = <<>>
    /\ \A a : Append(<<>>, a) = <<a>>
<1>1. \A a : Head(<<a>>) = a /\ Tail(<<a>>) = <<>> /\ <<a>> # <<>>
  OBVIOUS
<1>2. \A a, b : Head(<<a, b>>) = a /\ Tail(<<a, b>>) = <<b>> /\ <<a, b>> # <<>>
  OBVIOUS
<1>3. \A a : <<>> \o <<a>> = <<a>> /\ <<a>> \o <<>> = <<a>>
  OBVIOUS
<1>4. ASSUME NEW a, NEW b PROVE <<a>> \o <<b>> = <<a, b>>
  <2> DEFINE joined == <<a>> \o <<b>>
  <2>1. <<a>> \in Seq({a, b}) /\ <<b>> \in Seq({a, b})
    OBVIOUS
  <2>2. joined \in Seq({a, b}) /\ Len(joined) = 2
    BY <2>1
  <2>3. joined[1] = a /\ joined[2] = b
    BY <2>1
  <2>4. <<a, b>> \in Seq({a, b}) /\ Len(<<a, b>>) = 2
    OBVIOUS
  <2>5. \A i \in 1..Len(joined) : joined[i] = <<a, b>>[i]
    BY <2>2, <2>3
  <2> HIDE DEF joined
  <2>6. joined = <<a, b>>
    BY <2>2, <2>4, <2>5, SeqEqual
  <2> QED
    BY <2>6 DEF joined
<1>5. <<>> \o <<>> = <<>>
  OBVIOUS
<1>6. \A a : Append(<<>>, a) = <<a>>
  OBVIOUS
<1> QED
  BY <1>1, <1>2, <1>3, <1>4, <1>5, <1>6

\* Initially there is no duel, and so no token.
LEMMA InitToken == Init => TokenInv
<1> SUFFICES ASSUME Init PROVE TokenInv
  OBVIOUS
<1>1. ~session.active /\ thread.at = "idle" /\ handler.auto = NoPrompt
  BY DEF Init
<1>2. ~Waits /\ ~Answered
  BY DEF Init, NewCore, Waits, Answered
<1>3. AllQuiet
  BY DEF Init, AllQuiet, Quiet, Nothing
<1> QED
  BY <1>1, <1>2, <1>3 DEF TokenInv

\* The token stays where it is when nothing it is made of changes.
LEMMA TokenFrame ==
    ASSUME UNCHANGED <<core, handler, client, toClient, toServer>>
    PROVE  /\ HumanAsked => HumanAsked'
           /\ AiAsked => AiAsked'
           /\ Supplied => Supplied'
           /\ AllQuiet => AllQuiet'
           /\ Answered' = Answered /\ Waits' = Waits
<1>1. Answered' = Answered /\ Waits' = Waits /\ Given' = Given
  BY DEF Answered, Waits, Given
<1>2. AllQuiet' = AllQuiet
  BY DEF AllQuiet, Quiet
<1>3. HumanAsked => HumanAsked'
  BY <1>1 DEF HumanAsked, HumanFor, Humans, Solo, Asks, Quiet
<1>4. Retriable' = Retriable /\ AiTurn' = AiTurn
  BY DEF Retriable, AiTurn, HumanFor, Humans, Solo
<1>5. AiAsked => AiAsked'
  BY <1>1, <1>2, <1>4 DEF AiAsked
<1>6. Supplied => Supplied'
  BY <1>1, <1>2, <1>4 DEF Supplied, Solo
<1> QED
  BY <1>1, <1>2, <1>3, <1>5, <1>6

\* A duel starts with a core that waits for nothing.
LEMMA StartToken ==
    ASSUME Types, TokenInv, Start
    PROVE  TokenInv'
<1>1. AllQuiet /\ handler.auto = NoPrompt /\ ~Waits /\ ~Answered
  BY DEF Start, TokenInv
<1>2. ~Given /\ core.answer # Pass
  BY <1>1, AnswersApart DEF Answered, Given
<1>3. Supplied
  BY <1>1, <1>2 DEF Supplied
<1>4. Supplied'
  BY <1>3, TokenFrame DEF Start
<1>5. thread'.at = "process" /\ session'.active
  BY GotoMoves DEF Start, Types, SessionTypes
<1> QED
  BY <1>4, <1>5 DEF TokenInv

\* The core refuses an answer, and the batch is a retry for the one who gave it.
LEMMA RefusesToken ==
    ASSUME CoreTypes, ThreadTypes, Supplied, Refuses, UNCHANGED <<handler, client, toClient, toServer>>
    PROVE  Dispatching'
<1>1. core'.prompt = core.prompt /\ core'.answer = NoAnswer
  BY DEF Refuses, CoreTypes
<1>2. /\ thread'.batch = <<Retry>> /\ thread'.status = DUEL_STATUS_AWAITING
      /\ ~thread'.autoResponded
  BY DEF Refuses, ThreadTypes
<1>3. Given /\ Waits
  BY DEF Refuses, Given, Answered
<1>4. Retriable
  BY <1>3 DEF Supplied
<1>5. Retriable'
  BY <1>1, <1>4 DEF Retriable, HumanFor, AiTurn, Humans, Solo
<1>6. Waits' /\ ~Answered'
  BY <1>1, <1>3 DEF Waits, Answered
<1>7. AllQuiet' /\ handler'.auto = NoPrompt
  BY DEF Supplied, AllQuiet, Quiet
<1> QED
  BY <1>2, <1>5, <1>6, <1>7 DEF Dispatching, BatchRefused

\* The core goes on, and the batch ends as it stops.
LEMMA GoesOnToken ==
    ASSUME CoreTypes, ThreadTypes, Supplied, GoesOn, UNCHANGED <<handler, client, toClient, toServer>>
    PROVE  Dispatching'
<1>1. PICK infos \in {<<>>, <<Info>>}, stop \in Prompts \cup {NoMessage},
           id \in 1..(MaxPrompts + 1), last \in Seq(Messages),
           status \in {DUEL_STATUS_END, DUEL_STATUS_AWAITING, DUEL_STATUS_CONTINUE} :
            /\ core' = [prompt |-> stop, answer |-> NoAnswer, prompts |-> id]
            /\ thread' = [thread EXCEPT !.at = "dispatch", !.batch = infos \o last,
                                        !.status = status, !.autoResponded = FALSE]
            /\ \/ stop \in Prompts /\ last = <<stop>> /\ status = DUEL_STATUS_AWAITING
               \/ stop = NoMessage /\ last \in {<<>>, <<Win>>} /\ status # DUEL_STATUS_AWAITING
  BY GoesOnForms
<1>2. core'.prompt = stop /\ core'.answer = NoAnswer
  BY <1>1
<1>3. /\ thread'.batch = infos \o last /\ thread'.status = status
      /\ ~thread'.autoResponded
  BY <1>1 DEF ThreadTypes
<1>4. AllQuiet' /\ handler'.auto = NoPrompt /\ ~Answered'
  BY <1>2 DEF Supplied, AllQuiet, Quiet, Answered
<1>5. CASE stop \in Prompts /\ last = <<stop>> /\ status = DUEL_STATUS_AWAITING
  <2>1. thread'.batch \in {<<stop>>, <<Info, stop>>}
    <3>1. <<>> \o <<stop>> = <<stop>> /\ <<Info>> \o <<stop>> = <<Info, stop>>
      BY ShortSequences
    <3> QED
      BY <1>3, <1>5, <3>1
  <2>2. Waits'
    BY <1>2, <1>5, MessagesApart DEF Waits
  <2> QED
    BY <1>2, <1>3, <1>4, <1>5, <2>1, <2>2 DEF Dispatching, BatchPrompts
<1>6. CASE stop = NoMessage /\ last \in {<<>>, <<Win>>} /\ status # DUEL_STATUS_AWAITING
  <2>1. thread'.batch \in {<<>>, <<Info>>, <<Win>>, <<Info, Win>>}
    <3>1. <<Info>> \o <<Win>> = <<Info, Win>> /\ <<Info>> \o <<>> = <<Info>>
      BY ShortSequences
    <3>2. <<>> \o <<Win>> = <<Win>> /\ <<>> \o <<>> = <<>>
      BY ShortSequences
    <3>3. CASE infos = <<>>
      BY <1>3, <1>6, <3>2, <3>3
    <3>4. CASE infos = <<Info>>
      BY <1>3, <1>6, <3>1, <3>4
    <3> QED
      BY <3>3, <3>4
  <2>2. ~Waits'
    BY <1>2, <1>6 DEF Waits
  <2> QED
    BY <1>2, <1>3, <1>4, <1>6, <2>1, <2>2 DEF Dispatching, BatchStops
<1> QED
  BY <1>1, <1>5, <1>6

\* The core turns an answer into a batch.
LEMMA RunCoreToken ==
    ASSUME Types, Lifecycle, TokenInv, RunCore
    PROVE  TokenInv'
<1>1. session.active /\ Supplied
  BY DEF RunCore, Lifecycle, TokenInv
<1>2. Dispatching'
  BY <1>1, RefusesToken, GoesOnToken DEF RunCore, Types
<1>3. thread'.at = "dispatch" /\ session' = session
  BY RunCoreMoves DEF RunCore, Types
<1> QED
  BY <1>1, <1>2, <1>3 DEF TokenInv

\* What the next message of a batch is, and what is left after it.
LEMMA NextMessage ==
    ASSUME CoreTypes, Dispatching, thread.batch # <<>>
    PROVE  \/ BatchRefused /\ Head(thread.batch) = Retry
           \/ /\ BatchPrompts /\ Head(thread.batch) = Info
              /\ Tail(thread.batch) = <<core.prompt>>
           \/ BatchPrompts /\ Head(thread.batch) = core.prompt /\ core.prompt \in Prompts
           \/ /\ BatchStops /\ Head(thread.batch) = Info
              /\ Tail(thread.batch) \in {<<>>, <<Win>>}
           \/ BatchStops /\ Head(thread.batch) = Win
<1>1. CASE BatchRefused
  BY <1>1, ShortSequences DEF BatchRefused
<1>2. CASE BatchPrompts
  <2>1. core.prompt \in Prompts
    BY <1>2 DEF BatchPrompts, Waits, CoreTypes
  <2>2. CASE thread.batch = <<core.prompt>>
    <3>1. Head(thread.batch) = core.prompt
      BY <2>2, ShortSequences
    <3> QED
      BY <1>2, <2>1, <3>1
  <2>3. CASE thread.batch = <<Info, core.prompt>>
    <3>1. Head(thread.batch) = Info /\ Tail(thread.batch) = <<core.prompt>>
      BY <2>3, ShortSequences
    <3> QED
      BY <1>2, <3>1
  <2> QED
    BY <1>2, <2>2, <2>3 DEF BatchPrompts
<1>3. CASE BatchStops
  <2>1. thread.batch \in {<<Info>>, <<Win>>, <<Info, Win>>}
    BY <1>3 DEF BatchStops
  <2>2. CASE thread.batch = <<Win>>
    <3>1. Head(thread.batch) = Win
      BY <2>2, ShortSequences
    <3> QED
      BY <1>3, <3>1
  <2>3. CASE thread.batch \in {<<Info>>, <<Info, Win>>}
    <3>1. Head(thread.batch) = Info /\ Tail(thread.batch) \in {<<>>, <<Win>>}
      BY <2>3, ShortSequences
    <3> QED
      BY <1>3, <3>1
  <2> QED
    BY <2>1, <2>2, <2>3
<1> QED
  BY <1>1, <1>2, <1>3 DEF Dispatching, BatchPassed

\* Prompts and the plain messages, as the guards of the loop see them.
LEMMA Guards ==
    /\ \A message : IsEmptyChain(message) => message \notin {Info, Retry, Win, NoMessage}
    /\ \A message \in Packets : ~IsInfo(message) /\ message # Win
<1>1. Info.type = "info" /\ Retry.type = "retry" /\ Win.type = "win" /\ NoMessage.type = "none"
  BY DEF Info, Retry, Win, NoMessage
<1> QED
  BY <1>1, MessagesApart DEF IsEmptyChain, IsInfo, Packets

\* An empty chain is passed, which is the answer the core goes on with.
LEMMA AutoPassToken ==
    ASSUME Types, Lifecycle, TokenInv, AutoPass
    PROVE  TokenInv'
<1>1. session.active /\ Dispatching
  BY DEF AutoPass, Lifecycle, TokenInv
<1>2. IsEmptyChain(core.prompt)
  BY <1>1, NextMessage, Guards DEF AutoPass, Types
<1>3. core'.prompt = core.prompt /\ core'.answer = Pass
  BY DEF AutoPass, Types, CoreTypes
<1>4. thread'.batch = <<>> /\ thread'.autoResponded /\ thread'.at = "dispatch"
  BY DEF AutoPass, Types, ThreadTypes
<1>5. AllQuiet' /\ handler'.auto = NoPrompt
  BY <1>1 DEF Dispatching, AllQuiet, Quiet, AutoPass
<1>6. Dispatching'
  BY <1>2, <1>3, <1>4, <1>5 DEF Dispatching, BatchPassed
<1> QED
  BY <1>1, <1>4, <1>6 DEF TokenInv, AutoPass

\* The listener goes through the messages before the last one.
LEMMA DispatchInfoToken ==
    ASSUME Types, Lifecycle, TokenInv, DispatchInfo
    PROVE  TokenInv'
<1>1. session.active /\ Dispatching /\ IsInfo(Head(thread.batch)) /\ thread.batch # <<>>
  BY DEF DispatchInfo, Lifecycle, TokenInv
<1>2. /\ thread'.batch = Tail(thread.batch) /\ thread'.status = thread.status
      /\ thread'.autoResponded = thread.autoResponded /\ thread'.at = "dispatch"
  BY DEF DispatchInfo, Types, ThreadTypes
<1>3. AllQuiet' /\ handler'.auto = NoPrompt /\ core' = core
  BY <1>1 DEF Dispatching, AllQuiet, Quiet, DispatchInfo
<1>4. Waits' = Waits /\ Answered' = Answered
  BY <1>3 DEF Waits, Answered
<1>5. ASSUME BatchPrompts, Tail(thread.batch) = <<core.prompt>> PROVE Dispatching'
  BY <1>2, <1>3, <1>4, <1>5 DEF BatchPrompts, Dispatching
<1>6. ASSUME BatchStops, Tail(thread.batch) \in {<<>>, <<Win>>} PROVE Dispatching'
  BY <1>2, <1>3, <1>4, <1>6 DEF BatchStops, Dispatching
<1>7. Dispatching'
  BY <1>1, <1>5, <1>6, NextMessage, MessagesApart DEF IsInfo, Types
<1> QED
  BY <1>1, <1>2, <1>7 DEF TokenInv, DispatchInfo

\* A packet to a human who may answer hands the token over.
LEMMA HandOver ==
    ASSUME NetworkTypes, AllQuiet, Waits, ~Answered, UNCHANGED <<core, client, toServer, Solo>>,
           NEW seat \in Seats, NEW packet \in Packets, Send(To(seat, packet)),
           packet = core.prompt \/ (packet = Retry /\ client[seat].last = core.prompt.id),
           HumanFor(seat), handler'.pending = seat, handler'.auto = NoPrompt
    PROVE  HumanAsked'
<1>1. /\ toClient'[seat] = toClient[seat] \o <<packet>>
      /\ \A other \in Seats \ {seat} : toClient'[other] = toClient[other]
  BY SendOne
<1>2. toClient'[seat] = <<packet>>
  BY <1>1, ShortSequences DEF AllQuiet, Quiet
<1>3. Asks(seat)'
  BY <1>2 DEF AllQuiet, Quiet, Asks
<1>4. \A other \in Seats \ {seat} : Quiet(other)'
  BY <1>1 DEF AllQuiet, Quiet
<1>5. HumanFor(seat)'
  BY DEF HumanFor, Humans
<1>6. Waits' /\ ~Answered'
  BY DEF Waits, Answered
<1> QED
  BY <1>3, <1>4, <1>5, <1>6 DEF HumanAsked

\* A prompt or a retry goes to a human, or the AI has an answer to it.
LEMMA DispatchPromptAsks ==
    ASSUME Types, Lifecycle, TokenInv, DispatchPrompt, Solo' = Solo
    PROVE  HumanAsked' \/ AiAsked'
<1> DEFINE message == Head(thread.batch)
<1>1. session.active /\ Dispatching /\ thread.batch # <<>>
  BY DEF DispatchPrompt, Lifecycle, TokenInv
<1>2. message \in Packets /\ Prompted(message)
  BY DispatchPromptHead DEF Types
<1>3. \/ BatchRefused /\ message = Retry
      \/ BatchPrompts /\ message = core.prompt /\ core.prompt \in Prompts
  BY <1>1, <1>2, NextMessage, Guards DEF Types, IsInfo
<1>4. Waits /\ ~Answered /\ AllQuiet /\ handler.auto = NoPrompt /\ core.prompt \in Prompts
  BY <1>1, <1>3 DEF BatchRefused, BatchPrompts, Dispatching, Waits, Types, CoreTypes
<1>5. NetworkTypes /\ HandlerTypes /\ UNCHANGED <<core, client, toServer, Solo>>
  BY DEF Types, DispatchPrompt
<1>6. core.prompt.seat \in Seats /\ core.prompt.id \in 1..MaxPrompts
  BY <1>4 DEF Prompts
<1>7. core.prompt \in Packets /\ Retry \in Packets /\ Retry # core.prompt
  BY <1>4, MessagesApart DEF Packets
<1>8. Solo => Humans = {HUMAN_PLAYER}
  BY DEF Humans
<1>9. ~Solo => Humans = Seats
  BY DEF Humans
<1>10. CASE BatchPrompts /\ message = core.prompt
  <2>1. CASE ~Solo /\ SendToPlayer(message.seat, message)
    <3>1. handler'.pending = core.prompt.seat /\ handler'.auto = NoPrompt
      BY <1>4, <1>5, <1>10, <2>1 DEF SendToPlayer, HandlerTypes
    <3>2. HumanFor(core.prompt.seat) /\ Send(To(core.prompt.seat, core.prompt))
      BY <1>6, <1>9, <1>10, <2>1 DEF HumanFor, SendToPlayer
    <3> QED
      BY <1>4, <1>5, <1>6, <1>7, <3>1, <3>2, HandOver
  <2>2. CASE /\ Solo /\ Send(To(HUMAN_PLAYER, message))
             /\ handler' = [handler EXCEPT !.last = message, !.pending = HUMAN_PLAYER, !.retries = 0]
    <3>1. handler'.pending = HUMAN_PLAYER /\ handler'.auto = NoPrompt
      BY <1>4, <1>5, <2>2 DEF HandlerTypes
    <3>2. HumanFor(HUMAN_PLAYER) /\ HUMAN_PLAYER \in Seats
      BY <1>8, <2>2, HumansSit DEF HumanFor
    <3> QED
      BY <1>4, <1>5, <1>7, <1>10, <2>2, <3>1, <3>2, HandOver
  <2>3. CASE /\ Solo /\ message.seat = AI /\ UNCHANGED toClient
             /\ handler' = [handler EXCEPT !.last = message, !.pending = AI, !.retries = 0,
                                           !.auto = message.id]
    <3>1. handler'.pending = AI /\ handler'.last = core.prompt /\ handler'.auto = core.prompt.id
      BY <1>5, <1>10, <2>3 DEF HandlerTypes
    <3>2. AiTurn'
      BY <1>5, <1>10, <2>3, <3>1 DEF AiTurn
    <3>3. AllQuiet' /\ Waits' /\ ~Answered'
      BY <1>4, <1>5, <2>3 DEF AllQuiet, Quiet, Waits, Answered
    <3> QED
      BY <1>5, <3>1, <3>2, <3>3 DEF AiAsked
  <2> QED
    BY <1>2, <1>5, <1>7, <1>10, <2>1, <2>2, <2>3, PromptedForms
<1>11. CASE BatchRefused /\ message = Retry
  <2>1. Retriable
    BY <1>11 DEF BatchRefused
  <2>2. CASE ~Solo
    <3>1. HumanFor(handler.pending) /\ client[handler.pending].last = core.prompt.id
      BY <2>1, <2>2 DEF Retriable, AiTurn
    <3>2. handler.pending \in Seats /\ handler.pending # NoSeat
      BY <1>9, <2>2, <3>1 DEF HumanFor, Seats, NoSeat
    <3>3. SendToPlayer(handler.pending, Retry)
      BY <1>2, <1>5, <1>11, <2>2, <3>2, PromptedForms, MessagesApart
    <3>4. handler'.pending = handler.pending /\ handler'.auto = NoPrompt
      BY <1>4, <1>5, <3>3 DEF SendToPlayer, HandlerTypes
    <3>5. Send(To(handler.pending, Retry))
      BY <3>3 DEF SendToPlayer
    <3> QED
      BY <1>4, <1>5, <1>7, <3>1, <3>2, <3>4, <3>5, HandOver
  <2>3. CASE Solo /\ ~AiTurn
    <3>1. handler.pending = HUMAN_PLAYER /\ client[HUMAN_PLAYER].last = core.prompt.id /\ HumanFor(HUMAN_PLAYER)
      BY <1>8, <2>1, <2>3 DEF Retriable, HumanFor
    <3>2. handler' = handler /\ Send(To(HUMAN_PLAYER, Retry))
      <4>1. HUMAN_PLAYER # AI /\ Retry \notin Prompts
        BY MessagesApart DEF HUMAN_PLAYER, AI
      <4>2. HandleRetry
        BY <1>2, <1>11, <2>3 DEF Prompted
      <4> QED
        BY <3>1, <4>1, <4>2 DEF HandleRetry
    <3> QED
      BY <1>4, <1>5, <1>7, <3>1, <3>2, HumansSit, HandOver
  <2>4. CASE Solo /\ AiTurn
    <3>1. handler.pending = AI /\ handler.last = core.prompt /\ core.prompt.seat = AI /\ handler.last # NoMessage
      BY <2>4, <1>4, MessagesApart DEF AiTurn
    <3>2. CASE /\ handler' = [handler EXCEPT !.pending = HUMAN_PLAYER, !.retries = @ + 1]
               /\ Send(To(HUMAN_PLAYER, handler.last))
      <4>1. handler'.pending = HUMAN_PLAYER /\ handler'.auto = NoPrompt
        BY <1>4, <1>5, <3>2 DEF HandlerTypes
      <4>2. HumanFor(HUMAN_PLAYER)
        BY <1>8, <2>4, HumansSit DEF HumanFor
      <4> QED
        BY <1>4, <1>5, <1>7, <3>1, <3>2, <4>1, <4>2, HumansSit, HandOver
    <3>3. CASE /\ handler' = [handler EXCEPT !.retries = @ + 1, !.auto = handler.last.id]
               /\ UNCHANGED toClient
      <4>1. handler'.pending = AI /\ handler'.last = core.prompt /\ handler'.auto = core.prompt.id
        BY <1>5, <3>1, <3>3 DEF HandlerTypes
      <4>2. AiTurn'
        BY <1>5, <2>4, <3>1, <4>1 DEF AiTurn
      <4>3. AllQuiet' /\ Waits' /\ ~Answered'
        BY <1>4, <1>5, <3>3 DEF AllQuiet, Quiet, Waits, Answered
      <4> QED
        BY <1>5, <4>1, <4>2, <4>3 DEF AiAsked
    <3> QED
      BY <1>2, <1>5, <1>11, <2>4, <3>1, <3>2, <3>3, PromptedForms, MessagesApart
  <2> QED
    BY <2>2, <2>3, <2>4
<1> QED
  BY <1>3, <1>10, <1>11

\* After a prompt or a retry the thread leaves, and someone is asked.
LEMMA DispatchPromptToken ==
    ASSUME Types, Lifecycle, TokenInv, DispatchPrompt, Solo' = Solo
    PROVE  TokenInv'
<1>1. HumanAsked' \/ AiAsked'
  BY DispatchPromptAsks
<1>2. thread'.at = "auto" /\ session' = session /\ session.active
  BY GotoMoves DEF DispatchPrompt, Types, Lifecycle
<1> QED
  BY <1>1, <1>2 DEF TokenInv

\* A win ends the duel with nothing given to the core.
LEMMA DispatchWinToken ==
    ASSUME Types, Lifecycle, TokenInv, DispatchWin
    PROVE  TokenInv'
<1>1. Dispatching /\ Head(thread.batch) = Win /\ thread.batch # <<>>
  BY DEF DispatchWin, Lifecycle, TokenInv
<1>2. BatchStops
  BY <1>1, NextMessage, MessagesApart DEF Types
<1>3. ~Answered'
  BY <1>2 DEF BatchStops, Answered, DispatchWin
<1>4. ~session'.active /\ session'.closed
  BY DEF DispatchWin, OnDuelEnd
<1> QED
  BY <1>3, <1>4 DEF TokenInv

\* A batch without a prompt lets the core run on or ends the duel.
LEMMA BatchDoneToken ==
    ASSUME Types, Lifecycle, TokenInv, BatchDone
    PROVE  TokenInv'
<1>1. session.active /\ Dispatching /\ thread.batch = <<>> /\ UNCHANGED <<core, handler, client, toClient, toServer>>
  BY DEF BatchDone, Lifecycle, TokenInv
<1>2. BatchPassed \/ BatchStops
  BY <1>1, ShortSequences DEF Dispatching, BatchRefused, BatchPrompts
<1>3. CASE Goto("run") /\ UNCHANGED <<session, results>>
  <2>1. Supplied
    <3>1. CASE BatchPassed
      <4>1. Waits
        BY <3>1, Guards DEF BatchPassed, Waits
      <4>2. Answered /\ ~Given
        BY <3>1, AnswersApart DEF BatchPassed, Answered, Given
      <4> QED
        BY <1>1, <3>1, <4>1, <4>2 DEF Supplied, Dispatching, BatchPassed
    <3>2. CASE BatchStops
      <4>1. ~Given /\ core.answer # Pass
        BY <3>2, AnswersApart DEF BatchStops, Answered, Given
      <4> QED
        BY <1>1, <3>2, <4>1 DEF Supplied, Dispatching, BatchStops
    <3> QED
      BY <1>2, <3>1, <3>2
  <2>2. Supplied'
    BY <1>1, <2>1, TokenFrame
  <2>3. thread'.at = "run"
    BY <1>3, GotoMoves DEF Types
  <2> QED
    BY <1>1, <1>3, <2>2, <2>3 DEF TokenInv
<1>4. CASE ~thread.autoResponded /\ Goto("auto") /\ OnDuelEnd(handler.winSent, 0)
  <2>1. ~Answered'
    BY <1>1, <1>2, <1>4 DEF BatchPassed, BatchStops, Answered
  <2>2. ~session'.active /\ session'.closed
    BY <1>4 DEF OnDuelEnd
  <2> QED
    BY <2>1, <2>2 DEF TokenInv
<1>5. ~(thread.status \notin {DUEL_STATUS_CONTINUE, DUEL_STATUS_END} /\ ~thread.autoResponded)
  BY <1>2 DEF BatchPassed, BatchStops, Types, ThreadTypes
<1> QED
  BY <1>3, <1>4, <1>5, BatchDoneForms

\* An answer given to the core lets it go on.
LEMMA AnswerSupplies ==
    ASSUME CoreTypes, Waits, NEW seat \in Seats, SetResponse(Answer(seat, core.prompt.id)),
           core.prompt \in Prompts, AllQuiet', handler'.auto = NoPrompt, Retriable', Solo' = Solo,
           seat = core.prompt.seat \/ (Solo /\ core.prompt.seat = AI /\ seat = HUMAN_PLAYER)
    PROVE  Supplied'
<1> DEFINE answer == Answer(seat, core.prompt.id)
<1>1. core'.answer = answer /\ core'.prompt = core.prompt
  BY DEF SetResponse, CoreTypes
<1>2. core.prompt.id \in Nat
  BY DEF Prompts
<1>3. /\ answer \notin {NoAnswer, Pass}
      /\ answer.by = seat /\ answer.of = core.prompt.id
  BY <1>2, AnswersApart
<1>4. Waits' /\ Answered'
  BY <1>1, <1>3 DEF Waits, Answered
<1> HIDE DEF answer
<1> QED
  BY <1>1, <1>3, <1>4 DEF Supplied

\* The only answer under way to a running duel is the one of the human asked.
LEMMA ResponseAwaited ==
    ASSUME HumanAsked, NEW seat \in Seats, toServer[seat] # <<>>
    PROVE  /\ handler.pending = seat /\ toServer[seat] = <<core.prompt.id>> /\ toClient[seat] = <<>>
           /\ client[seat].prompt = NoPrompt /\ client[seat].last = core.prompt.id
<1>1. handler.pending = seat
  BY DEF HumanAsked, Quiet
<1> QED
  BY <1>1 DEF HumanAsked, Asks

\* Nothing is under way to or from a duel that has not started.
LEMMA NotStartedQuiet ==
    ASSUME TokenInv, ~session.active, NEW seat \in Seats, ~Quiet(seat)
    PROVE  session.closed
BY DEF TokenInv, AllQuiet

\* A response brings the token back, or is for a duel that is over.
LEMMA HandleResponseToken ==
    ASSUME Types, Lifecycle, TokenInv, NEW seat \in Humans, HandleResponse(seat)
    PROVE  TokenInv'
<1>1. seat \in Seats /\ toServer[seat] # <<>> /\ thread.at = "idle"
  BY HumansSit DEF HandleResponse, Idle
<1>2. CASE session.active
  <2>1. HumanAsked /\ Accepts
    BY <1>1, <1>2 DEF TokenInv, Accepts, Lifecycle
  <2>2. /\ handler.pending = seat /\ toServer[seat] = <<core.prompt.id>> /\ toClient[seat] = <<>>
        /\ client[seat].prompt = NoPrompt /\ client[seat].last = core.prompt.id
    BY <1>1, <2>1, ResponseAwaited
  <2>3. SetResponse(Answer(seat, core.prompt.id))
    BY <2>1, <2>2, ShortSequences DEF HandleResponse
  <2>4. toServer'[seat] = <<>> /\ \A other \in Seats \ {seat} : toServer'[other] = toServer[other]
    <3>1. toServer' = [toServer EXCEPT ![seat] = <<>>]
      BY <2>2, ShortSequences DEF HandleResponse
    <3> QED
      BY <1>1, <3>1 DEF Types, NetworkTypes
  <2>5. AllQuiet'
    BY <2>1, <2>2, <2>4 DEF AllQuiet, Quiet, HumanAsked, HandleResponse
  <2>6. core.prompt \in Prompts /\ Waits /\ HumanFor(seat) /\ handler.auto = NoPrompt
    BY <2>1, <2>2 DEF HumanAsked, Waits, Types, CoreTypes
  <2>7. core'.prompt = core.prompt /\ handler' = handler /\ client' = client
    BY <2>3 DEF SetResponse, Types, CoreTypes, HandleResponse
  <2>8. Retriable' /\ Solo' = Solo
    BY <2>2, <2>6, <2>7 DEF Retriable, HumanFor, Humans, Solo
  <2>9. seat = core.prompt.seat \/ (Solo /\ core.prompt.seat = AI /\ seat = HUMAN_PLAYER)
    <3>1. core.prompt.seat \in {HUMAN_PLAYER, AI}
      BY <2>6 DEF Prompts, Seats, HUMAN_PLAYER, AI
    <3> QED
      BY <2>6, <3>1 DEF HumanFor, Humans
  <2>10. Supplied'
    BY <1>1, <2>3, <2>5, <2>6, <2>7, <2>8, <2>9, AnswerSupplies DEF Types
  <2>11. thread'.at = "process" /\ session'.active
    BY <1>2, <2>3, GotoMoves DEF SetResponse, HandleResponse, Types
  <2> QED
    BY <2>10, <2>11 DEF TokenInv
<1>3. CASE ~session.active
  <2>1. session.closed /\ ~Answered
    BY <1>1, <1>3, NotStartedQuiet DEF TokenInv, Quiet
  <2>2. UNCHANGED <<core, session>>
    BY <1>3 DEF HandleResponse, Accepts
  <2> QED
    BY <1>3, <2>1, <2>2 DEF TokenInv, Answered
<1> QED
  BY <1>2, <1>3

\* The AI's answer is applied, or a human is asked and the thread leaves.
LEMMA ProcessSoloAutoResponseToken ==
    ASSUME Types, Lifecycle, TokenInv, ProcessSoloAutoResponse
    PROVE  TokenInv'
<1>1. thread.at = "auto" /\ UNCHANGED <<session, client, toClient, toServer>>
  BY DEF ProcessSoloAutoResponse
<1>2. CASE session.active /\ HumanAsked
  <2>1. handler.auto = NoPrompt
    BY <1>2 DEF HumanAsked
  <2>2. Goto("idle") /\ UNCHANGED <<core, handler>>
    BY <2>1 DEF ProcessSoloAutoResponse
  <2>3. HumanAsked' /\ thread'.at = "idle"
    BY <1>1, <1>2, <2>2, TokenFrame, GotoMoves DEF Types
  <2> QED
    BY <1>1, <1>2, <2>3 DEF TokenInv
<1>3. CASE session.active /\ AiAsked
  <2>1. /\ AllQuiet /\ Waits /\ AiTurn /\ core.prompt \in Prompts
        /\ handler.auto = core.prompt.id /\ core.prompt.seat = AI
    BY <1>3 DEF AiAsked, AiTurn, Waits, Types, CoreTypes
  <2>2. handler.auto # NoPrompt /\ Accepts
    BY <1>3, <2>1 DEF NoPrompt, Prompts, Accepts, Lifecycle
  <2>3. /\ handler' = [handler EXCEPT !.auto = NoPrompt]
        /\ SetResponse(Answer(AI, core.prompt.id))
    BY <1>3, <2>1, <2>2 DEF ProcessSoloAutoResponse
  <2>4. /\ handler'.auto = NoPrompt /\ handler'.pending = handler.pending
        /\ handler'.last = handler.last /\ Solo' = Solo
    BY <2>3 DEF Types, HandlerTypes, Solo
  <2>5. AllQuiet'
    BY <1>1, <2>1 DEF AllQuiet, Quiet
  <2>6. core'.prompt = core.prompt
    BY <2>3 DEF SetResponse, Types, CoreTypes
  <2>7. Retriable'
    BY <2>1, <2>4, <2>6 DEF Retriable, AiTurn
  <2>8. Supplied'
    BY <2>1, <2>3, <2>4, <2>5, <2>7, HumansSit, AnswerSupplies DEF Types
  <2>9. thread'.at = "process"
    BY <2>3, GotoMoves DEF SetResponse, Types
  <2> QED
    BY <1>1, <1>3, <2>8, <2>9 DEF TokenInv
<1>4. CASE ~session.active
  <2>1. session.closed /\ ~Answered
    BY <1>1, <1>4 DEF TokenInv
  <2>2. UNCHANGED <<core, session>>
    BY <1>4 DEF ProcessSoloAutoResponse
  <2> QED
    BY <1>4, <2>1, <2>2 DEF TokenInv, Answered
<1> QED
  BY <1>1, <1>2, <1>3, <1>4 DEF TokenInv

\* A duel that is ended from outside was waiting for a human.
LEMMA EndToken ==
    ASSUME Types, TokenInv, FinishDuel \/ Shutdown
    PROVE  TokenInv'
<1>1. session.active /\ HumanAsked /\ core' = core
  BY DEF FinishDuel, Shutdown, EndDuel, Idle, TokenInv
<1>2. ~Answered'
  BY <1>1 DEF HumanAsked, Answered
<1>3. ~session'.active /\ session'.closed
  <2>1. session' = [session EXCEPT !.active = FALSE, !.closed = TRUE]
    BY DEF FinishDuel, Shutdown, EndDuel
  <2> QED
    BY <2>1 DEF Types, SessionTypes
<1> QED
  BY <1>2, <1>3 DEF TokenInv

\* A client moves the token when it is asked, and nothing else of a running duel.
LEMMA ClientToken ==
    ASSUME Types, TokenInv, NEW seat \in Seats, ~Quiet(seat),
           UNCHANGED <<core, session, handler, thread>>, HumanAsked => HumanAsked'
    PROVE  TokenInv'
<1>1. ~AllQuiet
  BY DEF AllQuiet
<1>2. CASE session.active
  <2>1. thread.at \notin {"process", "run", "dispatch"}
    BY <1>1, <1>2 DEF TokenInv, Supplied, Dispatching
  <2>2. HumanAsked
    BY <1>1, <1>2, <2>1 DEF TokenInv, AiAsked, Types, ThreadTypes, Places
  <2>3. thread' = thread /\ session' = session
    OBVIOUS
  <2> QED
    BY <1>2, <2>1, <2>2, <2>3 DEF TokenInv
<1>3. CASE ~session.active
  <2>1. session.closed /\ ~Answered
    BY <1>3, NotStartedQuiet DEF TokenInv
  <2> QED
    BY <1>3, <2>1 DEF TokenInv, Answered
<1> QED
  BY <1>2, <1>3

\* A client that receives a packet shows the prompt it was for.
LEMMA ReceiveToken ==
    ASSUME Types, TokenInv, NEW seat \in Humans, Receive(seat)
    PROVE  TokenInv'
<1>1. seat \in Seats /\ toClient[seat] # <<>> /\ UNCHANGED <<core, session, handler, thread, toServer>>
  BY HumansSit DEF Receive
<1>2. ~Quiet(seat)
  BY <1>1 DEF Quiet
<1>3. ASSUME HumanAsked PROVE HumanAsked'
  <2>1. handler.pending = seat /\ Asks(seat) /\ core.prompt \in Prompts
    BY <1>1, <1>3 DEF HumanAsked, Quiet, Waits, Types, CoreTypes
  <2>2. /\ toServer[seat] = <<>> /\ client[seat].prompt = NoPrompt
        /\ \/ toClient[seat] = <<core.prompt>>
           \/ toClient[seat] = <<Retry>> /\ client[seat].last = core.prompt.id
    BY <1>1, <2>1 DEF Asks
  <2>3. toClient'[seat] = <<>>
    <3>1. Tail(toClient[seat]) = <<>>
      BY <2>2, ShortSequences
    <3> QED
      BY <1>1, <3>1 DEF Receive, Types, NetworkTypes
  <2>4. client'[seat].prompt = core.prompt.id /\ client'[seat].last = core.prompt.id
    <3>1. CASE toClient[seat] = <<core.prompt>>
      <4>1. Head(toClient[seat]) = core.prompt /\ core.prompt # Retry
        BY <2>1, <3>1, ShortSequences, MessagesApart
      <4>2. client' = [client EXCEPT ![seat] = [prompt |-> core.prompt.id, last |-> core.prompt.id, sent |-> FALSE]]
        BY <4>1 DEF Receive, SetPrompt
      <4> QED
        BY <1>1, <4>2 DEF Types, ClientTypes
    <3>2. CASE toClient[seat] = <<Retry>> /\ client[seat].last = core.prompt.id
      <4>1. Head(toClient[seat]) = Retry
        BY <3>2, ShortSequences
      <4>2. client' = [client EXCEPT ![seat] = [prompt |-> core.prompt.id, last |-> core.prompt.id, sent |-> FALSE]]
        BY <3>2, <4>1 DEF Receive, RestorePrompt
      <4> QED
        BY <1>1, <4>2 DEF Types, ClientTypes
    <3> QED
      BY <2>2, <3>1, <3>2
  <2>5. Asks(seat)'
    BY <1>1, <2>2, <2>3, <2>4 DEF Asks
  <2>6. \A other \in Seats \ {seat} : Quiet(other)'
    <3> TAKE other \in Seats \ {seat}
    <3>1. Quiet(other)
      BY <1>3, <2>1 DEF HumanAsked
    <3>2. toClient'[other] = toClient[other] /\ client'[other] = client[other]
      BY DEF Receive, Types, NetworkTypes, ClientTypes
    <3> QED
      BY <1>1, <3>1, <3>2 DEF Quiet
  <2> QED
    BY <1>1, <1>3, <2>1, <2>5, <2>6 DEF HumanAsked, HumanFor, Humans, Solo, Waits, Answered
<1> QED
  BY <1>1, <1>2, <1>3, ClientToken

\* A player answers the prompt shown, once.
LEMMA RespondToken ==
    ASSUME Types, TokenInv, NEW seat \in Humans, Respond(seat)
    PROVE  TokenInv'
<1>1. /\ seat \in Seats /\ client[seat].prompt # NoPrompt
      /\ UNCHANGED <<core, session, handler, thread, toClient>>
  BY HumansSit DEF Respond
<1>2. ~Quiet(seat)
  BY <1>1 DEF Quiet
<1>3. ASSUME HumanAsked PROVE HumanAsked'
  <2>1. handler.pending = seat /\ Asks(seat)
    BY <1>1, <1>3 DEF HumanAsked, Quiet
  <2>2. /\ toServer[seat] = <<>> /\ toClient[seat] = <<>>
        /\ client[seat].prompt = core.prompt.id /\ client[seat].last = core.prompt.id
    BY <1>1, <2>1 DEF Asks
  <2>3. toServer'[seat] = <<core.prompt.id>>
    <3>1. Append(toServer[seat], client[seat].prompt) = <<core.prompt.id>>
      BY <2>2, ShortSequences
    <3> QED
      BY <1>1, <3>1 DEF Respond, Types, NetworkTypes
  <2>4. client'[seat].prompt = NoPrompt /\ client'[seat].last = client[seat].last
    <3>1. client' = [client EXCEPT ![seat].sent = TRUE, ![seat].prompt = NoPrompt]
      BY DEF Respond
    <3>2. client[seat] \in [prompt : 0..MaxPrompts, last : 0..MaxPrompts, sent : BOOLEAN]
      BY <1>1 DEF Types, ClientTypes
    <3> QED
      BY <1>1, <3>1, <3>2 DEF Types, ClientTypes
  <2>5. Asks(seat)'
    BY <1>1, <2>2, <2>3, <2>4 DEF Asks
  <2>6. \A other \in Seats \ {seat} : Quiet(other)'
    <3> TAKE other \in Seats \ {seat}
    <3>1. Quiet(other)
      BY <1>3, <2>1 DEF HumanAsked
    <3>2. toServer'[other] = toServer[other] /\ client'[other] = client[other]
      BY DEF Respond, Types, NetworkTypes, ClientTypes
    <3> QED
      BY <1>1, <3>1, <3>2 DEF Quiet
  <2> QED
    BY <1>1, <1>3, <2>1, <2>5, <2>6 DEF HumanAsked, HumanFor, Humans, Solo, Waits, Answered
<1> QED
  BY <1>1, <1>2, <1>3, ClientToken

\* Every step leaves the token where SessionInv says it can be.
LEMMA TokenStep == Types /\ Lifecycle /\ TokenInv /\ [Next]_vars => TokenInv'
<1> SUFFICES ASSUME Types, Lifecycle, TokenInv, [Next]_vars PROVE TokenInv'
  OBVIOUS
<1>1. CASE Start
  BY <1>1, StartToken
<1>2. CASE EnterProcess
  <2>1. session.active /\ ~session.ended /\ Supplied
    BY <1>2 DEF EnterProcess, Lifecycle, TokenInv
  <2>2. Supplied' /\ thread'.at = "run" /\ session' = session
    BY <1>2, <2>1, TokenFrame, GotoMoves DEF EnterProcess, Types
  <2> QED
    BY <2>1, <2>2 DEF TokenInv
<1>3. CASE RunCore
  BY <1>3, RunCoreToken
<1>4. CASE AutoPass
  BY <1>4, AutoPassToken
<1>5. CASE DispatchInfo
  BY <1>5, DispatchInfoToken
<1>6. CASE DispatchPrompt
  BY <1>6, DispatchPromptToken, SoloKept
<1>7. CASE DispatchWin
  BY <1>7, DispatchWinToken
<1>8. CASE BatchDone
  BY <1>8, BatchDoneToken
<1>9. CASE ProcessSoloAutoResponse
  BY <1>9, ProcessSoloAutoResponseToken
<1>10. CASE FinishDuel \/ Shutdown
  BY <1>10, EndToken
<1>11. ASSUME NEW seat \in Humans, HandleResponse(seat) \/ Receive(seat) \/ Respond(seat) PROVE TokenInv'
  BY <1>11, HandleResponseToken, ReceiveToken, RespondToken
<1>12. CASE UNCHANGED vars
  <2>1. UNCHANGED <<core, handler, client, toClient, toServer>> /\ thread' = thread /\ session' = session
    BY <1>12 DEF vars
  <2>2. Dispatching => Dispatching'
    BY <2>1, TokenFrame
    DEF Dispatching, BatchRefused, BatchPrompts, BatchPassed, BatchStops, Retriable, HumanFor, AiTurn, Humans, Solo
  <2> QED
    BY <2>1, <2>2, TokenFrame DEF TokenInv
<1> QED
  BY <1>1, <1>2, <1>3, <1>4, <1>5, <1>6, <1>7, <1>8, <1>9, <1>10, <1>11, <1>12 DEF Next, ThreadStep

-----------------------------------------------------------------------------
(* The invariant, and what follows from it *)

\* The inductive invariant holds of every duel.
LEMMA SessionInvHolds == Spec => []SessionInv
<1>1. Init => SessionInv
  BY InitTypes, InitLifecycle, InitTold, InitToken DEF SessionInv
<1>2. SessionInv /\ [Next]_vars => SessionInv'
  BY TypesStep, LifecycleStep, ToldStep, TokenStep DEF SessionInv
<1> QED
  BY <1>1, <1>2, PTL DEF Spec

\* Every variable keeps the values its Java counterpart can have, however many prompts a
\* duel has: no retry count or answer of the AI leaves its range.
THEOREM SessionTypesHold == Spec => []TypeOK
<1>1. Types => TypeOK
  <2> SUFFICES ASSUME Types PROVE TypeOK
    OBVIOUS
  <2>1. Prompts \cup {NoMessage} \subseteq Messages /\ Packets \subseteq Messages
    BY MessageKinds DEF Packets
  <2>2. \A seat \in Seats : toClient[seat] \in Seq(Messages) /\ toServer[seat] \in Seq(1..MaxPrompts)
    <3> TAKE seat \in Seats
    <3>1. toClient[seat] \in Seq(Packets) /\ toServer[seat] \in Seq(1..MaxPrompts)
      BY DEF Types, NetworkTypes
    <3> QED
      BY <2>1, <3>1
  <2>3. core.prompt \in Messages /\ core.prompts \in 0..(MaxPrompts + 1)
    BY <2>1 DEF Types, CoreTypes
  <2>4. /\ handler.pending \in Seats \cup {NoSeat} /\ handler.last \in Messages
        /\ handler.auto \in 0..MaxPrompts /\ handler.retries \in 0..(MAX_AI_RETRIES + 1)
    BY <2>1 DEF Types, HandlerTypes
  <2> QED
    BY <2>2, <2>3, <2>4 DEF Types, SessionTypes, ThreadTypes, Places, HistoryTypes, TypeOK
<1> QED
  BY <1>1, SessionInvHolds, PTL DEF SessionInv

\* The engine is never called for a duel that was destroyed, however the listener, the AI's
\* answer or an end from outside interleave with process().
THEOREM HandleStaysValid == Spec => []HandleRespected
<1>1. SessionInv => HandleRespected
  BY DEF SessionInv, Lifecycle, HandleRespected
<1> QED
  BY <1>1, SessionInvHolds, PTL

\* The engine is given only answers to the prompt it waits at, from its owner or the human
\* the AI's prompt was handed to, although no answer says which prompt it is for.
THEOREM AnswersAreMet == Spec => []AnswersMeetPrompts
<1>1. SessionInv => AnswersMeetPrompts
  <2> SUFFICES ASSUME SessionInv PROVE AnswersMeetPrompts
    OBVIOUS
  <2>1. CASE ~Answered
    BY <2>1, AnswersApart DEF AnswersMeetPrompts, Answered, Given
  <2>2. CASE Answered
    <3>1. session.active /\ thread.at \in Places
      BY <2>2 DEF SessionInv, TokenInv, Types, ThreadTypes
    <3>2. CASE Supplied
      BY <2>2, <3>2 DEF Supplied, AnswersMeetPrompts
    <3>3. CASE Dispatching
      <4>1. BatchPassed
        BY <2>2, <3>3 DEF Dispatching, BatchRefused, BatchPrompts, BatchStops
      <4>2. Waits /\ ~Given
        BY <4>1, Guards DEF BatchPassed, Waits, Given
      <4> QED
        BY <4>1, <4>2 DEF BatchPassed, AnswersMeetPrompts
    <3> QED
      BY <2>2, <3>1, <3>2, <3>3 DEF SessionInv, TokenInv, HumanAsked, AiAsked, Places
  <2> QED
    BY <2>1, <2>2
<1> QED
  BY <1>1, SessionInvHolds, PTL

\* A running duel at rest waits for one human, who is asked or has answered: no duel is
\* wedged, and no answer to a running duel is thrown away.
THEOREM OneHumanIsAsked == Spec => []SomeoneIsAsked
<1>1. SessionInv => SomeoneIsAsked
  <2> SUFFICES ASSUME SessionInv, Idle, session.active PROVE SomeoneIsAsked
    BY DEF SomeoneIsAsked
  <2> DEFINE asked == handler.pending
  <2>1. HumanAsked
    BY DEF SessionInv, TokenInv, Idle
  <2>2. core.prompt \in Prompts /\ asked \in Seats /\ core.prompt # Retry
    BY <2>1, HumansSit, MessagesApart DEF HumanAsked, HumanFor, Waits, SessionInv, Types, CoreTypes
  <2>3. Len(toClient[asked]) + Len(toServer[asked]) <= 1
    <3>1. Len(<<>>) = 0 /\ \A a : Len(<<a>>) = 1
      OBVIOUS
    <3>2. \/ toClient[asked] = <<>> /\ toServer[asked] = <<>>
          \/ toClient[asked] = <<>> /\ \E a : toServer[asked] = <<a>>
          \/ toServer[asked] = <<>> /\ \E a : toClient[asked] = <<a>>
      BY <2>1 DEF HumanAsked, Asks
    <3>3. CASE toClient[asked] = <<>> /\ toServer[asked] = <<>>
      BY <3>1, <3>3
    <3>4. CASE toClient[asked] = <<>> /\ \E a : toServer[asked] = <<a>>
      BY <3>1, <3>4
    <3>5. CASE toServer[asked] = <<>> /\ \E a : toClient[asked] = <<a>>
      BY <3>1, <3>5
    <3> QED
      BY <3>2, <3>3, <3>4, <3>5
  <2>4. IF toServer[asked] = <<>> THEN PromptAhead(asked) = core.prompt.id
        ELSE toServer[asked] = <<core.prompt.id>> /\ client[asked].prompt = NoPrompt
    <3>1. CASE toServer[asked] = <<>> /\ toClient[asked] = <<>>
      BY <2>1, <3>1, ShortSequences DEF HumanAsked, Asks, PromptAhead
    <3>2. CASE toServer[asked] = <<>> /\ toClient[asked] = <<core.prompt>>
      <4>1. Head(toClient[asked]) = core.prompt /\ toClient[asked] # <<>>
        BY <3>2, ShortSequences
      <4> QED
        BY <2>2, <3>2, <4>1 DEF PromptAhead
    <3>3. CASE toServer[asked] = <<>> /\ toClient[asked] = <<Retry>> /\ client[asked].last = core.prompt.id
      <4>1. Head(toClient[asked]) = Retry /\ toClient[asked] # <<>>
        BY <3>3, ShortSequences
      <4> QED
        BY <3>3, <4>1 DEF PromptAhead
    <3>4. CASE toServer[asked] = <<core.prompt.id>> /\ client[asked].prompt = NoPrompt
      BY <3>4, ShortSequences
    <3> QED
      BY <2>1, <3>1, <3>2, <3>3, <3>4 DEF HumanAsked, Asks
  <2>5. \A other \in Humans \ {asked} :
           toServer[other] = <<>> /\ toClient[other] = <<>> /\ client[other].prompt = NoPrompt
    BY <2>1, HumansSit DEF HumanAsked, Quiet
  <2> QED
    BY <2>1, <2>3, <2>4, <2>5 DEF SomeoneIsAsked, HumanAsked, HumanFor
<1> QED
  BY <1>1, SessionInvHolds, PTL

\* However the duel ends, and in whatever order its ends race, no player is told two
\* results, and every human is told one when the session itself ended.
THEOREM ResultToldOnce == Spec => []OneResult
<1>1. SessionInv => OneResult
  BY DEF SessionInv, Told, OneResult
<1> QED
  BY <1>1, SessionInvHolds, PTL
=============================================================================
