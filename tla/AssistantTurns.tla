---------------------------- MODULE AssistantTurns ----------------------------
(***************************************************************************)
(* The turns of the assistant: from a request of a browser to the answer   *)
(* in the conversation.                                                    *)
(*                                                                         *)
(* A request asks for the answer to a turn; a repeat of the same turn is   *)
(* another request.  It looks for a stored answer, claims the generation   *)
(* of its turn and conversation (in the memory of the process), writes the *)
(* user's message, generates under a lease of the admission controller,    *)
(* stores the answer and delivers it.  Conversations are deleted, streams  *)
(* are stopped and stall, and a statement the server has given up may      *)
(* still reach the database.                                               *)
(*                                                                         *)
(* The conversations are those of one user.  One is named by the request   *)
(* that opened it: each draws at most one new identity.                    *)
(*                                                                         *)
(* Sources: src/src/server/ai/assistant/{assistantGenerations,             *)
(* assistantService, assistantStreamResponse, conversationQueries}.js      *)
(***************************************************************************)
EXTENDS AiAdmission, Sequences

CONSTANTS
  Request,         \* requests, each with the call of the gateway it makes
  Turn, TurnOf,    \* client turn identities, and which one each request is for
  FirstTurn,       \* the turns that open a conversation
  Grounded,        \* the turns answered from data: shown once stored only
  MaxMessages,     \* maxConversationMessages
  Nobody

ASSUME RequestAssumption ==
  /\ Request \subseteq Call /\ Nobody \notin Request
  /\ TurnOf \in [Request -> Turn]
  /\ FirstTurn \subseteq Turn /\ Grounded \subseteq Turn
  /\ MaxMessages \in Nat

VARIABLES
  exists,          \* the conversations in the table
  gone,            \* those deleted from it
  script,          \* their messages in the order of Sequence
  at,              \* where each request stands
  ask,             \* its conversationId and expectedSequence
  claims,          \* the requests whose entry is in the registry of generations
  bound,           \* the conversation of each entry
  after,           \* the entry a repeat waits for
  answer,          \* the author of the answer each has read or stored
  cut,             \* the requests whose generation signal is aborted
  stalled,         \* those the watch has cut
  shown,           \* whose generation produced the text the browser shows
  done,            \* those that have sent their done event
  late,            \* the statements given up that may still commit
  told             \* the deletions the process has heard of

turnVars == <<exists, gone, script, at, ask, claims, bound, after, answer,
              cut, stalled, shown, done, late, told>>

db       == <<exists, gone, script>>
registry == <<claims, bound, after>>
signals  == <<cut, stalled>>
stream   == <<signals, shown, done>>

Conversation == Request

Asked(t)     == [turn |-> t, author |-> Nobody]
Answer(t, r) == [turn |-> t, author |-> r]

IsAnswer(message) == message.author # Nobody

AnswersTo(t, messages) == {i \in DOMAIN messages : messages[i].turn = t /\ IsAnswer(messages[i])}

Has(c, t)      == \E i \in DOMAIN script[c] : script[c][i].turn = t
Answers(c, t)  == AnswersTo(t, script[c])

TurnInit ==
  /\ Init
  /\ exists = {} /\ gone = {} /\ script = [c \in Conversation |-> <<>>]
  /\ at = [r \in Request |-> "idle"]
  /\ ask = [r \in Request |-> [conv |-> Nobody, knew |-> 0]]
  /\ claims = {} /\ bound = [r \in Request |-> Nobody] /\ after = [r \in Request |-> Nobody]
  /\ answer = [r \in Request |-> Nobody]
  /\ cut = {} /\ stalled = {}
  /\ shown = [r \in Request |-> Nobody] /\ done = {}
  /\ late = {} /\ told = {}

Go(r, place) == at' = [at EXCEPT ![r] = place]

\* The request is over: close() or the handler's catch releases its claim, and
\* its variables and signals are gone with it.
End(r) ==
  /\ Go(r, "ended")
  /\ claims' = claims \ {r} /\ after' = [after EXCEPT ![r] = Nobody]
  /\ answer' = [answer EXCEPT ![r] = Nobody]
  /\ cut' = cut \ {r} /\ stalled' = stalled \ {r}

\* Without an answer: what the stream has shown of one counts for nothing.
Fails(r) ==
  /\ End(r)
  /\ shown' = [shown EXCEPT ![r] = Nobody]
  /\ UNCHANGED done

Knows(r, c) == ask' = [ask EXCEPT ![r].conv = c]

(***************************************************************************)
(* Reading and writing the conversation                                    *)
(***************************************************************************)
\* The conversation a statement is about: by identity, or by its first turn.
Lookup(r, c) ==
  IF c # Nobody THEN {c} \cap exists ELSE {d \in exists : script[d][1].turn = TurnOf[r]}

Found(r) == Lookup(r, ask[r].conv)

\* Variant for mutation checks: an unanswered turn may be followed by another.
MayFollowAnything(r, c) ==
  /\ ~Has(c, TurnOf[r])
  /\ ask[r].knew = Len(script[c])
  /\ Len(script[c]) <= MaxMessages - 2

\* Not STALE, not UNANSWERED, not FULL.
MayFollow(r, c) ==
  /\ ~Has(c, TurnOf[r])
  /\ ask[r].knew = Len(script[c])
  /\ IsAnswer(script[c][Len(script[c])])
  /\ Len(script[c]) <= MaxMessages - 2

MayOpen(r) == ask[r].conv = Nobody /\ ask[r].knew = 0 /\ Found(r) = {} /\ r \notin exists \cup gone

\* The user's turn is in conversation c, written now or before (EXISTING).
TurnWritten(r, c) ==
  \/ /\ c \in Found(r) /\ Has(c, TurnOf[r])
     /\ UNCHANGED db
  \/ /\ c \in Found(r) /\ MayFollow(r, c)
     /\ script' = [script EXCEPT ![c] = Append(@, Asked(TurnOf[r]))]
     /\ UNCHANGED <<exists, gone>>
  \/ /\ c = r /\ MayOpen(r)
     /\ exists' = exists \cup {c}
     /\ script' = [script EXCEPT ![c] = <<Asked(TurnOf[r])>>]
     /\ UNCHANGED gone

Refused(r) == /\ ~MayOpen(r)
              /\ \A c \in Found(r) : ~Has(c, TurnOf[r]) /\ ~MayFollow(r, c)

\* Variant for mutation checks: a deleted conversation or an answered turn is
\* not noticed.
AnswerAppended(r) ==
  LET c == ask[r].conv IN
  /\ script' = [script EXCEPT ![c] = Append(@, Answer(TurnOf[r], r))]
  /\ UNCHANGED <<exists, gone>>

\* The answer is appended if the conversation is there and the turn has none.
AnswerWritten(r) ==
  LET c == ask[r].conv IN
  /\ script' = IF c \in exists /\ Has(c, TurnOf[r]) /\ Answers(c, TurnOf[r]) = {}
               THEN [script EXCEPT ![c] = Append(@, Answer(TurnOf[r], r))]
               ELSE script
  /\ UNCHANGED <<exists, gone>>

\* What a statement that returned these messages says of the turn of r.
Reads(r, messages) ==
  LET found == AnswersTo(TurnOf[r], messages) IN
  answer' = [answer EXCEPT ![r] = IF found = {} THEN Nobody
                                  ELSE messages[CHOOSE i \in found : TRUE].author]

(***************************************************************************)
(* The claim on a generation                                               *)
(***************************************************************************)
\* A browser sends or repeats a turn.  A later turn tells how many messages of the
\* conversation its browser has seen; a first one, which may be repeated once it
\* is accepted, is recognised by its identity, and the number plays no part.
Asks(r, c, n) ==
  /\ at[r] = "idle"
  /\ IF TurnOf[r] \in FirstTurn
     THEN n = 0 /\ (c # Nobody => c \in exists \cup gone /\ TurnOf[c] = TurnOf[r])
     ELSE c \in exists \cup gone /\ n \in 0 .. Len(script[c])

\* The reading pass: a stored answer is replayed without a claim.
Arrive(r) ==
  /\ \E c \in Conversation \cup {Nobody}, n \in 0 .. MaxMessages :
       /\ Asks(r, c, n)
       /\ \/ \E d \in Lookup(r, c) : /\ Answers(d, TurnOf[r]) # {} /\ Reads(r, script[d])
                                     /\ ask' = [ask EXCEPT ![r] = [conv |-> d, knew |-> 0]]
                                     /\ Go(r, "deliver")
          \/ /\ \A d \in Lookup(r, c) : Answers(d, TurnOf[r]) = {}
             /\ ask' = [ask EXCEPT ![r] = [conv |-> c, knew |-> n]]
             /\ Go(r, "claim") /\ UNCHANGED answer
  /\ UNCHANGED <<vars, db, registry, stream, late, told>>

OwnersOfTurn(r)         == {s \in claims : TurnOf[s] = TurnOf[r]}
OwnersOfConversation(c) == {s \in claims : c # Nobody /\ bound[s] = c}

\* Variant for mutation checks: only the turn is looked up.
FreeTurn(r) == OwnersOfTurn(r) = {}

Free(r) == OwnersOfTurn(r) = {} /\ OwnersOfConversation(ask[r].conv) = {}

Claim(r) ==
  /\ at[r] = "claim" /\ Free(r)
  /\ claims' = claims \cup {r}
  /\ bound' = [bound EXCEPT ![r] = ask[r].conv]
  /\ Go(r, "prepare")
  /\ UNCHANGED <<vars, db, ask, after, answer, stream, late, told>>

\* A repeat waits for the generation of its turn; another turn of the same
\* conversation, or a repeat that names another one, is refused.
WaitOrRefuse(r) ==
  /\ at[r] = "claim" /\ ~Free(r)
  /\ \/ /\ \E s \in OwnersOfTurn(r) :
             /\ Nobody \in {ask[r].conv, bound[s]} \/ ask[r].conv = bound[s]
             /\ after' = [after EXCEPT ![r] = s] /\ Go(r, "wait")
        /\ UNCHANGED <<claims, answer, stream>>
     \/ /\ \A s \in OwnersOfTurn(r) : Nobody \notin {ask[r].conv, bound[s]} /\ ask[r].conv # bound[s]
        /\ Fails(r)
  /\ UNCHANGED <<vars, db, ask, bound, late, told>>

\* The generation it waits for is over; the repeat learns its conversation.
WakeUp(r) ==
  /\ at[r] = "wait" /\ after[r] \notin claims
  /\ IF ask[r].conv = Nobody THEN Knows(r, bound[after[r]]) ELSE UNCHANGED ask
  /\ after' = [after EXCEPT ![r] = Nobody]
  /\ Go(r, "claim")
  /\ UNCHANGED <<vars, db, claims, bound, answer, stream, late, told>>

\* An error, a deadline or the end of the connection before the stream.
FailEarly(r) ==
  /\ at[r] \in {"claim", "wait", "prepare", "bind"}
  /\ Fails(r)
  /\ late' = IF at[r] = "prepare" THEN late \cup {<<"turn", r>>} ELSE late
  /\ UNCHANGED <<vars, db, ask, bound, told>>

\* The writing pass commits.
Prepare(r) ==
  /\ at[r] = "prepare"
  /\ \E c \in Conversation : TurnWritten(r, c) /\ Reads(r, script'[c])
                                /\ ask' = [ask EXCEPT ![r] = [conv |-> c, knew |-> 0]]
  /\ Go(r, "bind")
  /\ UNCHANGED <<vars, registry, stream, late, told>>

PrepareRefused(r) ==
  /\ at[r] = "prepare" /\ Refused(r)
  /\ Fails(r)
  /\ UNCHANGED <<vars, db, ask, bound, late, told>>

\* bindConversation(), and the stream begins.
Bind(r) ==
  /\ at[r] = "bind"
  /\ IF OwnersOfConversation(ask[r].conv) \subseteq {r}
     THEN /\ bound' = [bound EXCEPT ![r] = ask[r].conv]
          /\ Go(r, "open") /\ UNCHANGED <<claims, after, answer, stream>>
     ELSE Fails(r) /\ UNCHANGED bound
  /\ UNCHANGED <<vars, db, ask, late, told>>

(***************************************************************************)
(* Generating                                                              *)
(***************************************************************************)
Present(r) == ask[r].conv \in exists

\* The turn is found in the database, and is replayed or asked a lease for.
Open(r) ==
  /\ at[r] = "open" /\ r \notin cut /\ Present(r)
  /\ IF answer[r] # Nobody
     THEN Go(r, "deliver") /\ UNCHANGED vars
     ELSE Go(r, "queue") /\ (StartAtOnce(r) \/ Enqueue(r))
  /\ UNCHANGED <<db, ask, registry, answer, stream, late, told>>

\* beforeDispatch: the provider is asked for conversations that are there.
Dispatch(r) ==
  /\ at[r] = "queue" /\ r \in holding /\ r \notin cut /\ Present(r)
  /\ Go(r, "stream")
  /\ UNCHANGED <<vars, db, ask, registry, answer, stream, late, told>>

\* A piece of text waits for a look at the database, then for no one.
CheckText(r) ==
  /\ at[r] = "stream" /\ TurnOf[r] \notin Grounded /\ r \notin cut /\ Present(r)
  /\ Go(r, "text")
  /\ UNCHANGED <<vars, db, ask, registry, answer, stream, late, told>>

SendText(r) ==
  /\ at[r] = "text" /\ r \notin cut
  /\ shown' = [shown EXCEPT ![r] = r]
  /\ Go(r, "stream")
  /\ UNCHANGED <<vars, db, ask, registry, answer, cut, stalled, done, late, told>>

\* The generation is complete: the lease is given back, then the answer stored.
Generated(r) ==
  /\ at[r] = "stream" /\ r \notin cut
  /\ TurnOf[r] \notin Grounded => shown[r] = r
  /\ Release(r)
  /\ Go(r, "store")
  /\ UNCHANGED <<db, ask, registry, answer, stream, late, told>>

\* Variant for mutation checks: one that is cut while it waits keeps its place.
GenerationFailsQueued(r) ==
  /\ at[r] \in {"open", "queue", "stream", "text"}
  /\ \/ r \in holding /\ Release(r)
     \/ r \notin holding /\ UNCHANGED vars
  /\ Fails(r)
  /\ UNCHANGED <<db, ask, bound, late, told>>

\* The generation fails, is cut, or does not find its conversation any more.
GenerationFails(r) ==
  /\ at[r] \in {"open", "queue", "stream", "text"}
  /\ \/ r \in holding /\ Release(r)
     \/ r \in waiting /\ GiveUp(r)
     \/ Idle(r) /\ UNCHANGED vars
  /\ Fails(r)
  /\ UNCHANGED <<db, ask, bound, late, told>>

(***************************************************************************)
(* Storing and delivering                                                  *)
(***************************************************************************)
Store(r) ==
  /\ at[r] = "store"
  /\ AnswerWritten(r) /\ Reads(r, script'[ask[r].conv])
  /\ Go(r, "stored")
  /\ UNCHANGED <<vars, ask, registry, stream, late, told>>

\* The commit is not heard of: persistAnswer() writes again.
StoreUnheard(r) ==
  /\ at[r] = "store"
  /\ AnswerWritten(r)
  /\ UNCHANGED <<vars, at, ask, registry, answer, stream, late, told>>

\* Its budget ends while a statement is on its way.
StoreGivenUp(r) ==
  /\ at[r] = "store"
  /\ Fails(r)
  /\ late' = late \cup {<<"answer", r>>}
  /\ UNCHANGED <<vars, db, ask, bound, told>>

\* Variant for mutation checks: an answer of somebody else is not noticed.
StoredUnread(r) ==
  /\ at[r] = "stored"
  /\ IF r \in cut \/ answer[r] = Nobody THEN Fails(r)
     ELSE End(r) /\ done' = done \cup {r} /\ UNCHANGED shown
  /\ UNCHANGED <<vars, db, ask, bound, late, told>>

\* The stream's own text is what was stored: done.  Another writer's answer, and
\* one from data, are delivered first; nothing was stored, or the stream was
\* cut: an error.
Stored(r) ==
  /\ at[r] = "stored"
  /\ IF r \in cut \/ answer[r] = Nobody THEN Fails(r)
     ELSE IF answer[r] = r /\ TurnOf[r] \notin Grounded
     THEN End(r) /\ done' = done \cup {r} /\ UNCHANGED shown
     ELSE Go(r, "deliver") /\ UNCHANGED <<claims, after, answer, stream>>
  /\ UNCHANGED <<vars, db, ask, bound, late, told>>

\* The right to see the answer is looked up; between that and sending it the
\* stream waits for no one.
Disclose(r) ==
  /\ at[r] = "deliver" /\ r \notin cut /\ Present(r)
  /\ Go(r, "disclosed")
  /\ UNCHANGED <<vars, db, ask, registry, answer, stream, late, told>>

\* Variant for mutation checks: the signal is not looked at after the wait.
DeliverAnyway(r) ==
  /\ at[r] = "disclosed"
  /\ shown' = [shown EXCEPT ![r] = answer[r]] /\ done' = done \cup {r}
  /\ End(r)
  /\ UNCHANGED <<vars, db, ask, bound, late, told>>

Deliver(r) ==
  /\ at[r] = "disclosed" /\ r \notin cut
  /\ shown' = [shown EXCEPT ![r] = answer[r]] /\ done' = done \cup {r}
  /\ End(r)
  /\ UNCHANGED <<vars, db, ask, bound, late, told>>

DeliveryFails(r) ==
  /\ at[r] \in {"deliver", "disclosed"}
  /\ Fails(r)
  /\ UNCHANGED <<vars, db, ask, bound, late, told>>

(***************************************************************************)
(* Stopping, stalling, deleting                                            *)
(***************************************************************************)
Streaming == {"open", "queue", "stream", "text", "store", "stored", "deliver", "disclosed"}

\* Variant for mutation checks: the claim goes with the connection.
StopReleases(r) ==
  /\ at[r] \in Streaming /\ r \notin cut
  /\ cut' = cut \cup {r} /\ claims' = claims \ {r}
  /\ UNCHANGED <<vars, db, at, ask, bound, after, answer, stalled, shown, done, late, told>>

\* The browser closes its connection: the stream is cancelled.
Stop(r) ==
  /\ at[r] \in Streaming /\ r \notin cut
  /\ cut' = cut \cup {r}
  /\ UNCHANGED <<vars, db, at, ask, registry, answer, stalled, shown, done, late, told>>

\* The generation makes no progress, or the browser reads nothing.
Stall(r) ==
  /\ at[r] \in {"open", "queue", "stream", "text", "deliver"} /\ r \notin stalled
  /\ stalled' = stalled \cup {r} /\ cut' = cut \cup {r}
  /\ UNCHANGED <<vars, db, at, ask, registry, answer, shown, done, late, told>>

\* Variant for mutation checks: one that keeps its lease keeps its claim.
KeptForLease(r) ==
  /\ r \in stalled \cap claims /\ r \notin holding
  /\ claims' = claims \ {r}
  /\ UNCHANGED <<vars, db, at, ask, bound, after, answer, cut, stalled, shown, done, late, told>>

\* A stalled generation that does not end in time is left behind.
GraceEnds(r) ==
  /\ r \in stalled \cap claims
  /\ claims' = claims \ {r}
  /\ UNCHANGED <<vars, db, at, ask, bound, after, answer, cut, stalled, shown, done, late, told>>

\* Variant for mutation checks: the generation goes on.
AbortsNobody(c) == UNCHANGED cut

\* abortAssistantGeneration()
Aborts(c) == cut' = cut \cup OwnersOfConversation(c)

Delete(c) ==
  /\ c \in exists
  /\ exists' = exists \ {c} /\ gone' = gone \cup {c}
  /\ script' = [script EXCEPT ![c] = <<>>]
  /\ UNCHANGED <<vars, at, ask, registry, answer, stream, late, told>>

\* The driver reports the deletion.
HearOfDelete(c) ==
  /\ c \in gone \ told
  /\ told' = told \cup {c}
  /\ Aborts(c)
  /\ UNCHANGED <<vars, db, at, ask, registry, answer, stalled, shown, done, late>>

\* A deletion that is cancelled may have happened: the generation ends in any case.
DeleteInDoubt(c) ==
  /\ c \in exists \cup gone
  /\ Aborts(c)
  /\ UNCHANGED <<vars, db, at, ask, registry, answer, stalled, shown, done, late, told>>

\* A statement the server has given up reaches the database.
LateTurn(r) ==
  /\ <<"turn", r>> \in late
  /\ late' = late \ {<<"turn", r>>}
  /\ (\E c \in Conversation : TurnWritten(r, c)) \/ (Refused(r) /\ UNCHANGED db)
  /\ UNCHANGED <<vars, at, ask, registry, answer, stream, told>>

LateAnswer(r) ==
  /\ <<"answer", r>> \in late
  /\ late' = late \ {<<"answer", r>>}
  /\ AnswerWritten(r)
  /\ UNCHANGED <<vars, at, ask, registry, answer, stream, told>>

(***************************************************************************)
(* Specification                                                           *)
(***************************************************************************)
\* The other calls of the gateway.
OtherCall(call) ==
  /\ StartAtOnce(call) \/ Enqueue(call) \/ GiveUp(call) \/ Release(call)
  /\ UNCHANGED turnVars

Begin(r)    == Claim(r) \/ WaitOrRefuse(r) \/ WakeUp(r) \/ Prepare(r) \/ PrepareRefused(r) \/ Bind(r)
Generate(r) == Open(r) \/ Dispatch(r) \/ CheckText(r) \/ SendText(r) \/ Generated(r)
Settle(r)   == Store(r) \/ Stored(r) \/ Disclose(r) \/ Deliver(r) \/ DeliveryFails(r)

TurnNext ==
  \/ \E r \in Request : \/ Arrive(r) \/ Begin(r) \/ FailEarly(r)
                        \/ Generate(r) \/ GenerationFails(r)
                        \/ Settle(r) \/ StoreUnheard(r) \/ StoreGivenUp(r)
                        \/ Stop(r) \/ Stall(r) \/ GraceEnds(r)
                        \/ LateTurn(r) \/ LateAnswer(r)
  \/ \E c \in Conversation : Delete(c) \/ HearOfDelete(c) \/ DeleteInDoubt(c)
  \/ \E call \in Call \ Request : OtherCall(call)

allVars == <<vars, turnVars>>

TurnSpec == TurnInit /\ [][TurnNext]_allVars

\* The event loop runs what is ready, the waits for a claim and for the database
\* have deadlines, the watch and the deadline of the route cut a generation, and
\* the timer of a cut one fires.  That the generation obeys is not assumed.
Attended(r) == Begin(r) \/ Settle(r) \/ Stall(r) \/ GraceEnds(r)

TurnFairness == \A r \in Request : WF_allVars(Attended(r))

FairTurnSpec == TurnSpec /\ TurnFairness

(***************************************************************************)
(* Properties                                                              *)
(***************************************************************************)
Places == {"idle", "claim", "wait", "prepare", "bind", "ended"} \cup Streaming

Message == [turn : Turn, author : Request \cup {Nobody}]

\* The state is well formed, and an open claim belongs to a request at work.
TurnTypeOK ==
  /\ exists \subseteq Conversation /\ gone \subseteq Conversation /\ exists \cap gone = {}
  /\ script \in [Conversation -> Seq(Message)]
  /\ at \in [Request -> Places]
  /\ ask \in [Request -> [conv : Conversation \cup {Nobody}, knew : Nat]]
  /\ {bound, after, answer, shown} \subseteq [Request -> Request \cup {Nobody}]
  /\ claims \cup cut \cup stalled \cup done \subseteq Request
  /\ late \subseteq {"turn", "answer"} \X Request /\ told \subseteq gone
  /\ \A r \in claims : at[r] \notin {"idle", "claim", "wait", "ended"}

\* No two open claims have a turn or a conversation in common, though a claim
\* learns its conversation after it was made.
ClaimsApart ==
  \A r, s \in claims : r # s => TurnOf[r] # TurnOf[s] /\ (bound[r] = Nobody \/ bound[r] # bound[s])

\* However requests, repeats, deletions and late statements meet, a conversation
\* is a turn, its answer, the next turn, its answer: no turn has two answers, no
\* answer comes after a later turn, nothing is left in a deleted conversation
\* and no first turn opens two.
TranscriptSound ==
  /\ \A c \in Conversation : \A i \in DOMAIN script[c] :
       /\ c \in exists
       /\ IsAnswer(script[c][i]) <=> i % 2 = 0
       /\ i % 2 = 0 => script[c][i].turn = script[c][i - 1].turn
       /\ \A j \in DOMAIN script[c] : script[c][i] = script[c][j] => i = j
  /\ \A c, d \in exists : script[c][1].turn = script[d][1].turn => c = d

\* The registry and the table are sound together.
ConversationsSound == TurnTypeOK /\ ClaimsApart /\ TranscriptSound

\* What a browser is shown as done is what later readings of the conversation
\* show: the answer of another writer replaces the text of the stream.
DoneIsStored ==
  \A r \in done : ask[r].conv \in exists =>
    \E i \in Answers(ask[r].conv, TurnOf[r]) : script[ask[r].conv][i].author = shown[r]

Generating(r) == at[r] \in {"queue", "stream", "text", "store"}

\* Two generations for a conversation, of a turn and its repeat or of two turns,
\* are at work at a time only if one has been cut for making no progress.
GenerationsApart ==
  \A r, s \in Request : Generating(r) /\ Generating(s) /\ ask[r].conv = ask[s].conv /\ r # s
                          => r \in stalled \/ s \in stalled

\* A lease is held or waited for by the generations only: however a request ends,
\* it takes none with it.
LeaseOfGeneration ==
  \A r \in Request : r \in holding \cup waiting <=> at[r] \in {"queue", "stream", "text"}

\* One generation at a time, and each that works is the one admitted.
OneGeneration == GenerationsApart /\ LeaseOfGeneration

\* Once the process has heard that a conversation is deleted, no generation shows
\* text of it, whatever it had looked up before.
NothingAfterDelete ==
  [][\A r \in claims : shown'[r] \notin {shown[r], Nobody} => ask[r].conv \notin told]_allVars

\* Every request comes to an end for its browser and gives up its claim, so that
\* no conversation stays closed to further turns, though a generation may never
\* end.
EveryTurnSettles ==
  <>[](\A r \in Request : at[r] # "idle" => r \notin claims /\ (at[r] = "ended" \/ r \in stalled))
=============================================================================
