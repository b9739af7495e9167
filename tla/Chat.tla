-------------------------------- MODULE Chat --------------------------------
(***************************************************************************)
(* The chat with the local model (ChatPanel): one conversation of the tab, *)
(* a question at a time, its answer read as a stream.  Questions are       *)
(* numbers in the order they were made up.                                 *)
(***************************************************************************)
EXTENDS Naturals, Sequences, SequencesExt, Lists

CONSTANTS
  ChatKeep,     \* KEEP: messages the tab remembers
  ChatHistory,  \* HISTORY: messages sent along as context
  MaxQuestions, \* bound: questions made up
  MaxTokens,    \* bound: pieces of one answer
  MaxClears     \* bound: conversations thrown away, pages reloaded

ASSUME ChatKeepAssumption ==
  /\ ChatKeep \in Nat \ {0} /\ ChatKeep % 2 = 0 /\ ChatHistory \in Nat
  /\ MaxQuestions \in Nat /\ MaxTokens \in Nat /\ MaxClears \in Nat

Questions == 1 .. MaxQuestions
MsgEnds == {"", "stopped", "error"}

\* A message: tokens are the questions its pieces were generated for.
Msg == [role : {"user", "assistant"}, q : Questions \cup {0}, tokens : SUBSET Questions,
        pending : BOOLEAN, end : MsgEnds]
ChatRequest == [q : Questions, gen : 0 .. MaxClears, pieces : 0 .. MaxTokens,
                aborted : BOOLEAN, context : Seq(Msg)]

VARIABLES
  chatLog,    \* msgs
  chatSaved,  \* the conversation in the session's storage
  chatAsks,   \* requests being answered
  chatBusy,   \* busy
  chatGen,    \* gen: conversations thrown away
  chatText,   \* the question in the input, 0 for none
  chatNotice, \* the server did not want the question
  madeUp      \* history: questions made up

chatVars == <<chatLog, chatSaved, chatAsks, chatBusy, chatGen, chatText, chatNotice, madeUp>>

User(q) == [role |-> "user", q |-> q, tokens |-> {}, pending |-> FALSE, end |-> ""]
Waiting == [role |-> "assistant", q |-> 0, tokens |-> {}, pending |-> TRUE, end |-> ""]

LastOf(s, n) == SubSeq(s, IF n < Len(s) THEN Len(s) - n + 1 ELSE 1, Len(s))

\* save: whenever no answer is being read.
Keeps == chatSaved' = IF chatBusy' THEN chatSaved ELSE LastOf(chatLog', ChatKeep)

\* patch: the message being answered becomes m, unless the conversation is
\* another one.
PatchedLog(r, m) ==
  IF r.gen = chatGen /\ chatLog # <<>> /\ Last(chatLog).role = "assistant"
  THEN Append(Front(chatLog), m) ELSE chatLog

\* The context a question is sent with: the last messages that have a text.
History(log) ==
  LastOf(Filtered(log, {m \in Range(log) : m.role = "user" \/ m.tokens # {}}), ChatHistory)

\* What Message draws of an answer.
bubbleOf(m) == IF m.tokens # {} THEN "text" ELSE IF m.pending THEN "thinking" ELSE "none"

-----------------------------------------------------------------------------
ChatInit ==
  /\ chatLog = <<>> /\ chatSaved = <<>> /\ chatAsks = {} /\ chatBusy = FALSE
  /\ chatGen = 0 /\ chatText = 0 /\ chatNotice = FALSE /\ madeUp = 0

ChatTypes ==
  /\ madeUp < MaxQuestions
  /\ madeUp' = madeUp + 1 /\ chatText' = madeUp + 1
  /\ UNCHANGED <<chatLog, chatSaved, chatAsks, chatBusy, chatGen, chatNotice>>

\* The effects of ask() up to the request.
Asks(q) ==
  /\ chatAsks' = chatAsks \cup
       {[q |-> q, gen |-> chatGen, pieces |-> 0, aborted |-> FALSE,
         context |-> History(chatLog)]}
  /\ chatLog' = chatLog \o <<User(q), Waiting>>
  /\ chatBusy' = TRUE /\ chatNotice' = FALSE /\ chatText' = 0
  /\ Keeps /\ UNCHANGED chatGen

\* Mutant: a question may be asked while another one is answered.
MutChatAsk == chatText # 0 /\ Asks(chatText) /\ UNCHANGED madeUp
ChatAsk == chatText # 0 /\ ~chatBusy /\ Asks(chatText) /\ UNCHANGED madeUp

\* One of the questions offered while there is no conversation.
ChatSuggest ==
  /\ chatLog = <<>> /\ ~chatBusy /\ madeUp < MaxQuestions
  /\ madeUp' = madeUp + 1 /\ Asks(madeUp + 1)

ChatStop ==
  /\ chatBusy /\ \E r \in chatAsks : ~r.aborted
  /\ chatAsks' = {[r EXCEPT !.aborted = TRUE] : r \in chatAsks}
  /\ UNCHANGED <<chatLog, chatSaved, chatBusy, chatGen, chatText, chatNotice, madeUp>>

\* clear: what still comes for the old conversation is not added to the new one.
ChatClear ==
  /\ chatGen < MaxClears /\ chatGen' = chatGen + 1
  /\ chatAsks' = {[r EXCEPT !.aborted = TRUE] : r \in chatAsks}
  /\ chatLog' = <<>> /\ chatNotice' = FALSE
  /\ UNCHANGED <<chatBusy, chatText, madeUp>> /\ Keeps

\* The page is loaded anew: load(), with the request given up.
ChatReload ==
  /\ chatGen < MaxClears /\ chatGen' = chatGen + 1
  /\ chatLog' = chatSaved /\ chatAsks' = {} /\ chatBusy' = FALSE
  /\ chatText' = 0 /\ chatNotice' = FALSE
  /\ UNCHANGED <<chatSaved, madeUp>>

-----------------------------------------------------------------------------
(* The stream of request r: token, done or error, abort, refusal.          *)

ChatToken(r) ==
  /\ r.pieces < MaxTokens
  /\ chatAsks' = (chatAsks \ {r}) \cup {[r EXCEPT !.pieces = @ + 1]}
  /\ chatLog' = PatchedLog(r, [Last(chatLog) EXCEPT !.tokens = @ \cup {r.q}, !.pending = FALSE])
  /\ UNCHANGED <<chatSaved, chatBusy, chatGen, chatText, chatNotice, madeUp>>

\* finally: the request is over, however it ended.
Over(r) == chatAsks' = chatAsks \ {r} /\ chatBusy' = FALSE /\ Keeps

ChatDone(r) ==
  /\ \E end \in {"", "error"} :
       chatLog' = PatchedLog(r, [Last(chatLog) EXCEPT !.pending = FALSE, !.end = end])
  /\ Over(r) /\ UNCHANGED <<chatGen, chatText, chatNotice, madeUp>>

ChatAborted(r) ==
  /\ r.aborted
  /\ chatLog' = PatchedLog(r, [Last(chatLog) EXCEPT !.pending = FALSE, !.end = "stopped"])
  /\ Over(r) /\ UNCHANGED <<chatGen, chatText, chatNotice, madeUp>>

\* The server did not start: the question leaves the conversation and is put
\* back into the input.
ChatRefused(r) ==
  /\ ~r.aborted /\ r.pieces = 0
  /\ chatLog' = IF r.gen = chatGen /\ Len(chatLog) >= 2 THEN Front(Front(chatLog)) ELSE chatLog
  /\ chatText' = r.q /\ chatNotice' = TRUE
  /\ Over(r) /\ UNCHANGED <<chatGen, madeUp>>

-----------------------------------------------------------------------------
ChatNext ==
  \/ ChatTypes \/ ChatAsk \/ ChatSuggest \/ ChatStop \/ ChatClear \/ ChatReload
  \/ \E r \in chatAsks : ChatToken(r) \/ ChatDone(r) \/ ChatAborted(r) \/ ChatRefused(r)

ChatSpec == ChatInit /\ [][ChatNext]_chatVars
-----------------------------------------------------------------------------
\* Every variable keeps its kind of value.
ChatTypeOK ==
  /\ chatLog \in Seq(Msg) /\ chatSaved \in Seq(Msg) /\ chatAsks \subseteq ChatRequest
  /\ chatBusy \in BOOLEAN /\ chatNotice \in BOOLEAN /\ chatGen \in 0 .. MaxClears
  /\ chatText \in 0 .. MaxQuestions /\ madeUp \in 0 .. MaxQuestions

\* Questions and answers alternate, and an answer holds only what was generated
\* for the question before it.
InTurns(log) ==
  /\ Len(log) % 2 = 0
  /\ \A i \in DOMAIN log :
       IF i % 2 = 1 THEN log[i].role = "user"
       ELSE log[i].role = "assistant" /\ log[i].tokens \subseteq {log[i - 1].q}

\* So it is on the screen and in what the tab remembers, through stopped and
\* refused questions, cleared conversations and reloads; and an answer is waited
\* for only while its request runs.
AnswersFollowQuestions ==
  /\ InTurns(chatLog) /\ InTurns(chatSaved)
  /\ \A i \in DOMAIN chatLog :
       bubbleOf(chatLog[i]) = "thinking" =>
         i = Len(chatLog) /\ \E r \in chatAsks : r.q = chatLog[i - 1].q
=============================================================================
