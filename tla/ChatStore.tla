------------------------------ MODULE ChatStore ------------------------------
(***************************************************************************)
(* The assistant's conversation in the web console, kept outside React: a  *)
(* transcript that is shown, the history that is sent with the next turn,  *)
(* and the turn that streams.  A reset does not wait for the turn it       *)
(* aborts, whose callbacks still come; accounts come and go.               *)
(***************************************************************************)
EXTENDS Naturals, FiniteSets, Sequences, SequencesExt

CONSTANTS
  People,      \* accounts
  Nobody,
  MaxTurns,    \* bound: turns sent
  MaxResets    \* bound: conversations thrown away

ASSUME ChatAssumption == Nobody \notin People /\ {MaxTurns, MaxResets} \subseteq Nat

VARIABLES
  user,        \* the signed-in account
  owner,       \* whose conversation it is
  session,     \* resets so far
  streaming,   \* whether the input waits for a turn
  messages,    \* the transcript: the turn, and what became of its answer
  chatHistory, \* what the next turn is sent with
  abort,       \* the turn whose AbortController is at hand, or 0
  turns,       \* turns in flight
  said         \* history: who sent each turn

chatVars == <<user, owner, session, streaming, messages, chatHistory, abort, turns, said>>

ChatInit ==
  /\ user = Nobody /\ owner = Nobody /\ session = 0
  /\ streaming = FALSE /\ messages = <<>> /\ chatHistory = <<>>
  /\ abort = 0 /\ turns = {} /\ said = <<>>

----------------------------------------------------------------------------
(* One turn.                                                               *)

\* The controller of a turn that has ended aborts nothing.
Aborted == {IF t.nr = abort THEN [t EXCEPT !.aborted = TRUE] ELSE t : t \in turns}

SendChat ==
  /\ user # Nobody /\ ~streaming /\ Len(said) < MaxTurns
  /\ said' = Append(said, user)
  /\ messages' = Append(messages, [turn |-> Len(said'), answer |-> FALSE, status |-> "streaming"])
  /\ streaming' = TRUE
  /\ turns' = turns \cup {[nr |-> Len(said'), session |-> session, sent |-> chatHistory,
                           text |-> FALSE, aborted |-> FALSE]}
  /\ abort' = Len(said')
  /\ UNCHANGED <<user, owner, session, chatHistory>>

\* Its conversation has not been thrown away.
Current(t) == t.session = session

\* The bubble of a turn.
Patched(t, answer, status) ==
  IF ~Current(t) THEN messages
  ELSE [i \in DOMAIN messages |->
          IF messages[i].turn = t.nr
          THEN [messages[i] EXCEPT !.answer = answer, !.status = status] ELSE messages[i]]

\* A delta, a step or a proposal; the coalescing of updates is left out.
OnEvent(t) ==
  /\ t \in turns /\ ~t.aborted /\ ~t.text
  /\ turns' = (turns \ {t}) \cup {[t EXCEPT !.text = TRUE]}
  /\ messages' = Patched(t, TRUE, "streaming")
  /\ UNCHANGED <<user, owner, session, streaming, chatHistory, abort, said>>

\* The stream ends, fails, or throws because it was aborted.
TurnEnded(t) ==
  /\ t \in turns /\ turns' = turns \ {t}
  /\ abort' = IF abort = t.nr THEN 0 ELSE abort
  /\ messages' = Patched(t, t.text, IF t.aborted THEN "aborted" ELSE "done")
  /\ IF Current(t)
     THEN /\ chatHistory' = chatHistory \o <<[turn |-> t.nr, role |-> "user"]>>
                        \o (IF t.text THEN <<[turn |-> t.nr, role |-> "assistant"]>> ELSE <<>>)
          /\ streaming' = FALSE
     ELSE UNCHANGED <<chatHistory, streaming>>
  /\ UNCHANGED <<user, owner, session, said>>

AbortChat ==
  /\ abort # 0 /\ turns' = Aborted
  /\ UNCHANGED <<user, owner, session, streaming, messages, chatHistory, abort, said>>

----------------------------------------------------------------------------
(* Conversations and accounts.                                             *)

\* Mistake: the conversation is cleared and keeps its number.
ResetKeepsSession ==
  /\ turns' = Aborted /\ abort' = 0
  /\ messages' = <<>> /\ chatHistory' = <<>> /\ streaming' = FALSE
  /\ UNCHANGED session

Reset ==
  /\ session' = session + 1
  /\ turns' = Aborted /\ abort' = 0
  /\ messages' = <<>> /\ chatHistory' = <<>> /\ streaming' = FALSE

\* "New chat".
ResetChat ==
  /\ session < MaxResets /\ (messages # <<>> \/ streaming)
  /\ Reset /\ UNCHANGED <<user, owner, said>>

Logout ==
  /\ user # Nobody /\ session < MaxResets
  /\ Reset /\ owner' = Nobody /\ user' = Nobody
  /\ UNCHANGED said

\* The token is refused: the shell goes away, and the conversation stays.
Expire ==
  /\ user # Nobody /\ user' = Nobody
  /\ UNCHANGED <<owner, session, streaming, messages, chatHistory, abort, turns, said>>

\* Mistake: only an empty chair is taken.
BindIfFree(u) ==
  IF owner = Nobody THEN owner' = u /\ Reset
  ELSE UNCHANGED <<owner, session, streaming, messages, chatHistory, abort, turns>>

BindChatOwner(u) ==
  IF owner = u THEN UNCHANGED <<owner, session, streaming, messages, chatHistory, abort, turns>>
  ELSE owner' = u /\ Reset

\* The shell comes up, and its effect binds the conversation.
SignIn(u) ==
  /\ user = Nobody /\ user' = u
  /\ owner = u \/ session < MaxResets
  /\ BindChatOwner(u)
  /\ UNCHANGED said

ChatNext ==
  \/ SendChat \/ AbortChat \/ ResetChat \/ Logout \/ Expire
  \/ \E t \in turns : OnEvent(t) \/ TurnEnded(t)
  \/ \E u \in People : SignIn(u)

ChatSpec == ChatInit /\ [][ChatNext]_chatVars

----------------------------------------------------------------------------
(* Properties.                                                             *)

Entries == [turn : Nat, role : {"user", "assistant"}]
Bubbles == [turn : Nat, answer : BOOLEAN, status : {"streaming", "aborted", "done"}]

ChatTypeOK ==
  /\ {user, owner} \subseteq People \cup {Nobody}
  /\ session \in Nat /\ streaming \in BOOLEAN
  /\ said \in Seq(People) /\ abort \in 0 .. Len(said)
  /\ messages \in Seq(Bubbles)
  /\ chatHistory \in Seq(Entries)
  /\ turns \subseteq [nr : Nat, session : Nat, sent : Seq(Entries), text : BOOLEAN, aborted : BOOLEAN]

Shown == [i \in DOMAIN messages |-> messages[i].turn]
Sent(h) == {x.turn : x \in ToSet(h)}

\* The input is closed exactly while a turn of this conversation streams, and
\* there is one such turn at most: a turn that was thrown away neither opens the
\* input of the next conversation nor leaves it closed (session in sendChat).
InputFollowsTurn ==
  LET own == {t \in turns : Current(t)} IN
  Cardinality(own) = IF streaming THEN 1 ELSE 0

\* What a turn is sent with are the turns that the transcript shows before it,
\* in order, and all of them are the account's own, whoever used the window
\* before and whatever still streams (resetChat, bindChatOwner).
SentIsShown ==
  /\ Sent(chatHistory) \cup {t.nr : t \in {x \in turns : Current(x)}} = ToSet(Shown)
  /\ \A i, j \in DOMAIN chatHistory : i < j => chatHistory[i].turn <= chatHistory[j].turn
  /\ user # Nobody => \A n \in ToSet(Shown) : said[n] = user
  /\ \A t \in turns : \A n \in Sent(t.sent) : said[n] = said[t.nr]

\* Turns are told apart by their number, and were all said.
TurnsApart ==
  /\ \A t, u \in turns : t.nr = u.nr => t = u
  /\ \A t \in turns : /\ t.nr \in DOMAIN said /\ t.session <= session
                      /\ Sent(t.sent) \subseteq DOMAIN said

\* A turn of this conversation is the last one that was sent.
LastTurnStreams ==
  /\ \A t \in turns : Current(t) => t.nr = Len(said)
  /\ streaming <=> \E t \in turns : Current(t)

\* The window shows what its owner said.
OwnerSays ==
  /\ user # Nobody => owner = user
  /\ \A n \in ToSet(Shown) : n \in DOMAIN said /\ said[n] = owner

ChatIInv == ChatTypeOK /\ TurnsApart /\ LastTurnStreams /\ OwnerSays /\ SentIsShown

=============================================================================
