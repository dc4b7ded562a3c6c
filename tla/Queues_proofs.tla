--------------------------- MODULE Queues_proofs ---------------------------
(***************************************************************************)
(* Proofs about what waits and is answered late: the turns of the chat, the*)
(* requests of a paged list, the buffered events of a device and its state,*)
(* for every number of them; and the commands for a device, for every set  *)
(* of them and every bound on the driver goroutines: the rows are honest   *)
(* about the outcome, settled rows stay settled, and an expired command    *)
(* never reaches the driver.                                               *)
(***************************************************************************)
EXTENDS IotCommand, ChatStore, PagedList, EventQueue, DevicePresence,
        SequenceTheorems, FiniteSetTheorems, TLAPS

----------------------------------------------------------------------------
(* The chat.                                                               *)

\* Without conversations the invariant holds.
LEMMA ChatInitInductive == ChatInit => ChatIInv
<1> SUFFICES ASSUME ChatInit PROVE ChatIInv
  OBVIOUS
<1>1. ChatTypeOK /\ TurnsApart /\ LastTurnStreams
  <2>1. <<>> \in Seq(Entries) /\ <<>> \in Seq(Bubbles) /\ <<>> \in Seq(People) /\ Len(<<>>) = 0
    OBVIOUS
  <2>2. said \in Seq(People) /\ abort \in 0 .. Len(said) /\ messages \in Seq(Bubbles) /\ chatHistory \in Seq(Entries)
    BY <2>1 DEF ChatInit
  <2>3. /\ {user, owner} \subseteq People \cup {Nobody} /\ session \in Nat /\ streaming \in BOOLEAN
        /\ turns = {} /\ streaming = FALSE
    BY DEF ChatInit
  <2> QED BY <2>2, <2>3 DEF ChatTypeOK, TurnsApart, LastTurnStreams
<1>2. Sent(chatHistory) = {} /\ ToSet(Shown) = {}
  BY DEF ChatInit, Sent, Shown, ToSet
<1>3. {t.nr : t \in {x \in turns : Current(x)}} = {}
  BY DEF ChatInit
<1>4. OwnerSays /\ SentIsShown
  BY <1>2, <1>3 DEF ChatInit, OwnerSays, SentIsShown
<1> QED BY <1>1, <1>4 DEF ChatIInv

\* An abort marks turns and changes nothing else of them.
LEMMA AbortedKeeps ==
  ASSUME ChatIInv, turns' = Aborted, UNCHANGED said
  PROVE  /\ turns' \subseteq [nr : Nat, session : Nat, sent : Seq(Entries), text : BOOLEAN, aborted : BOOLEAN]
         /\ \A t, u \in turns' : t.nr = u.nr => t = u
         /\ \A u \in turns' : \E t \in turns : u.nr = t.nr /\ u.session = t.session /\ u.sent = t.sent
         /\ \A t \in turns : \E u \in turns' : u.nr = t.nr /\ u.session = t.session /\ u.sent = t.sent
<1> DEFINE T == [nr : Nat, session : Nat, sent : Seq(Entries), text : BOOLEAN, aborted : BOOLEAN]
           mark(t) == IF t.nr = abort THEN [t EXCEPT !.aborted = TRUE] ELSE t
<1>1. turns' = {mark(t) : t \in turns}
  BY DEF Aborted
<1>2. turns \subseteq T
  BY DEF ChatIInv, ChatTypeOK
<1>3. ASSUME NEW t \in turns
      PROVE  mark(t) \in T /\ mark(t).nr = t.nr /\ mark(t).session = t.session /\ mark(t).sent = t.sent
  BY <1>2
<1> HIDE DEF T, mark
<1>4. ASSUME NEW u \in turns'
      PROVE  \E t \in turns : u = mark(t) /\ u.nr = t.nr /\ u.session = t.session /\ u.sent = t.sent
  BY <1>1, <1>3
<1>5. \A t, u \in turns : t.nr = u.nr => t = u
  BY DEF ChatIInv, TurnsApart
<1>6. \A t, u \in turns' : t.nr = u.nr => t = u
  BY <1>4, <1>5
<1>7. turns' \subseteq T
  BY <1>1, <1>3
<1> QED BY <1>1, <1>3, <1>4, <1>6, <1>7 DEF T

\* A conversation that is thrown away leaves no turn and no word behind.
LEMMA ResetStep ==
  ASSUME ChatIInv, Reset, UNCHANGED said,
         {user', owner'} \subseteq People \cup {Nobody}, user' # Nobody => owner' = user'
  PROVE  ChatIInv'
<1>1. /\ session \in Nat /\ session' = session + 1 /\ turns' = Aborted /\ abort' = 0
      /\ messages' = <<>> /\ chatHistory' = <<>> /\ streaming' = FALSE
  BY DEF Reset, ChatIInv, ChatTypeOK
<1>2. \A u \in turns' : \E t \in turns : u.nr = t.nr /\ u.session = t.session /\ u.sent = t.sent
  BY <1>1, AbortedKeeps
<1>3. ChatTypeOK'
  <2>1. turns' \subseteq [nr : Nat, session : Nat, sent : Seq(Entries), text : BOOLEAN, aborted : BOOLEAN]
    BY <1>1, AbortedKeeps
  <2>2. said' \in Seq(People) /\ abort' \in 0 .. Len(said')
    BY <1>1 DEF ChatIInv, ChatTypeOK
  <2>3. <<>> \in Seq(Entries) /\ <<>> \in Seq(Bubbles)
    OBVIOUS
  <2>4. session' \in Nat
    BY <1>1
  <2>6. streaming' = FALSE
    BY <1>1
  <2>5. messages' \in Seq(Bubbles) /\ chatHistory' \in Seq(Entries)
    BY <1>1, <2>3
  <2> QED BY <2>1, <2>2, <2>4, <2>5, <2>6 DEF ChatTypeOK
<1>4. \A u \in turns' : /\ u.nr \in DOMAIN said' /\ u.session <= session
                        /\ Sent(u.sent) \subseteq DOMAIN said'
                        /\ \A n \in Sent(u.sent) : said'[n] = said'[u.nr]
  BY <1>2 DEF ChatIInv, TurnsApart, SentIsShown
<1>5. \A u \in turns' : u.session <= session' /\ u.session # session'
  <2> SUFFICES ASSUME NEW u \in turns' PROVE u.session <= session' /\ u.session # session'
    OBVIOUS
  <2>1. u.session \in Nat
    BY <1>1, AbortedKeeps
  <2> QED BY <1>1, <1>4, <2>1
<1>6. TurnsApart'
  BY <1>1, <1>4, <1>5, AbortedKeeps DEF TurnsApart, Sent
<1>7. LastTurnStreams'
  BY <1>1, <1>5 DEF LastTurnStreams, Current
<1>8. OwnerSays'
  BY <1>1 DEF OwnerSays, Shown, ToSet
<1>9. SentIsShown'
  <2>1. Sent(chatHistory)' = {} /\ ToSet(Shown)' = {}
    BY <1>1 DEF Sent, Shown, ToSet
  <2>2. {t.nr : t \in {x \in turns : Current(x)}}' = {}
    BY <1>5 DEF Current
  <2>3. (\A t \in turns : \A n \in Sent(t.sent) : said[n] = said[t.nr])'
    BY <1>4 DEF Sent
  <2>4. \A i, j \in DOMAIN chatHistory' : i < j => chatHistory'[i].turn <= chatHistory'[j].turn
    BY <1>1
  <2> HIDE DEF Sent
  <2>5. (Sent(chatHistory) \cup {t.nr : t \in {x \in turns : Current(x)}} = ToSet(Shown))'
    BY <2>1, <2>2
  <2>6. (user # Nobody => \A n \in ToSet(Shown) : said[n] = user)'
    BY <2>1
  <2> QED BY <2>3, <2>4, <2>5, <2>6 DEF SentIsShown
<1> QED BY <1>3, <1>6, <1>7, <1>8, <1>9 DEF ChatIInv

\* Another account comes and goes; the conversation stays.
LEMMA AccountStep ==
  ASSUME ChatIInv, UNCHANGED <<session, streaming, messages, chatHistory, abort, turns, said, owner>>,
         user' \in People \cup {Nobody}, user' # Nobody => owner = user'
  PROVE  ChatIInv'
<1>1. ChatTypeOK'
  BY DEF ChatIInv, ChatTypeOK
<1>2. TurnsApart' /\ LastTurnStreams'
  BY DEF ChatIInv, TurnsApart, LastTurnStreams, Current, Sent
<1>3. OwnerSays'
  BY DEF ChatIInv, OwnerSays, Shown
<1>4. Shown' = Shown /\ {x \in turns' : Current(x)'} = {x \in turns : Current(x)}
  BY DEF Shown, Current
<1>5. SentIsShown'
  BY <1>3, <1>4 DEF ChatIInv, SentIsShown, OwnerSays, Sent, Shown, Current
<1> QED BY <1>1, <1>2, <1>3, <1>5 DEF ChatIInv

\* An abort marks the turn under way.
LEMMA AbortStep ==
  ASSUME ChatIInv, AbortChat
  PROVE  ChatIInv'
<1>1. /\ turns' = Aborted
      /\ UNCHANGED <<user, owner, session, streaming, messages, chatHistory, abort, said>>
  BY DEF AbortChat
<1>2. /\ \A u \in turns' : \E t \in turns : u.nr = t.nr /\ u.session = t.session /\ u.sent = t.sent
      /\ \A t \in turns : \E u \in turns' : u.nr = t.nr /\ u.session = t.session /\ u.sent = t.sent
  BY <1>1, AbortedKeeps
<1>3. ChatTypeOK'
  <2>1. turns' \subseteq [nr : Nat, session : Nat, sent : Seq(Entries), text : BOOLEAN, aborted : BOOLEAN]
    BY <1>1, AbortedKeeps
  <2> QED BY <1>1, <2>1 DEF ChatIInv, ChatTypeOK
<1>4. TurnsApart'
  BY <1>1, <1>2, AbortedKeeps DEF ChatIInv, TurnsApart, Sent
<1>5. LastTurnStreams'
  BY <1>1, <1>2 DEF ChatIInv, LastTurnStreams, Current
<1>6. OwnerSays'
  BY <1>1 DEF ChatIInv, OwnerSays, Shown
<1>7. SentIsShown'
  <2>1. Shown' = Shown
    BY <1>1 DEF Shown
  <2>2. {t.nr : t \in {x \in turns : Current(x)}}' = {t.nr : t \in {x \in turns : Current(x)}}
    <3>1. \A n \in {t.nr : t \in {x \in turns : Current(x)}}' : n \in {t.nr : t \in {x \in turns : Current(x)}}
      BY <1>1, <1>2 DEF Current
    <3>2. \A n \in {t.nr : t \in {x \in turns : Current(x)}} : n \in {t.nr : t \in {x \in turns : Current(x)}}'
      BY <1>1, <1>2 DEF Current
    <3> QED BY <3>1, <3>2
  <2>3. (\A t \in turns : \A n \in Sent(t.sent) : said[n] = said[t.nr])'
    BY <1>1, <1>2 DEF ChatIInv, SentIsShown, Sent
  <2>4. Sent(chatHistory)' = Sent(chatHistory)
    BY <1>1 DEF Sent
  <2> QED BY <1>1, <2>1, <2>2, <2>3, <2>4 DEF ChatIInv, SentIsShown
<1> QED BY <1>3, <1>4, <1>5, <1>6, <1>7 DEF ChatIInv

\* A turn goes out with the history, and everything in it is the account's own.
LEMMA SendStep ==
  ASSUME ChatIInv, SendChat
  PROVE  ChatIInv'
<1> DEFINE n == Len(said) + 1
           bubble == [turn |-> n, answer |-> FALSE, status |-> "streaming"]
           new == [nr |-> n, session |-> session, sent |-> chatHistory, text |-> FALSE, aborted |-> FALSE]
<1>1. /\ user # Nobody /\ user \in People /\ owner = user /\ ~streaming /\ streaming' = TRUE
      /\ said \in Seq(People) /\ messages \in Seq(Bubbles) /\ chatHistory \in Seq(Entries)
      /\ session \in Nat
  BY DEF SendChat, ChatIInv, ChatTypeOK, OwnerSays
<1>2. said' = Append(said, user) /\ said' \in Seq(People) /\ Len(said') = n
      /\ DOMAIN said' = 1 .. n /\ DOMAIN said = 1 .. Len(said) /\ n \in Nat
      /\ said'[n] = user /\ \A k \in DOMAIN said : said'[k] = said[k]
  BY <1>1 DEF SendChat
<1>3. /\ messages' = Append(messages, bubble) /\ turns' = turns \cup {new} /\ abort' = n
      /\ UNCHANGED <<user, owner, session, chatHistory>>
  BY <1>2 DEF SendChat
<1>4. bubble \in Bubbles /\ bubble.turn = n
  BY <1>2 DEF Bubbles
<1>5. new \in [nr : Nat, session : Nat, sent : Seq(Entries), text : BOOLEAN, aborted : BOOLEAN]
      /\ new.nr = n /\ new.session = session /\ new.sent = chatHistory
  BY <1>1, <1>2
<1> HIDE DEF n, bubble, new
<1>6. ChatTypeOK'
  <2>1. messages' \in Seq(Bubbles)
    BY <1>1, <1>3, <1>4
  <2> QED BY <1>1, <1>2, <1>3, <1>5, <2>1 DEF ChatIInv, ChatTypeOK
<1>7. Shown' = Append(Shown, n) /\ ToSet(Shown)' = ToSet(Shown) \cup {n}
  <2>1. /\ DOMAIN messages' = 1 .. Len(messages) + 1 /\ DOMAIN messages = 1 .. Len(messages)
        /\ \A i \in DOMAIN messages : messages'[i] = messages[i]
        /\ messages'[Len(messages) + 1] = bubble /\ Len(messages) \in Nat
    BY <1>1, <1>3, <1>4
  <2>2. /\ \A i \in DOMAIN messages : Shown'[i] = Shown[i]
        /\ Shown'[Len(messages) + 1] = n
        /\ DOMAIN Shown' = 1 .. Len(messages) + 1 /\ DOMAIN Shown = 1 .. Len(messages)
    BY <1>4, <2>1 DEF Shown
  <2>3. ToSet(Shown)' = {Shown'[i] : i \in DOMAIN Shown'} /\ ToSet(Shown) = {Shown[i] : i \in DOMAIN Shown}
    BY DEF ToSet
  <2>4. ToSet(Shown)' = ToSet(Shown) \cup {n}
    BY <2>1, <2>2, <2>3
  <2>5. Len(Shown) = Len(messages)
    BY <2>1 DEF Shown
  <2>6. Shown' = Append(Shown, n)
    BY <2>1, <2>2, <2>5 DEF Shown
  <2> QED BY <2>4, <2>6
<1>8. TurnsApart'
  <2>1. \A t \in turns : t.nr # n /\ t.nr \in DOMAIN said
    BY <1>2 DEF ChatIInv, TurnsApart
  <2>2. \A t, u \in turns' : t.nr = u.nr => t = u
    BY <1>3, <1>5, <2>1 DEF ChatIInv, TurnsApart
  <2>3. Sent(chatHistory) \subseteq DOMAIN said
    BY DEF ChatIInv, SentIsShown, OwnerSays
  <2>4. \A t \in turns' : t.nr \in DOMAIN said' /\ t.session <= session' /\ Sent(t.sent) \subseteq DOMAIN said'
    <3> SUFFICES ASSUME NEW t \in turns'
                 PROVE  t.nr \in DOMAIN said' /\ t.session <= session' /\ Sent(t.sent) \subseteq DOMAIN said'
      OBVIOUS
    <3>1. DOMAIN said \subseteq DOMAIN said' /\ n \in DOMAIN said'
      BY <1>2 DEF n
    <3>2. CASE t = new
      BY <1>1, <1>3, <1>5, <2>3, <3>1, <3>2
    <3>3. CASE t \in turns
      BY <1>3, <3>1, <3>3 DEF ChatIInv, TurnsApart
    <3> QED BY <1>3, <3>2, <3>3
  <2> QED BY <2>2, <2>4 DEF TurnsApart, Sent
<1>9. \A t \in turns : ~Current(t)
  BY <1>1 DEF ChatIInv, LastTurnStreams
<1>10. {x \in turns' : Current(x)'} = {new}
  BY <1>3, <1>5, <1>9 DEF Current
<1>11. LastTurnStreams'
  BY <1>1, <1>2, <1>5, <1>10 DEF LastTurnStreams
<1>12. OwnerSays'
  BY <1>1, <1>2, <1>3, <1>7 DEF ChatIInv, OwnerSays
<1>13. SentIsShown'
  <2>1. Sent(chatHistory) \cup {t.nr : t \in {x \in turns : Current(x)}} = ToSet(Shown)
        /\ (\A i, j \in DOMAIN chatHistory : i < j => chatHistory[i].turn <= chatHistory[j].turn)
    BY DEF ChatIInv, SentIsShown
  <2>2. (Sent(chatHistory) \cup {t.nr : t \in {x \in turns : Current(x)}} = ToSet(Shown))'
    <3>1. {t.nr : t \in {x \in turns : Current(x)}} = {}
      BY <1>9
    <3>2. {t.nr : t \in {x \in turns : Current(x)}}' = {n}
      BY <1>5, <1>10
    <3>3. Sent(chatHistory)' = Sent(chatHistory)
      BY <1>3 DEF Sent
    <3> QED BY <1>7, <2>1, <3>1, <3>2, <3>3
  <2>3. (user # Nobody => \A k \in ToSet(Shown) : said[k] = user)'
    BY <1>12 DEF OwnerSays
  <2>4. \A k \in Sent(chatHistory) : k \in DOMAIN said /\ said[k] = user
    BY <1>1, <2>1 DEF ChatIInv, OwnerSays
  <2>5. \A t \in turns' : \A k \in Sent(t.sent) : said'[k] = said'[t.nr]
    <3> SUFFICES ASSUME NEW t \in turns', NEW k \in Sent(t.sent) PROVE said'[k] = said'[t.nr]
      OBVIOUS
    <3>1. CASE t = new
      BY <1>2, <1>5, <2>4, <3>1
    <3>2. CASE t \in turns
      BY <1>2, <3>2 DEF ChatIInv, TurnsApart, SentIsShown
    <3> QED BY <1>3, <3>1, <3>2
  <2>6. (\A t \in turns : \A k \in Sent(t.sent) : said[k] = said[t.nr])'
    BY <2>5 DEF Sent
  <2> QED BY <1>3, <2>1, <2>2, <2>3, <2>6 DEF SentIsShown
<1> QED BY <1>6, <1>8, <1>11, <1>12, <1>13 DEF ChatIInv

\* The bubbles keep their turns.
LEMMA PatchedKeeps ==
  ASSUME ChatIInv, NEW t \in turns, NEW answer \in BOOLEAN, NEW status \in {"streaming", "aborted", "done"},
         messages' = Patched(t, answer, status)
  PROVE  messages' \in Seq(Bubbles) /\ Shown' = Shown
<1>1. messages \in Seq(Bubbles)
  BY DEF ChatIInv, ChatTypeOK
<1>2. CASE ~Current(t)
  BY <1>1, <1>2 DEF Patched, Shown
<1>3. CASE Current(t)
  <2> DEFINE b(i) == IF messages[i].turn = t.nr
                     THEN [messages[i] EXCEPT !.answer = answer, !.status = status] ELSE messages[i]
  <2>1. messages' = [i \in DOMAIN messages |-> b(i)]
    BY <1>3 DEF Patched
  <2>2. ASSUME NEW i \in DOMAIN messages PROVE b(i) \in Bubbles /\ b(i).turn = messages[i].turn
    <3>1. messages[i] \in Bubbles
      BY <1>1
    <3> QED BY <3>1 DEF Bubbles
  <2> HIDE DEF b
  <2>3. DOMAIN messages = 1 .. Len(messages) /\ Len(messages) \in Nat
    BY <1>1
  <2>4. messages' \in Seq(Bubbles)
    BY <2>1, <2>2, <2>3, IsASeq
  <2>5. Shown' = Shown
    BY <2>1, <2>2 DEF Shown
  <2> QED BY <2>4, <2>5
<1> QED BY <1>2, <1>3

\* An event of a turn under way fills its own message.
LEMMA EventStep ==
  ASSUME ChatIInv, NEW t \in turns, OnEvent(t)
  PROVE  ChatIInv'
<1> DEFINE u == [t EXCEPT !.text = TRUE]
<1>1. /\ turns' = (turns \ {t}) \cup {u} /\ messages' = Patched(t, TRUE, "streaming")
      /\ UNCHANGED <<user, owner, session, streaming, chatHistory, abort, said>>
  BY DEF OnEvent
<1>2. t \in [nr : Nat, session : Nat, sent : Seq(Entries), text : BOOLEAN, aborted : BOOLEAN]
  BY DEF ChatIInv, ChatTypeOK
<1>3. u \in [nr : Nat, session : Nat, sent : Seq(Entries), text : BOOLEAN, aborted : BOOLEAN]
      /\ u.nr = t.nr /\ u.session = t.session /\ u.sent = t.sent
  BY <1>2
<1> HIDE DEF u
<1>4. messages' \in Seq(Bubbles) /\ Shown' = Shown
  BY <1>1, PatchedKeeps
<1>5. ChatTypeOK'
  BY <1>1, <1>3, <1>4 DEF ChatIInv, ChatTypeOK
<1>6. TurnsApart'
  BY <1>1, <1>3 DEF ChatIInv, TurnsApart, Sent
<1>7. LastTurnStreams'
  BY <1>1, <1>3 DEF ChatIInv, LastTurnStreams, Current
<1>8. OwnerSays'
  BY <1>1, <1>4 DEF ChatIInv, OwnerSays
<1>9. SentIsShown'
  <2>1. {x.nr : x \in {y \in turns : Current(y)}}' = {x.nr : x \in {y \in turns : Current(y)}}
    <3>1. \A n \in {x.nr : x \in {y \in turns : Current(y)}}' : n \in {x.nr : x \in {y \in turns : Current(y)}}
      BY <1>1, <1>3 DEF Current
    <3>2. \A n \in {x.nr : x \in {y \in turns : Current(y)}} : n \in {x.nr : x \in {y \in turns : Current(y)}}'
      BY <1>1, <1>3 DEF Current
    <3> QED BY <3>1, <3>2
  <2>2. (\A x \in turns : \A n \in Sent(x.sent) : said[n] = said[x.nr])'
    BY <1>1, <1>3 DEF ChatIInv, SentIsShown, Sent
  <2>3. Sent(chatHistory)' = Sent(chatHistory) /\ ToSet(Shown)' = ToSet(Shown)
    BY <1>1, <1>4 DEF Sent
  <2> QED BY <1>1, <2>1, <2>2, <2>3 DEF ChatIInv, SentIsShown
<1> QED BY <1>5, <1>6, <1>7, <1>8, <1>9 DEF ChatIInv

\* What ends a turn writes to the history of its own conversation only.
LEMMA TurnEndedStep ==
  ASSUME ChatIInv, NEW t \in turns, TurnEnded(t)
  PROVE  ChatIInv'
<1> DEFINE words == <<[turn |-> t.nr, role |-> "user"]>>
                      \o (IF t.text THEN <<[turn |-> t.nr, role |-> "assistant"]>> ELSE <<>>)
<1>1. /\ turns' = turns \ {t} /\ abort' = (IF abort = t.nr THEN 0 ELSE abort)
      /\ messages' = Patched(t, t.text, IF t.aborted THEN "aborted" ELSE "done")
      /\ IF Current(t) THEN chatHistory' = (chatHistory \o <<[turn |-> t.nr, role |-> "user"]>>
                                \o (IF t.text THEN <<[turn |-> t.nr, role |-> "assistant"]>> ELSE <<>>)) /\ streaming' = FALSE
         ELSE UNCHANGED <<chatHistory, streaming>>
      /\ UNCHANGED <<user, owner, session, said>>
  BY DEF TurnEnded
<1>2. t.nr \in Nat /\ t.text \in BOOLEAN /\ t.aborted \in BOOLEAN
  BY DEF ChatIInv, ChatTypeOK
<1>3. messages' \in Seq(Bubbles) /\ Shown' = Shown
  BY <1>1, <1>2, PatchedKeeps
<1>4. words \in Seq(Entries) /\ Len(words) \in {1, 2} /\ \A i \in DOMAIN words : words[i].turn = t.nr
  <2>1. [turn |-> t.nr, role |-> "user"] \in Entries /\ [turn |-> t.nr, role |-> "assistant"] \in Entries
    BY <1>2 DEF Entries
  <2>2. CASE t.text
    BY <2>1, <2>2
  <2>3. CASE ~t.text
    BY <2>1, <2>3
  <2> QED BY <2>2, <2>3
<1>5. /\ chatHistory \in Seq(Entries)
      /\ Current(t) => /\ chatHistory' = chatHistory \o words
                       /\ streaming' = FALSE
  <2>1. chatHistory \in Seq(Entries)
    BY DEF ChatIInv, ChatTypeOK
  <2>2. <<[turn |-> t.nr, role |-> "user"]>> \in Seq(Entries)
        /\ (IF t.text THEN <<[turn |-> t.nr, role |-> "assistant"]>> ELSE <<>>) \in Seq(Entries)
    <3>1. [turn |-> t.nr, role |-> "user"] \in Entries /\ [turn |-> t.nr, role |-> "assistant"] \in Entries
      BY <1>2 DEF Entries
    <3> QED BY <3>1
  <2>3. (chatHistory \o <<[turn |-> t.nr, role |-> "user"]>>)
          \o (IF t.text THEN <<[turn |-> t.nr, role |-> "assistant"]>> ELSE <<>>) = chatHistory \o words
    BY <2>1, <2>2, ConcatAssociative
  <2> QED BY <1>1, <2>1, <2>3
<1> HIDE DEF words
<1>6. ChatTypeOK'
  <2>1. chatHistory' \in Seq(Entries)
    <3>1. CASE Current(t)
      <4>1. chatHistory' = chatHistory \o words
        BY <1>5, <3>1
      <4>2. chatHistory \o words \in Seq(Entries)
        BY <1>4, <1>5
      <4> QED BY <4>1, <4>2
    <3>2. CASE ~Current(t)
      BY <1>1, <1>5, <3>2
    <3> QED BY <3>1, <3>2
  <2>2. streaming' \in BOOLEAN
    <3>1. streaming' = streaming \/ streaming' = FALSE
      BY <1>1
    <3> QED BY <3>1 DEF ChatIInv, ChatTypeOK
  <2>3. abort' \in 0 .. Len(said')
    <3>1. abort' = abort \/ abort' = 0
      BY <1>1
    <3>2. abort \in 0 .. Len(said) /\ Len(said) \in Nat /\ said' = said
      BY <1>1 DEF ChatIInv, ChatTypeOK
    <3> QED BY <3>1, <3>2
  <2> QED BY <1>1, <1>3, <2>1, <2>2, <2>3 DEF ChatIInv, ChatTypeOK
<1>7. TurnsApart'
  BY <1>1 DEF ChatIInv, TurnsApart, Sent
<1>8. LastTurnStreams'
  BY <1>1 DEF ChatIInv, LastTurnStreams, TurnsApart, Current
<1>9. OwnerSays'
  BY <1>1, <1>3 DEF ChatIInv, OwnerSays
<1>10. (\A x \in turns : \A n \in Sent(x.sent) : said[n] = said[x.nr])'
  BY <1>1 DEF ChatIInv, SentIsShown, Sent
<1>11. (user # Nobody => \A n \in ToSet(Shown) : said[n] = user)'
  BY <1>9 DEF OwnerSays
<1>12. CASE ~Current(t)
  <2>1. {x.nr : x \in {y \in turns : Current(y)}}' = {x.nr : x \in {y \in turns : Current(y)}}
    BY <1>1, <1>12 DEF Current
  <2>2. Sent(chatHistory)' = Sent(chatHistory) /\ ToSet(Shown)' = ToSet(Shown) /\ chatHistory' = chatHistory
    BY <1>1, <1>3, <1>12 DEF Sent
  <2>3. SentIsShown'
    BY <1>10, <1>11, <2>1, <2>2 DEF ChatIInv, SentIsShown
  <2> QED BY <1>6, <1>7, <1>8, <1>9, <2>3 DEF ChatIInv
<1>13. CASE Current(t)
  <2>1. {x.nr : x \in {y \in turns : Current(y)}} = {t.nr}
    BY <1>13 DEF ChatIInv, LastTurnStreams, TurnsApart
  <2>2. {x.nr : x \in {y \in turns : Current(y)}}' = {}
    BY <1>1, <1>13 DEF ChatIInv, LastTurnStreams, TurnsApart, Current
  <2>3. /\ chatHistory' = chatHistory \o words
        /\ DOMAIN chatHistory = 1 .. Len(chatHistory) /\ DOMAIN words = 1 .. Len(words)
        /\ DOMAIN chatHistory' = 1 .. Len(chatHistory) + Len(words)
        /\ \A i \in DOMAIN chatHistory : chatHistory'[i] = chatHistory[i]
        /\ \A i \in 1 .. Len(words) : chatHistory'[Len(chatHistory) + i] = words[i]
        /\ \A i \in DOMAIN chatHistory' \ DOMAIN chatHistory :
             i - Len(chatHistory) \in DOMAIN words /\ chatHistory'[i] = words[i - Len(chatHistory)]
        /\ Len(chatHistory) \in Nat
    <3>1. chatHistory \in Seq(Entries) /\ words \in Seq(Entries) /\ chatHistory' = chatHistory \o words
      BY <1>4, <1>5, <1>13
    <3>2. /\ DOMAIN chatHistory = 1 .. Len(chatHistory) /\ Len(chatHistory) \in Nat
          /\ DOMAIN words = 1 .. Len(words) /\ Len(words) \in Nat
      BY <3>1
    <3>3. /\ DOMAIN chatHistory' = 1 .. Len(chatHistory) + Len(words)
          /\ \A i \in DOMAIN chatHistory : chatHistory'[i] = chatHistory[i]
      BY <3>1
    <3>4. \A i \in 1 .. Len(words) : chatHistory'[Len(chatHistory) + i] = words[i]
      BY <3>1
    <3>5. ASSUME NEW i \in DOMAIN chatHistory' \ DOMAIN chatHistory
          PROVE i - Len(chatHistory) \in DOMAIN words /\ chatHistory'[i] = words[i - Len(chatHistory)]
      <4>1. i - Len(chatHistory) \in 1 .. Len(words) /\ i = Len(chatHistory) + (i - Len(chatHistory))
        BY <3>2, <3>3
      <4> QED BY <3>2, <3>4, <4>1
    <3> QED BY <3>1, <3>2, <3>3, <3>4, <3>5
  <2>4. \A i \in DOMAIN chatHistory' \ DOMAIN chatHistory : chatHistory'[i].turn = t.nr
    BY <1>4, <2>3
  <2>5. Sent(chatHistory)' = Sent(chatHistory) \cup {t.nr}
    <3>1. Sent(chatHistory) = {chatHistory[i].turn : i \in DOMAIN chatHistory}
      BY DEF Sent, ToSet
    <3>2. Sent(chatHistory)' = {chatHistory'[i].turn : i \in DOMAIN chatHistory'}
      BY DEF Sent, ToSet
    <3>3. Len(chatHistory) + 1 \in DOMAIN chatHistory' \ DOMAIN chatHistory
      BY <1>4, <2>3
    <3>4. \A n \in Sent(chatHistory)' : n \in Sent(chatHistory) \cup {t.nr}
      BY <2>3, <2>4, <3>1, <3>2
    <3>5. DOMAIN chatHistory \subseteq DOMAIN chatHistory'
      BY <1>4, <2>3
    <3>6. \A n \in Sent(chatHistory) \cup {t.nr} : n \in Sent(chatHistory)'
      BY <2>3, <2>4, <3>1, <3>2, <3>3, <3>5
    <3> QED BY <3>4, <3>6
  <2>6. (Sent(chatHistory) \cup {x.nr : x \in {y \in turns : Current(y)}} = ToSet(Shown))'
    <3>1. Sent(chatHistory) \cup {t.nr} = ToSet(Shown)
      BY <2>1 DEF ChatIInv, SentIsShown
    <3> QED BY <1>3, <2>2, <2>5, <3>1
  <2>7. \A i \in DOMAIN chatHistory : chatHistory[i].turn \in Nat /\ chatHistory[i].turn <= t.nr
    <3> SUFFICES ASSUME NEW i \in DOMAIN chatHistory
                 PROVE  chatHistory[i].turn \in Nat /\ chatHistory[i].turn <= t.nr
      OBVIOUS
    <3>1. chatHistory[i].turn \in ToSet(Shown)
      <4>1. chatHistory[i].turn \in Sent(chatHistory)
        BY DEF Sent, ToSet
      <4> QED BY <4>1 DEF ChatIInv, SentIsShown
    <3>2. chatHistory[i].turn \in DOMAIN said
      BY <3>1 DEF ChatIInv, OwnerSays
    <3>3. t.nr = Len(said) /\ DOMAIN said = 1 .. Len(said) /\ Len(said) \in Nat
      BY <1>13 DEF ChatIInv, LastTurnStreams, ChatTypeOK
    <3> QED BY <3>2, <3>3
  <2>8. \A i, j \in DOMAIN chatHistory' : i < j => chatHistory'[i].turn <= chatHistory'[j].turn
    <3> SUFFICES ASSUME NEW i \in DOMAIN chatHistory', NEW j \in DOMAIN chatHistory', i < j
                 PROVE  chatHistory'[i].turn <= chatHistory'[j].turn
      OBVIOUS
    <3>1. CASE j \in DOMAIN chatHistory
      <4>1. i \in DOMAIN chatHistory
        BY <2>3, <3>1, <1>4
      <4> QED BY <2>3, <3>1, <4>1 DEF ChatIInv, SentIsShown
    <3>2. CASE j \notin DOMAIN chatHistory
      BY <1>2, <2>3, <2>4, <2>7, <3>2
    <3> QED BY <3>1, <3>2
  <2>9. SentIsShown'
    BY <1>10, <1>11, <2>6, <2>8 DEF SentIsShown
  <2> QED BY <1>6, <1>7, <1>8, <1>9, <2>9 DEF ChatIInv
<1> QED BY <1>12, <1>13

\* Every step of the conversations keeps the invariant.
LEMMA ChatStepInductive == ChatIInv /\ [ChatNext]_chatVars => ChatIInv'
<1> SUFFICES ASSUME ChatIInv, [ChatNext]_chatVars PROVE ChatIInv'
  OBVIOUS
<1>1. {user, owner} \subseteq People \cup {Nobody} /\ (user # Nobody => owner = user)
  BY DEF ChatIInv, ChatTypeOK, OwnerSays
<1>2. CASE ResetChat
  BY <1>1, <1>2, ResetStep DEF ResetChat
<1>3. CASE Logout
  BY <1>1, <1>3, ResetStep DEF Logout
<1>4. CASE Expire
  BY <1>1, <1>4, AccountStep DEF Expire
<1>5. ASSUME NEW u \in People, SignIn(u) PROVE ChatIInv'
  <2>1. user' = u /\ u # Nobody /\ said' = said
    BY <1>5, ChatAssumption DEF SignIn
  <2>2. CASE owner = u
    BY <1>1, <1>5, <2>1, <2>2, AccountStep DEF SignIn, BindChatOwner
  <2>3. CASE owner # u
    BY <1>1, <1>5, <2>1, <2>3, ResetStep DEF SignIn, BindChatOwner
  <2> QED BY <2>2, <2>3
<1>6. CASE UNCHANGED chatVars
  BY <1>1, <1>6, AccountStep DEF chatVars
<1> QED BY <1>2, <1>3, <1>4, <1>5, <1>6, SendStep, AbortStep, EventStep, TurnEndedStep DEF ChatNext

\* It holds of every reachable state.
LEMMA ChatInvariance == ChatSpec => []ChatIInv
BY ChatInitInductive, ChatStepInductive, PTL DEF ChatSpec

\* A turn of a conversation that was thrown away neither opens nor blocks the
\* input of the next one (chatStore.ts sendChat, resetChat): InputFollowsTurn.
THEOREM InputIsTheTurns == ChatSpec => []InputFollowsTurn
<1>1. ChatIInv => InputFollowsTurn
  <2> SUFFICES ASSUME ChatIInv PROVE InputFollowsTurn
    OBVIOUS
  <2> DEFINE own == {t \in turns : Current(t)}
  <2>1. \A t, u \in own : t = u
    BY DEF ChatIInv, TurnsApart, LastTurnStreams
  <2>2. CASE streaming
    <3>1. PICK t \in own : TRUE
      BY <2>2 DEF ChatIInv, LastTurnStreams
    <3>2. own = {t}
      BY <2>1, <3>1
    <3> QED BY <2>2, <3>2, FS_Singleton DEF InputFollowsTurn
  <2>3. CASE ~streaming
    <3>1. own = {}
      BY <2>3 DEF ChatIInv, LastTurnStreams
    <3> QED BY <2>3, <3>1, FS_EmptySet DEF InputFollowsTurn
  <2> QED BY <2>2, <2>3
<1> QED BY <1>1, ChatInvariance, PTL

\* A turn is sent with what the transcript shows, all of it the account's own
\* (chatStore.ts bindChatOwner): SentIsShown.
THEOREM ChatIsOnesOwn == ChatSpec => []SentIsShown
<1>1. ChatIInv => SentIsShown
  BY DEF ChatIInv
<1> QED BY <1>1, ChatInvariance, PTL

----------------------------------------------------------------------------
(* The paged list.                                                         *)

\* Before the first request the invariant holds.
LEMMA ListInitInductive == ListInit => ListIInv
<1> SUFFICES ASSUME ListInit PROVE ListIInv
  OBVIOUS
<1>1. PICK fv \in FilterValues : want = [page |-> 1, search |-> NoSearch, filter |-> fv, reload |-> 0]
  BY DEF ListInit
<1>2. want \in Wants /\ asked = want /\ asks = 1 /\ flying = {[nr |-> 1, of |-> want, found |-> Unread]}
  BY <1>1, ListAssumption DEF ListInit, Wants
<1>3. Unread \in Nat /\ Unread = MaxFound + 1 /\ MaxFound \in Nat /\ Unread \in 0 .. Unread
  BY ListAssumption DEF Unread
<1> DEFINE f0 == [nr |-> 1, of |-> want, found |-> Unread]
<1>4. f0 \in [nr : Nat, of : Wants, found : 0 .. Unread] /\ f0.nr = 1 /\ f0.of = want /\ f0.found = Unread
  BY <1>2, <1>3
<1> HIDE DEF f0
<1>5. flying = {f0}
  BY <1>2 DEF f0
<1>6. ListTypeOK
  <2>1. found \in [Searches \X FilterValues -> 0 .. MaxFound]
    BY <1>3 DEF ListInit
  <2>2. shown \in Seq([of : Wants, rows : {0, 1}])
    BY DEF ListInit
  <2>3. /\ app \in {"console", "miniapp"} /\ mode = "replace" /\ typed \in Searches /\ acts = 0 /\ total = 0
        /\ timer = FALSE /\ failure = FALSE /\ more = FALSE /\ changing = FALSE
    BY ListAssumption DEF ListInit
  <2>4. {timer, failure, more, changing} \subseteq BOOLEAN
    BY <2>3
  <2>5. {want, asked} \subseteq Wants /\ {asks, total, acts} \subseteq Nat
    BY <1>2, <2>3
  <2>6. flying \subseteq [nr : Nat, of : Wants, found : 0 .. Unread]
    BY <1>4, <1>5
  <2> QED BY <2>1, <2>2, <2>3, <2>4, <2>5, <2>6 DEF ListTypeOK
<1>7. LatestAsks /\ FieldFollows
  BY <1>1, <1>2, <1>4, <1>5 DEF ListInit, LatestAsks, FieldFollows, IsLatest
<1>8. AnswersStand
  BY <1>2, <1>4, <1>5 DEF AnswersStand, Answered, IsLatest
<1> QED BY <1>6, <1>7, <1>8 DEF ListIInv

\* What a request that was just made leaves behind: nothing it asks for is
\* answered yet.
LEMMA FetchStep ==
  ASSUME ListIInv, NEW others \in SUBSET flying, NEW w \in Wants, FetchBeside(others, w),
         want' \in Wants, w.reload <= want'.reload,
         UNCHANGED <<app, found>>, typed' \in Searches, timer' \in BOOLEAN,
         shown' \in Seq([of : Wants, rows : {0, 1}]), total' \in Nat, more' \in BOOLEAN,
         mode' \in {"replace", "append"}, changing' \in BOOLEAN, acts' \in Nat,
         FieldFollows'
  PROVE  ListIInv'
<1> DEFINE f0 == [nr |-> asks + 1, of |-> w, found |-> Unread]
<1>1. asked' = w /\ asks' = asks + 1 /\ failure' = FALSE /\ flying' = others \cup {f0}
  BY DEF FetchBeside
<1>2. Unread \in 0 .. Unread
  BY ListAssumption DEF Unread
<1>3. asks \in Nat /\ flying \subseteq [nr : Nat, of : Wants, found : 0 .. Unread]
  BY DEF ListIInv, ListTypeOK
<1>4. f0 \in [nr : Nat, of : Wants, found : 0 .. Unread] /\ f0.nr = asks + 1 /\ f0.of = w /\ f0.found = Unread
  BY <1>2, <1>3
<1> HIDE DEF f0
<1>5. ListTypeOK'
  BY <1>1, <1>3, <1>4 DEF ListIInv, ListTypeOK, Unread
<1>6. \A f \in others : f.nr \in Nat /\ f.nr <= asks
  BY <1>3 DEF ListIInv, LatestAsks
<1>7. \A f \in flying' : f.nr <= asks' /\ (f.nr = asks' => f = f0)
  BY <1>1, <1>3, <1>4, <1>6
<1>8. LatestAsks'
  BY <1>1, <1>4, <1>7 DEF LatestAsks, IsLatest
<1>9. AnswersStand'
  BY <1>1, <1>4, <1>7 DEF AnswersStand, Answered, IsLatest, Unread
<1> QED BY <1>5, <1>8, <1>9 DEF ListIInv

\* The page of an answer.
LEMMA PageType ==
  ASSUME ListIInv, NEW f \in flying, f.found # Unread
  PROVE  /\ f.nr \in Nat /\ f.of \in Wants /\ f.found \in Nat
         /\ PageOf(f) \in [of : Wants, rows : {0, 1}]
         /\ PageOf(f).of = f.of /\ (f.of.page <= f.found <=> PageOf(f).rows = 1)
BY ListAssumption DEF ListIInv, ListTypeOK, PageOf, Unread

\* A render that asks for nothing new leaves the answer as good as it was.
LEMMA RenderStep ==
  ASSUME ListIInv, app = "console", NEW w \in Wants, Render(w), w.reload = want.reload,
         w.page = want.page \/ w.page <= total \/ w.page = 1,
         UNCHANGED <<app, found, answerVars, mode, changing>>,
         typed' \in Searches, timer' \in BOOLEAN, acts' \in Nat, timer' \/ w.search = typed'
  PROVE  ListIInv'
<1>1. /\ app' = "console" /\ mode' = mode /\ shown' = shown /\ total' = total /\ more' = more
      /\ changing' = changing /\ found' = found
  BY DEF answerVars
<1>2. [w EXCEPT !.page = 1] \in Wants /\ [w EXCEPT !.page = 1].search = w.search
      /\ [w EXCEPT !.page = 1].reload = w.reload /\ w.reload \in Nat /\ w.page \in Nat
  BY DEF Wants
<1>3. CASE w = asked
  <2>1. want' = w /\ UNCHANGED <<asked, asks, failure, flying>>
    BY <1>3 DEF Render, askVars
  <2>2. ListTypeOK'
    BY <1>1, <2>1 DEF ListIInv, ListTypeOK
  <2>3. LatestAsks' /\ FieldFollows'
    BY <1>1, <1>2, <1>3, <2>1 DEF ListIInv, LatestAsks, FieldFollows, IsLatest
  <2>4. total \in Nat /\ want.page \in Nat
    BY DEF ListIInv, ListTypeOK, Wants
  <2>5. AnswersStand'
    BY <1>1, <1>2, <1>3, <2>1, <2>4 DEF ListIInv, AnswersStand, UpToDate, Answered, IsLatest
  <2> QED BY <2>2, <2>3, <2>5 DEF ListIInv
<1>4. CASE w # asked
  <2>1. /\ want' = w \/ want' = [w EXCEPT !.page = 1]
        /\ FetchBeside(flying, w)
    BY <1>4 DEF Render, Fetch
  <2>2. want' \in Wants /\ want'.reload = w.reload /\ want'.search = w.search
    BY <1>2, <2>1
  <2>3. FieldFollows'
    BY <1>1, <2>2 DEF FieldFollows
  <2>4. shown' \in Seq([of : Wants, rows : {0, 1}]) /\ total' \in Nat /\ more' \in BOOLEAN
        /\ mode' \in {"replace", "append"} /\ changing' \in BOOLEAN
    BY <1>1 DEF ListIInv, ListTypeOK
  <2>5. flying \in SUBSET flying /\ w.reload <= want'.reload
    BY <1>2, <2>2
  <2>6. UNCHANGED <<app, found>>
    OBVIOUS
  <2> QED BY <2>1, <2>2, <2>3, <2>4, <2>5, <2>6, FetchStep
<1> QED BY <1>3, <1>4

\* The renderings of the console: on its own, for another page, for another filter.
LEMMA ConsoleRenders ==
  ASSUME ListIInv,
         \/ Rerender
         \/ \E p \in 1 .. MaxFound : SetPage(p)
         \/ \E f \in FilterValues : SetFilter(f)
         \/ \E v \in Searches : ChangeQ(v)
  PROVE  ListIInv'
<1>1. /\ want \in Wants /\ typed \in Searches /\ timer \in BOOLEAN /\ acts \in Nat
      /\ timer \/ want.search = typed
  BY DEF ListIInv, ListTypeOK, FieldFollows
<1>2. CASE Rerender
  BY <1>1, <1>2, RenderStep DEF Rerender
<1>3. ASSUME NEW p \in 1 .. MaxFound, SetPage(p) PROVE ListIInv'
  <2> DEFINE w == [want EXCEPT !.page = p]
  <2>1. p \in Nat
    BY ListAssumption
  <2>2. w \in Wants /\ w.page = p /\ w.reload = want.reload /\ w.search = want.search
    BY <1>1, <2>1 DEF Wants
  <2>3. /\ app = "console" /\ p <= total /\ Render(w) /\ acts' = acts + 1
        /\ UNCHANGED <<app, found, typed, timer, answerVars, mode, changing>>
    BY <1>3 DEF SetPage, Act
  <2> HIDE DEF w
  <2> QED BY <1>1, <2>2, <2>3, RenderStep
<1>4. ASSUME NEW f \in FilterValues, SetFilter(f) PROVE ListIInv'
  <2> DEFINE w == [want EXCEPT !.filter = f]
  <2>1. w \in Wants /\ w.page = want.page /\ w.reload = want.reload /\ w.search = want.search
    BY <1>1 DEF Wants
  <2>2. /\ app = "console" /\ Render(w) /\ acts' = acts + 1
        /\ UNCHANGED <<app, found, typed, timer, answerVars, mode, changing>>
    BY <1>4 DEF SetFilter, Act
  <2> HIDE DEF w
  <2> QED BY <1>1, <2>1, <2>2, RenderStep
<1>5. ASSUME NEW v \in Searches, ChangeQ(v) PROVE ListIInv'
  <2> DEFINE w == [want EXCEPT !.page = 1]
  <2>1. w \in Wants /\ w.page = 1 /\ w.reload = want.reload
    BY <1>1 DEF Wants
  <2>2. /\ app = "console" /\ Render(w) /\ acts' = acts + 1 /\ typed' = v /\ timer' = TRUE
        /\ UNCHANGED <<app, found, answerVars, mode, changing>>
    BY <1>5 DEF ChangeQ, Act
  <2> HIDE DEF w
  <2> QED BY <1>1, <2>1, <2>2, RenderStep
<1> QED BY <1>2, <1>3, <1>4, <1>5

\* What the mini program asks for.
LEMMA MiniFetches ==
  ASSUME ListIInv,
         \/ \E f \in FilterValues : Load(f)
         \/ LoadMore \/ TimerFires \/ ReloadPage
  PROVE  ListIInv'
<1>1. /\ want \in Wants /\ typed \in Searches /\ timer \in BOOLEAN /\ acts \in Nat
      /\ shown \in Seq([of : Wants, rows : {0, 1}]) /\ total \in Nat /\ more \in BOOLEAN
      /\ changing \in BOOLEAN
  BY DEF ListIInv, ListTypeOK
<1>2. ASSUME NEW w \in Wants, NEW m \in {"replace", "append"}, FetchPage(w, m), w.search = typed,
             app = "miniapp", UNCHANGED <<app, found, typed, answerVars>>,
             timer' \in BOOLEAN, changing' \in BOOLEAN, acts' \in Nat
      PROVE  ListIInv'
  <2>1. want' = w /\ mode' = m /\ FetchBeside(flying, w) /\ asked' = w
    BY <1>2 DEF FetchPage, Fetch, FetchBeside
  <2>2. w.reload \in Nat
    BY <1>2 DEF Wants
  <2>3. FieldFollows'
    BY <1>2, <2>1 DEF FieldFollows
  <2>4. shown' = shown /\ total' = total /\ more' = more
    BY <1>2 DEF answerVars
  <2>5. flying \in SUBSET flying /\ w.reload <= want'.reload /\ want' \in Wants
    BY <2>1, <2>2
  <2>6. /\ shown' \in Seq([of : Wants, rows : {0, 1}]) /\ total' \in Nat /\ more' \in BOOLEAN
        /\ mode' \in {"replace", "append"} /\ typed' \in Searches
    BY <1>1, <1>2, <2>1, <2>4
  <2> QED BY <1>2, <2>1, <2>3, <2>5, <2>6, FetchStep
<1>3. app = "miniapp" => want.search = typed
  BY DEF ListIInv, FieldFollows
<1>4. ASSUME NEW f \in FilterValues, Load(f) PROVE ListIInv'
  <2> DEFINE w == [want EXCEPT !.page = 1, !.filter = f]
  <2>1. w \in Wants /\ w.search = want.search
    BY <1>1 DEF Wants
  <2>2. /\ app = "miniapp" /\ FetchPage(w, "replace") /\ acts' = acts + 1 /\ timer' = FALSE
        /\ UNCHANGED <<app, found, typed, answerVars, changing>>
    BY <1>4 DEF Load, Act
  <2> HIDE DEF w
  <2>3. "replace" \in {"replace", "append"} /\ w.search = typed /\ acts' \in Nat
    BY <1>1, <1>3, <2>1, <2>2
  <2>4. timer' \in BOOLEAN
    BY <2>2
  <2>5. changing' \in BOOLEAN
    BY <1>1, <2>2
  <2> QED BY <1>2, <2>1, <2>2, <2>3, <2>4, <2>5
<1>5. CASE LoadMore
  <2> DEFINE w == [want EXCEPT !.page = @ + 1]
  <2>1. w \in Wants /\ w.search = want.search
    BY <1>1 DEF Wants
  <2>2. /\ app = "miniapp" /\ FetchPage(w, "append") /\ acts' = acts + 1
        /\ UNCHANGED <<app, found, typed, timer, answerVars, changing>>
    BY <1>5 DEF LoadMore, Act
  <2> HIDE DEF w
  <2>3. "append" \in {"replace", "append"} /\ w.search = typed /\ acts' \in Nat
        /\ timer' \in BOOLEAN /\ changing' \in BOOLEAN
    BY <1>1, <1>3, <2>1, <2>2
  <2> QED BY <1>2, <2>1, <2>2, <2>3
<1>6. CASE TimerFires
  <2>1. /\ app = "miniapp" /\ FetchPage(want, "replace") /\ timer' = FALSE
        /\ UNCHANGED <<app, found, typed, answerVars, changing, acts>>
    BY <1>6 DEF TimerFires
  <2> QED BY <1>1, <1>2, <1>3, <2>1
<1>7. CASE ReloadPage
  <2> DEFINE w == [want EXCEPT !.reload = @ + 1]
  <2>1. w \in Wants /\ w.search = want.search
    BY <1>1 DEF Wants
  <2>2. /\ app = "miniapp" /\ FetchPage(w, "replace") /\ changing' = FALSE
        /\ UNCHANGED <<app, found, typed, timer, answerVars, acts>>
    BY <1>7 DEF ReloadPage
  <2> HIDE DEF w
  <2> QED BY <1>1, <1>2, <1>3, <2>1, <2>2
<1> QED BY <1>4, <1>5, <1>6, <1>7

\* Changes of the field and of the rows: what was asked is not what is wanted now.
LEMMA OutdatingStep ==
  ASSUME ListIInv,
         \/ Debounced \/ Reload \/ ChangeRow
         \/ \E v \in Searches : SetQ(v)
  PROVE  ListIInv'
<1>1. /\ want \in Wants /\ asked \in Wants /\ typed \in Searches /\ acts \in Nat
      /\ asked.reload <= want.reload /\ asked.reload \in Nat /\ want.reload \in Nat
  BY DEF ListIInv, ListTypeOK, LatestAsks, Wants
<1>2. CASE Debounced
  <2>1. /\ app = "console" /\ timer' = FALSE /\ want' = [want EXCEPT !.search = typed]
        /\ UNCHANGED <<app, found, typed, asked, asks, failure, flying, shown, total, more, mode, changing, acts>>
    BY <1>2 DEF Debounced, askVars, answerVars
  <2>2. want' \in Wants /\ want'.page = want.page /\ want'.reload = want.reload /\ want'.search = typed
    BY <1>1, <2>1 DEF Wants
  <2>3. ListTypeOK'
    BY <2>1, <2>2 DEF ListIInv, ListTypeOK
  <2>4. LatestAsks' /\ FieldFollows'
    BY <1>1, <2>1, <2>2 DEF ListIInv, LatestAsks, FieldFollows, IsLatest
  <2>5. AnswersStand'
    BY <2>1, <2>2 DEF ListIInv, AnswersStand, UpToDate, Answered, IsLatest
  <2> QED BY <2>3, <2>4, <2>5 DEF ListIInv
<1>3. CASE Reload
  <2>1. /\ app = "console" /\ changing' = FALSE /\ want' = [want EXCEPT !.reload = @ + 1]
        /\ UNCHANGED <<app, found, typed, timer, asked, asks, failure, flying, shown, total, more, mode, acts>>
    BY <1>3 DEF Reload, askVars, answerVars
  <2>2. want' \in Wants /\ want'.reload = want.reload + 1 /\ want'.search = want.search
    BY <1>1, <2>1 DEF Wants
  <2>3. ListTypeOK'
    BY <2>1, <2>2 DEF ListIInv, ListTypeOK
  <2>4. LatestAsks' /\ FieldFollows'
    BY <1>1, <2>1, <2>2 DEF ListIInv, LatestAsks, FieldFollows, IsLatest
  <2>5. AnswersStand'
    BY <1>1, <2>1, <2>2 DEF AnswersStand, UpToDate
  <2> QED BY <2>3, <2>4, <2>5 DEF ListIInv
<1>4. CASE ChangeRow
  <2>1. /\ changing' = TRUE /\ acts' = acts + 1
        /\ UNCHANGED <<app, typed, timer, want, asked, asks, failure, flying, shown, total, more, mode>>
    BY <1>4 DEF ChangeRow, Act, queryVars, askVars, answerVars
  <2>2. PICK k \in DOMAIN found : found[k] > 0 /\ found' = [found EXCEPT ![k] = @ - 1]
    BY <1>4 DEF ChangeRow
  <2>3. found' \in [Searches \X FilterValues -> 0 .. MaxFound]
    BY <2>2, ListAssumption DEF ListIInv, ListTypeOK
  <2>4. ListTypeOK'
    BY <1>1, <2>1, <2>3 DEF ListIInv, ListTypeOK
  <2>5. LatestAsks' /\ FieldFollows'
    BY <2>1 DEF ListIInv, LatestAsks, FieldFollows, IsLatest
  <2>6. AnswersStand'
    BY <2>1 DEF AnswersStand, UpToDate
  <2> QED BY <2>4, <2>5, <2>6 DEF ListIInv
<1>5. ASSUME NEW v \in Searches, SetQ(v) PROVE ListIInv'
  <2>1. /\ app = "miniapp" /\ typed' = v /\ timer' = TRUE /\ acts' = acts + 1
        /\ want' = [want EXCEPT !.search = v, !.page = 1]
        /\ UNCHANGED <<app, found, asked, asks, failure, flying, shown, total, more, mode, changing>>
    BY <1>5 DEF SetQ, Act, askVars, answerVars
  <2>2. want' \in Wants /\ want'.reload = want.reload /\ want'.search = v
    BY <1>1, <2>1 DEF Wants
  <2>3. ListTypeOK'
    BY <1>1, <2>1, <2>2 DEF ListIInv, ListTypeOK
  <2>4. LatestAsks' /\ FieldFollows'
    BY <1>1, <2>1, <2>2 DEF ListIInv, LatestAsks, FieldFollows, IsLatest
  <2>5. AnswersStand'
    BY <2>1, <2>2 DEF ListIInv, AnswersStand, UpToDate, Answered, IsLatest
  <2> QED BY <2>3, <2>4, <2>5 DEF ListIInv
<1> QED BY <1>2, <1>3, <1>4, <1>5

----------------------------------------------------------------------------
\* The server looks at the rows as they are.
LEMMA ServerLooksStep ==
  ASSUME ListIInv, NEW f \in flying, ServerLooks(f)
  PROVE  ListIInv'
<1> DEFINE g == [f EXCEPT !.found = found[Query(f.of)]]
<1>1. /\ f \in [nr : Nat, of : Wants, found : 0 .. Unread] /\ found \in [Searches \X FilterValues -> 0 .. MaxFound]
      /\ Unread = MaxFound + 1 /\ MaxFound \in Nat
  BY ListAssumption DEF ListIInv, ListTypeOK, Unread
<1>2. Query(f.of) \in Searches \X FilterValues
  BY <1>1 DEF Query, Wants
<1>3. found[Query(f.of)] \in 0 .. Unread
  BY <1>1, <1>2
<1>4. g \in [nr : Nat, of : Wants, found : 0 .. Unread] /\ g.nr = f.nr /\ g.of = f.of /\ g.found = found[Query(f.of)]
  BY <1>1, <1>3
<1>5. /\ flying' = (flying \ {f}) \cup {g}
      /\ UNCHANGED <<app, found, typed, timer, want, asked, asks, failure, shown, total, more, mode, changing, acts>>
  BY DEF ServerLooks, queryVars, askVars, answerVars
<1> HIDE DEF g
<1>6. ListTypeOK'
  BY <1>4, <1>5 DEF ListIInv, ListTypeOK, Unread
<1>7. LatestAsks' /\ FieldFollows'
  BY <1>4, <1>5 DEF ListIInv, LatestAsks, FieldFollows, IsLatest
<1>8. Answered' <=> Answered
  BY <1>4, <1>5 DEF Answered, IsLatest
<1>9. Query(g.of) = Query(f.of)
  BY <1>4
<1>10. AnswersStand'
  <2> SUFFICES ASSUME UpToDate' PROVE AnswersStand'
    BY DEF AnswersStand
  <2>1. UpToDate
    BY <1>5 DEF UpToDate
  <2>2. (\A h \in flying : IsLatest(h) /\ h.found # Unread => h.found = found[Query(h.of)])'
    BY <1>4, <1>5, <1>9, <2>1 DEF ListIInv, AnswersStand, IsLatest, Query, Unread
  <2> QED BY <1>5, <1>8, <2>1, <2>2 DEF ListIInv, AnswersStand, Query
<1> QED BY <1>6, <1>7, <1>10 DEF ListIInv

\* An answer that does not count, or none.
LEMMA DroppedStep ==
  ASSUME ListIInv, NEW f \in flying, Drop(f) \/ AnswerFails(f)
  PROVE  ListIInv'
<1>1. /\ flying' = flying \ {f} /\ failure' \in BOOLEAN /\ (failure => failure') /\ (IsLatest(f) => failure')
      /\ UNCHANGED <<app, found, typed, timer, want, asked, asks, shown, total, more, mode, changing, acts>>
  <2>1. failure \in BOOLEAN
    BY DEF ListIInv, ListTypeOK
  <2>2. CASE Drop(f)
    BY <2>1, <2>2 DEF Drop, queryVars, askVars, answerVars
  <2>3. CASE AnswerFails(f)
    BY <2>1, <2>3 DEF AnswerFails, queryVars, askVars, answerVars
  <2> QED BY <2>2, <2>3
<1>2. ListTypeOK'
  BY <1>1 DEF ListIInv, ListTypeOK
<1>3. LatestAsks' /\ FieldFollows'
  BY <1>1 DEF ListIInv, LatestAsks, FieldFollows, IsLatest
<1>4. Answered' /\ ~failure' => Answered /\ ~failure
  BY <1>1 DEF Answered, IsLatest
<1>5. AnswersStand'
  BY <1>1, <1>4 DEF ListIInv, AnswersStand, UpToDate, IsLatest, Query, Unread
<1> QED BY <1>2, <1>3, <1>5 DEF ListIInv

\* The page that an answer shows is the one that was asked for last.
LEMMA TakenPage ==
  ASSUME ListIInv, NEW f \in flying, Takes(f),
         NEW pages \in Seq([of : Wants, rows : {0, 1}])
  PROVE  /\ f.of = asked /\ f.found \in Nat /\ asked.page \in Nat /\ asked \in Wants
         /\ UpToDate => f.found = found[Query(asked)]
         /\ <<PageOf(f)>> \in Seq([of : Wants, rows : {0, 1}])
         /\ Append(pages, PageOf(f)) \in Seq([of : Wants, rows : {0, 1}])
         /\ <<PageOf(f)>> # <<>> /\ Last(<<PageOf(f)>>) = PageOf(f)
         /\ Append(pages, PageOf(f)) # <<>> /\ Last(Append(pages, PageOf(f))) = PageOf(f)
         /\ PageOf(f).of = asked /\ (asked.page <= f.found <=> PageOf(f).rows = 1)
         /\ PageOf(f).rows \in {0, 1}
<1> DEFINE Pages == [of : Wants, rows : {0, 1}]
<1>1. f.found # Unread /\ IsLatest(f) /\ f.of = asked
  BY DEF Takes, ListIInv, LatestAsks
<1>2. /\ f.of \in Wants /\ f.found \in Nat /\ PageOf(f) \in Pages
      /\ PageOf(f).of = f.of /\ (f.of.page <= f.found <=> PageOf(f).rows = 1)
  BY <1>1, PageType
<1>3. asked.page \in Nat
  BY <1>1, <1>2 DEF Wants
<1>4. UpToDate => f.found = found[Query(asked)]
  BY <1>1 DEF ListIInv, AnswersStand
<1>5. PageOf(f).rows \in {0, 1}
  BY <1>2
<1> HIDE DEF Pages
<1>6. <<PageOf(f)>> \in Seq(Pages) /\ <<PageOf(f)>> # <<>> /\ Last(<<PageOf(f)>>) = PageOf(f)
  BY <1>2 DEF Last
<1>7. ASSUME pages \in Seq(Pages)
      PROVE  /\ Append(pages, PageOf(f)) \in Seq(Pages) /\ Append(pages, PageOf(f)) # <<>>
             /\ Last(Append(pages, PageOf(f))) = PageOf(f)
  BY <1>2, <1>7 DEF Last
<1> QED BY <1>1, <1>2, <1>3, <1>4, <1>5, <1>6, <1>7 DEF Pages

\* The console takes an answer, and steps back from a page past the end.
LEMMA AnswerArrivesStep ==
  ASSUME ListIInv, NEW f \in flying, AnswerArrives(f)
  PROVE  ListIInv'
<1>1. /\ app = "console" /\ Takes(f) /\ flying' = flying \ {f} /\ shown' = <<PageOf(f)>> /\ total' = f.found
      /\ want' = IF PastTheEnd(f.of.page, f) THEN [want EXCEPT !.page = f.of.page - 1] ELSE want
      /\ UNCHANGED <<app, found, typed, timer, asked, asks, failure, more, mode, changing, acts>>
  BY DEF AnswerArrives, askVars
<1>2. want \in Wants /\ shown \in Seq([of : Wants, rows : {0, 1}])
  BY DEF ListIInv, ListTypeOK
<1>3. /\ f.of = asked /\ f.found \in Nat /\ asked.page \in Nat
      /\ UpToDate => f.found = found[Query(asked)]
      /\ <<PageOf(f)>> \in Seq([of : Wants, rows : {0, 1}])
      /\ <<PageOf(f)>> # <<>> /\ Last(<<PageOf(f)>>) = PageOf(f)
      /\ PageOf(f).of = asked /\ (asked.page <= f.found <=> PageOf(f).rows = 1)
      /\ PageOf(f).rows \in {0, 1}
  BY <1>1, <1>2, TakenPage
<1>4. /\ want' \in Wants /\ want'.reload = want.reload /\ want'.search = want.search
      /\ PastTheEnd(asked.page, f) => want'.page < asked.page
  <2>1. CASE PastTheEnd(asked.page, f)
    <3> DEFINE w == [want EXCEPT !.page = asked.page - 1]
    <3>1. asked.page > 1 /\ asked.page - 1 \in Nat /\ asked.page - 1 < asked.page
      BY <1>3, <2>1 DEF PastTheEnd
    <3>2. want' = w
      BY <1>1, <1>3, <2>1
    <3>3. w \in Wants /\ w.page = asked.page - 1 /\ w.reload = want.reload /\ w.search = want.search
      BY <1>2, <3>1 DEF Wants
    <3> HIDE DEF w
    <3> QED BY <3>1, <3>2, <3>3
  <2>2. CASE ~PastTheEnd(asked.page, f)
    BY <1>1, <1>2, <1>3, <2>2
  <2> QED BY <2>1, <2>2
<1>5. ListTypeOK'
  BY <1>1, <1>3, <1>4 DEF ListIInv, ListTypeOK
<1>6. LatestAsks' /\ FieldFollows'
  BY <1>1, <1>4 DEF ListIInv, LatestAsks, FieldFollows, IsLatest
<1>7. PastTheEnd(asked.page, f) <=> asked.page > 1 /\ f.found > 0 /\ asked.page > f.found
  BY <1>3 DEF PastTheEnd
<1>8. AnswersStand'
  <2> SUFFICES ASSUME UpToDate' PROVE AnswersStand'
    BY DEF AnswersStand
  <2>1. UpToDate
    BY <1>1, <1>4 DEF UpToDate
  <2>2. (\A h \in flying : IsLatest(h) /\ h.found # Unread => h.found = found[Query(h.of)])'
    BY <1>1, <2>1 DEF ListIInv, AnswersStand, IsLatest, Query, Unread
  <2>3. shown' # <<>> /\ Last(shown') = PageOf(f) /\ total' = found'[Query(asked')]
    BY <1>1, <1>3, <2>1
  <2> QED BY <1>1, <1>3, <1>4, <1>7, <2>2, <2>3 DEF AnswersStand, Query
<1> QED BY <1>5, <1>6, <1>8 DEF ListIInv

\* The mini program takes an answer, and asks again when its page is past the end.
LEMMA AnswerPageStep ==
  ASSUME ListIInv, NEW f \in flying, AnswerPage(f)
  PROVE  ListIInv'
<1>1. /\ app = "miniapp" /\ Takes(f) /\ total' = f.found
      /\ shown' = Append(shown, PageOf(f)) \/ shown' = <<PageOf(f)>>
      /\ UNCHANGED <<app, found, typed, timer, changing, acts>>
  BY DEF AnswerPage
<1>2. /\ want \in Wants /\ shown \in Seq([of : Wants, rows : {0, 1}])
      /\ typed \in Searches /\ {timer, changing, more} \subseteq BOOLEAN /\ acts \in Nat
  BY DEF ListIInv, ListTypeOK
<1>3. /\ f.of = asked /\ f.found \in Nat /\ asked.page \in Nat
      /\ UpToDate => f.found = found[Query(asked)]
      /\ shown' \in Seq([of : Wants, rows : {0, 1}])
      /\ shown' # <<>> /\ Last(shown') = PageOf(f)
      /\ PageOf(f).of = asked /\ (asked.page <= f.found <=> PageOf(f).rows = 1)
      /\ PageOf(f).rows \in {0, 1}
  BY <1>1, <1>2, TakenPage
<1>4. CASE PastTheEnd(want.page, f)
  <2> DEFINE w == [want EXCEPT !.page = @ - 1]
  <2>1. w \in Wants /\ w.search = want.search /\ w.reload = want.reload /\ w.reload \in Nat
    <3>1. want.page \in Nat /\ want.page > 1
      BY <1>2, <1>4 DEF PastTheEnd, Wants
    <3>2. want.page - 1 \in Nat
      BY <3>1
    <3> QED BY <1>2, <3>2 DEF Wants
  <2>2. want' = w /\ mode' = "replace" /\ FetchBeside(flying \ {f}, w) /\ more' = more /\ asked' = w
    BY <1>4 DEF AnswerPage, FetchBeside
  <2> HIDE DEF w
  <2>3. FieldFollows'
    BY <1>1, <2>1, <2>2 DEF ListIInv, FieldFollows
  <2>4. flying \ {f} \in SUBSET flying /\ w.reload <= want'.reload /\ want' \in Wants
        /\ typed' \in Searches /\ timer' \in BOOLEAN /\ total' \in Nat /\ more' \in BOOLEAN
        /\ mode' \in {"replace", "append"} /\ changing' \in BOOLEAN /\ acts' \in Nat
    BY <1>1, <1>2, <1>3, <2>1, <2>2
  <2> QED BY <1>1, <1>3, <2>1, <2>2, <2>3, <2>4, FetchStep
<1>5. CASE ~PastTheEnd(want.page, f)
  <2>1. /\ flying' = flying \ {f} /\ more' \in BOOLEAN
        /\ UNCHANGED <<want, mode, asked, asks, failure>>
    BY <1>5 DEF AnswerPage, askVars
  <2>2. ListTypeOK'
    BY <1>1, <1>3, <2>1 DEF ListIInv, ListTypeOK
  <2>3. LatestAsks' /\ FieldFollows'
    BY <1>1, <2>1 DEF ListIInv, LatestAsks, FieldFollows, IsLatest
  <2>4. timer \/ want = asked
    BY <1>1 DEF ListIInv, FieldFollows
  <2>5. asked.page > 1 /\ f.found > 0 /\ asked.page > f.found => timer
    BY <1>3, <1>5, <2>4 DEF PastTheEnd
  <2>6. AnswersStand'
    <3> SUFFICES ASSUME UpToDate' PROVE AnswersStand'
      BY DEF AnswersStand
    <3>1. UpToDate
      BY <1>1, <2>1 DEF UpToDate
    <3>2. (\A h \in flying : IsLatest(h) /\ h.found # Unread => h.found = found[Query(h.of)])'
      BY <1>1, <2>1, <3>1 DEF ListIInv, AnswersStand, IsLatest, Query, Unread
    <3>3. total' = found'[Query(asked')]
      BY <1>1, <1>3, <2>1, <3>1
    <3> QED BY <1>1, <1>3, <2>1, <2>5, <3>2, <3>3 DEF AnswersStand, Query
  <2> QED BY <2>2, <2>3, <2>6 DEF ListIInv
<1> QED BY <1>4, <1>5

\* Every step of the lists keeps the invariant.
LEMMA ListStepInductive == ListIInv /\ [ListNext]_listVars => ListIInv'
<1> SUFFICES ASSUME ListIInv, [ListNext]_listVars PROVE ListIInv'
  OBVIOUS
<1>1. CASE UNCHANGED listVars
  BY <1>1 DEF listVars, ListIInv, ListTypeOK, LatestAsks, FieldFollows, AnswersStand, UpToDate, Answered,
              IsLatest, Query, Unread
<1> QED BY <1>1, ServerLooksStep, DroppedStep, AnswerArrivesStep, AnswerPageStep, OutdatingStep,
           ConsoleRenders, MiniFetches DEF ListNext

\* A list at rest shows what its page, search and filter ask for, in whatever
\* order its requests were answered (usePagedList.ts, paged.ts): ShownIsAsked.
THEOREM ListsShowWhatIsAsked == ListSpec => []ShownIsAsked
<1>1. ListIInv => ShownIsAsked
  <2> SUFFICES ASSUME ListIInv, Rest, ~failure
               PROVE  /\ shown # <<>> /\ Last(shown).of = want
                      /\ want.search = typed
                      /\ total = found[Query(want)]
                      /\ want.page > 1 /\ total > 0 => Last(shown).rows > 0
    BY DEF ShownIsAsked
  <2>1. want = asked /\ want.search = typed /\ ~timer
    BY DEF Rest, ListIInv, ListTypeOK, FieldFollows
  <2>2. UpToDate /\ Answered
    BY <2>1 DEF Rest, UpToDate
  <2>3. want.page \in Nat /\ total \in Nat
    BY DEF ListIInv, ListTypeOK, Wants
  <2>4. /\ shown # <<>> /\ Last(shown).of = asked /\ total = found[Query(asked)]
        /\ asked.page <= total => Last(shown).rows = 1
        /\ asked.page > 1 /\ total > 0 /\ asked.page > total
             => IF app = "console" THEN want.page < asked.page ELSE timer
    BY <2>2 DEF ListIInv, AnswersStand
  <2> QED BY <2>1, <2>3, <2>4
<1>2. ListSpec => []ListIInv
  BY ListInitInductive, ListStepInductive, PTL DEF ListSpec
<1> QED BY <1>1, <1>2, PTL

----------------------------------------------------------------------------
(* The event queue.                                                        *)

\* An empty buffer satisfies the invariant.
LEMMA QInitInductive == QInit => QIInv
<1> SUFFICES ASSUME QInit PROVE QIInv
  OBVIOUS
<1>1. QTypeOK
  <2>1. <<>> \in Seq(Events) /\ Len(<<>>) = 0
    OBVIOUS
  <2>2. /\ max \in 1 .. QueueMax /\ QueueMax \in Nat /\ MaxCrashes \in Nat
        /\ entries = <<>> /\ file = <<>> /\ drains = 0 /\ crashes = 0
        /\ unacked = {} /\ shed = {} /\ resent = {} /\ late = {} /\ broker = {}
        /\ drainer = "off" /\ link \in {"up", "down"}
    BY QueueAssumption DEF QInit
  <2>3. sending \in [Events -> CallSteps] /\ rows \in [Events -> {"none", "missed", "one"}]
    BY DEF QInit, CallSteps
  <2> QED BY <2>1, <2>2, <2>3 DEF QTypeOK, MaxWaiting
<1> QED
  BY <1>1 DEF QInit, QIInv, BufferedOnce, SentIsDelivered, TriedInOrder, FileFollows, DoneIsKept,
              NothingLeftBehind, ToSet

\* What a step that leaves the FIFO and its file alone has to keep.
LEMMA FrameStep ==
  ASSUME QIInv, QTypeOK', UNCHANGED <<entries, file, shed, resent>>,
         \A e \in Events : sending[e] \in {"done", "lost"} => sending'[e] = sending[e],
         \A e \in Events : <<e, "drain">> \in unacked' <=> <<e, "drain">> \in unacked,
         \A e \in Events : Delivered(e) => Delivered(e)',
         \A e \in Events : rows[e] # "none" => rows'[e] # "none",
         \A e \in Events : sending'[e] = "sent" /\ <<e, "call">> \notin unacked' => Delivered(e)',
         \A e \in Events : sending'[e] = "done" => sending[e] = "done" \/ Delivered(e)',
         drainer' = "wait" => drainer = "wait",
         NothingLeftBehind'
  PROVE  QIInv'
<1>1. entries \in Seq(Events) /\ file \in Seq(Events) /\ resent \subseteq Events
      /\ (drainer = "wait" => entries # <<>>)
  BY DEF QIInv, QTypeOK
<1>2. BufferedOnce'
  BY DEF QIInv, BufferedOnce
<1>3. SentIsDelivered'
  <2>1. (drainer = "wait" /\ <<Head(entries), "drain">> \notin unacked => Head(entries) \in resent)'
    <3> SUFFICES ASSUME drainer' = "wait", <<Head(entries), "drain">> \notin unacked'
                 PROVE  Head(entries) \in resent
      OBVIOUS
    <3>1. Head(entries) \in Events
      BY <1>1
    <3> QED BY <3>1 DEF QIInv, SentIsDelivered
  <2>2. (\A e \in resent : Delivered(e))'
    BY <1>1 DEF QIInv, SentIsDelivered
  <2> QED BY <2>1, <2>2 DEF SentIsDelivered, Events
<1>4. TriedInOrder(entries)' /\ TriedInOrder(file)'
  BY <1>1 DEF QIInv, TriedInOrder
<1>5. FileFollows'
  BY DEF QIInv, FileFollows
<1>6. DoneIsKept'
  BY DEF QIInv, DoneIsKept, Settled, Delivered, Events
<1> QED BY <1>2, <1>3, <1>4, <1>5, <1>6 DEF QIInv

\* Connections that come and go, and drains that start, touch no row.
LEMMA ConnectionStep ==
  ASSUME QIInv, OnConnect \/ ConnectionLost \/ StartDrain
  PROVE  QIInv'
<1>1. UNCHANGED <<sending, unacked, entries, file, shed, broker, rows, resent, max, crashes>>
  BY DEF OnConnect, ConnectionLost, StartDrain, qCall, qBuffer, qDrain, qRegistry, qHistory, qRest, qLink
<1>2. /\ link' \in {"up", "down"} /\ drains' \in 0 .. MaxWaiting /\ drainer' \in {"off", "head", "wait"}
      /\ late' \subseteq Events /\ (drainer' # "off" => entries # <<>>) /\ (drainer' = "wait" => drainer = "wait")
  BY DEF OnConnect, ConnectionLost, StartDrain, qCall, qBuffer, qDrain, qRegistry, qHistory, qRest, qLink,
         QIInv, QTypeOK, MaxWaiting
<1>3. QTypeOK'
  BY <1>1, <1>2 DEF QIInv, QTypeOK
<1>4. NothingLeftBehind'
  <2>1. CASE OnConnect
    <3>1. drains' # 0
      BY <2>1 DEF OnConnect, QIInv, QTypeOK, MaxWaiting
    <3> QED BY <3>1 DEF NothingLeftBehind, Rested
  <2>2. CASE ConnectionLost
    BY <2>2 DEF ConnectionLost, NothingLeftBehind, Rested
  <2>3. CASE StartDrain
    <3>1. drainer' = "off" => entries' = <<>>
      BY <1>1, <2>3 DEF StartDrain
    <3> QED BY <3>1 DEF NothingLeftBehind, Rested, ToSet
  <2> QED BY <2>1, <2>2, <2>3
<1>5. \A e \in Events : Delivered(e) => Delivered(e)'
  BY <1>1 DEF Delivered
<1>6. \A e \in Events : sending'[e] = "sent" /\ <<e, "call">> \notin unacked' => Delivered(e)'
  BY <1>1, <1>5 DEF QIInv, SentIsDelivered
<1> QED BY <1>1, <1>2, <1>3, <1>4, <1>5, <1>6, FrameStep

\* A caller's event is in flight, answered, or buffered.
LEMMA CallStep ==
  ASSUME QIInv, NEW e \in Events, PublishEvent(e) \/ Published(e) \/ PublishFails(e)
  PROVE  QIInv'
<1>1. UNCHANGED <<link, entries, file, shed, drains, drainer, broker, rows, resent, late, max, crashes>>
  BY DEF PublishEvent, Published, PublishFails, qLink, qBuffer, qDrain, qRegistry, qHistory, qRest
<1>2. /\ unacked' = unacked \/ unacked' = unacked \cup {<<e, "call">>}
      /\ \/ sending[e] = "idle" /\ sending' = [sending EXCEPT ![e] = "sent"] /\ <<e, "call">> \in unacked'
         \/ sending[e] = "sent" /\ sending' = [sending EXCEPT ![e] = "done"] /\ <<e, "call">> \notin unacked
         \/ sending[e] = "sent" /\ sending' = [sending EXCEPT ![e] = "buffer"]
  BY DEF PublishEvent, Publishes, Published, PublishFails, qLink
<1>3. QTypeOK'
  <2>1. <<e, "call">> \in Frames
    BY DEF Frames
  <2>2. sending' \in [Events -> CallSteps]
    BY <1>2 DEF QIInv, QTypeOK, CallSteps
  <2> QED BY <1>1, <1>2, <2>1, <2>2 DEF QIInv, QTypeOK
<1>4. \A d \in Events : d # e => sending'[d] = sending[d]
  BY <1>2 DEF QIInv, QTypeOK
<1>5. sending'[e] \in {"sent", "done", "buffer"} /\ sending[e] \notin {"done", "lost"}
      /\ (sending'[e] = "sent" => <<e, "call">> \in unacked')
      /\ (sending'[e] = "done" => sending[e] = "sent" /\ <<e, "call">> \notin unacked)
  BY <1>2 DEF QIInv, QTypeOK
<1>6. \A d \in Events : Delivered(d) => Delivered(d)'
  BY <1>1 DEF Delivered
<1>7. \A d \in Events : sending'[d] = "sent" /\ <<d, "call">> \notin unacked' => Delivered(d)'
  BY <1>2, <1>4, <1>5, <1>6 DEF QIInv, SentIsDelivered
<1>8. \A d \in Events : sending'[d] = "done" => sending[d] = "done" \/ Delivered(d)'
  BY <1>4, <1>5, <1>6 DEF QIInv, SentIsDelivered
<1>9. NothingLeftBehind'
  BY <1>1 DEF QIInv, NothingLeftBehind, Rested
<1>10. \A d \in Events : <<d, "drain">> \in unacked' <=> <<d, "drain">> \in unacked
  BY <1>2
<1>11. \A d \in Events : sending[d] \in {"done", "lost"} => sending'[d] = sending[d]
  BY <1>4, <1>5
<1> QED BY <1>1, <1>3, <1>6, <1>7, <1>8, <1>9, <1>10, <1>11, FrameStep

\* The backend handles a frame; a second copy of an event changes nothing.
LEMMA HandleStep ==
  ASSUME QIInv, NEW e \in Events, HandleEvent(e)
  PROVE  QIInv'
<1>1. UNCHANGED <<sending, link, unacked, entries, file, shed, drains, drainer, resent, late, max, crashes>>
  BY DEF HandleEvent, qCall, qLink, qBuffer, qDrain, qHistory, qRest
<1>2. /\ broker' \in {broker, broker \ {e}}
      /\ rows' \in [Events -> {"none", "missed", "one"}] /\ rows'[e] # "none"
      /\ \A d \in Events : d # e => rows'[d] = rows[d]
  BY DEF HandleEvent, InsertEvent, InsertFails, QIInv, QTypeOK
<1>3. QTypeOK'
  BY <1>1, <1>2 DEF QIInv, QTypeOK
<1>4. \A d \in Events : Delivered(d) => Delivered(d)'
  BY <1>2 DEF Delivered
<1>5. \A d \in Events : sending'[d] = "sent" /\ <<d, "call">> \notin unacked' => Delivered(d)'
  BY <1>1, <1>4 DEF QIInv, SentIsDelivered
<1>6. NothingLeftBehind'
  BY <1>1 DEF QIInv, NothingLeftBehind, Rested
<1> QED BY <1>1, <1>2, <1>3, <1>4, <1>5, <1>6, FrameStep

\* An unacknowledged frame reaches the broker, once or again.
LEMMA SendFrameStep ==
  ASSUME QIInv, NEW f \in Frames, SendFrame(f)
  PROVE  QIInv'
<1>1. /\ f[1] \in Events /\ f[2] \in {"call", "drain"} /\ f = <<f[1], f[2]>> /\ f \in unacked
  BY DEF SendFrame, Frames
<1>2. /\ UNCHANGED <<sending, link, entries, file, shed, drains, drainer, rows, late, max, crashes>>
      /\ unacked' \in {unacked, unacked \ {f}} /\ broker' = broker \cup {f[1]}
      /\ resent' = (IF f[2] = "drain" THEN resent \cup {f[1]} ELSE resent)
  BY DEF SendFrame, qCall, qBuffer, qDrain, qRest
<1>3. QTypeOK'
  BY <1>1, <1>2 DEF QIInv, QTypeOK
<1>4. /\ resent \subseteq resent' /\ \A e \in Events : Delivered(e) => Delivered(e)'
      /\ Delivered(f[1])'
  BY <1>2 DEF Delivered
<1>5. \A e \in Events :
         e \in resent' \/ <<e, "drain">> \in unacked' => e \in resent \/ <<e, "drain">> \in unacked
  BY <1>1, <1>2
<1>6. BufferedOnce'
  BY <1>2, <1>5 DEF QIInv, BufferedOnce, ToSet
<1>7. SentIsDelivered'
  <2>1. (\A e \in Events : sending[e] = "sent" /\ <<e, "call">> \notin unacked => Delivered(e))'
    <3> SUFFICES ASSUME NEW e \in Events, sending'[e] = "sent", <<e, "call">> \notin unacked'
                 PROVE  Delivered(e)'
      BY DEF Events
    <3>1. CASE <<e, "call">> \in unacked
      <4>1. f = <<e, "call">>
        BY <1>2, <3>1
      <4> QED BY <1>4, <4>1
    <3>2. CASE <<e, "call">> \notin unacked
      BY <1>2, <1>4, <3>2 DEF QIInv, SentIsDelivered
    <3> QED BY <3>1, <3>2
  <2>2. (drainer = "wait" /\ <<Head(entries), "drain">> \notin unacked => Head(entries) \in resent)'
    <3> SUFFICES ASSUME drainer' = "wait", <<Head(entries'), "drain">> \notin unacked'
                 PROVE  Head(entries') \in resent'
      OBVIOUS
    <3>1. CASE <<Head(entries), "drain">> \in unacked
      <4>1. f = <<Head(entries), "drain">>
        BY <1>2, <3>1
      <4>2. f[1] = Head(entries) /\ f[2] = "drain"
        BY <4>1
      <4> QED BY <1>2, <4>2
    <3>2. CASE <<Head(entries), "drain">> \notin unacked
      BY <1>2, <1>4, <3>2 DEF QIInv, SentIsDelivered
    <3> QED BY <3>1, <3>2
  <2>3. \A e \in resent' : Delivered(e)'
    BY <1>2, <1>4 DEF QIInv, SentIsDelivered, QTypeOK
  <2>4. (\A e \in resent : Delivered(e))'
    BY <2>3
  <2> QED BY <2>1, <2>2, <2>4 DEF SentIsDelivered
<1>8. entries \in Seq(Events) /\ file \in Seq(Events)
  BY DEF QIInv, QTypeOK
<1>9. TriedInOrder(entries)' /\ TriedInOrder(file)'
  BY <1>2, <1>4, <1>5, <1>8 DEF QIInv, TriedInOrder
<1>10. FileFollows'
  BY <1>2, <1>4 DEF QIInv, FileFollows, ToSet
<1>11. DoneIsKept' /\ NothingLeftBehind'
  BY <1>2 DEF QIInv, DoneIsKept, NothingLeftBehind, Rested, Settled, ToSet
<1> QED BY <1>3, <1>6, <1>7, <1>9, <1>10, <1>11 DEF QIInv

\* The head of the FIFO is handed to the client: whatever stands before it in an
\* older file was sent already, or shed.
LEMMA DrainHeadStep ==
  ASSUME QIInv, DrainHead
  PROVE  QIInv'
<1> DEFINE h == Head(entries)
<1>1. /\ drainer = "head" /\ drainer' = "wait" /\ unacked' = unacked \cup {<<h, "drain">>}
      /\ UNCHANGED <<sending, link, entries, file, shed, drains, broker, rows, resent, late, max, crashes>>
  BY DEF DrainHead, qCall, qBuffer, qRegistry, qHistory, qRest
<1>2. /\ entries \in Seq(Events) /\ file \in Seq(Events) /\ entries # <<>>
      /\ h \in Events /\ h = entries[1] /\ 1 \in DOMAIN entries
  BY <1>1 DEF QIInv, QTypeOK
<1> HIDE DEF h
<1>3. /\ DOMAIN entries = 1 .. Len(entries) /\ Len(entries) \in Nat
      /\ DOMAIN file = 1 .. Len(file) /\ Len(file) \in Nat
  BY <1>2
<1>4. \A e \in Events : <<e, "drain">> \in unacked' => <<e, "drain">> \in unacked \/ e = h
  BY <1>1
<1>5. \A e \in Events : <<e, "call">> \in unacked' <=> <<e, "call">> \in unacked
  BY <1>1
<1>6. QTypeOK'
  <2>1. <<h, "drain">> \in Frames
    BY <1>2 DEF Frames
  <2> QED BY <1>1, <1>2, <2>1 DEF QIInv, QTypeOK
<1>7. BufferedOnce'
  <2>1. h \in ToSet(entries)
    BY <1>2 DEF ToSet
  <2> QED BY <1>1, <1>4, <2>1 DEF QIInv, BufferedOnce, ToSet
<1>8. SentIsDelivered'
  <2>1. <<Head(entries'), "drain">> \in unacked'
    BY <1>1 DEF h
  <2> QED BY <1>1, <1>5, <2>1 DEF QIInv, SentIsDelivered, Delivered, Events
<1>9. TriedInOrder(entries)'
  <2> SUFFICES ASSUME NEW i \in DOMAIN entries, NEW j \in DOMAIN entries, i < j,
                      entries[j] \in resent \/ <<entries[j], "drain">> \in unacked'
               PROVE  entries[i] \in resent \cup shed
    BY <1>1 DEF TriedInOrder
  <2>1. j # 1
    BY <1>3
  <2>2. entries[j] # h
    BY <1>2, <2>1 DEF QIInv, BufferedOnce
  <2>3. entries[j] \in Events
    BY <1>2
  <2> QED BY <1>4, <2>2, <2>3 DEF QIInv, TriedInOrder
<1>10. TriedInOrder(file)'
  <2> SUFFICES ASSUME NEW i \in DOMAIN file, NEW j \in DOMAIN file, i < j,
                      file[j] \in resent \/ <<file[j], "drain">> \in unacked'
               PROVE  file[i] \in resent \cup shed
    BY <1>1 DEF TriedInOrder
  <2>1. CASE file[j] = h
    <3>1. file[j] \in ToSet(entries)
      BY <1>2, <2>1 DEF ToSet
    <3>2. \A k, l \in DOMAIN entries : k < l => entries[l] # h
      BY <1>2, <1>3 DEF QIInv, BufferedOnce
    <3> QED BY <2>1, <3>1, <3>2 DEF QIInv, FileFollows
  <2>2. CASE file[j] # h
    <3>1. file[j] \in Events
      BY <1>2
    <3> QED BY <1>4, <2>2, <3>1 DEF QIInv, TriedInOrder
  <2> QED BY <2>1, <2>2
<1>11. FileFollows' /\ DoneIsKept' /\ NothingLeftBehind'
  BY <1>1 DEF QIInv, FileFollows, DoneIsKept, NothingLeftBehind, Rested, Settled, ToSet
<1> QED BY <1>6, <1>7, <1>8, <1>9, <1>10, <1>11 DEF QIInv

\* A file that has just been written is the FIFO itself.
LEMMA WrittenFollows ==
  ASSUME file' = entries'
  PROVE  FileFollows'
BY DEF FileFollows

\* The head has been sent, and leaves the FIFO.
LEMMA DrainNextStep ==
  ASSUME QIInv, DrainNext
  PROVE  QIInv'
<1> DEFINE h == Head(entries)
           rest == Tail(entries)
<1>1. /\ drainer = "wait" /\ <<h, "drain">> \notin unacked /\ entries' = rest
      /\ IF rest = <<>> THEN drainer' = "off" /\ (file' = <<>> \/ file' = file)
         ELSE drainer' = "head" /\ file' = file
      /\ UNCHANGED <<sending, link, unacked, shed, drains, broker, rows, resent, late, max, crashes>>
  BY DEF DrainNext, Persist, PersistFails, qCall, qLink, qRegistry, qHistory, qRest
<1>2. /\ entries \in Seq(Events) /\ file \in Seq(Events) /\ entries # <<>>
      /\ h \in Events /\ h = entries[1] /\ h \in resent
  BY <1>1 DEF QIInv, QTypeOK, SentIsDelivered
<1>3. /\ DOMAIN entries = 1 .. Len(entries) /\ Len(entries) \in Nat \ {0}
      /\ rest \in Seq(Events) /\ Len(rest) = Len(entries) - 1 /\ DOMAIN rest = 1 .. Len(entries) - 1
      /\ \A i \in DOMAIN rest : i + 1 \in DOMAIN entries /\ rest[i] = entries[i + 1]
      /\ \A i \in DOMAIN entries : i # 1 => i - 1 \in DOMAIN rest /\ rest[i - 1] = entries[i]
  BY <1>2
<1> HIDE DEF h, rest
<1>4. ToSet(entries) = ToSet(rest) \cup {h}
  <2>1. \A e \in ToSet(entries) : e \in ToSet(rest) \cup {h}
    BY <1>2, <1>3 DEF ToSet
  <2>2. \A e \in ToSet(rest) \cup {h} : e \in ToSet(entries)
    BY <1>2, <1>3 DEF ToSet
  <2> QED BY <2>1, <2>2
<1>5. file' = file \/ (file' = <<>> /\ rest = <<>>)
  BY <1>1
<1>6. QTypeOK'
  <2>1. file' \in Seq(Events) /\ Len(file') <= max
    <3>1. <<>> \in Seq(Events) /\ Len(<<>>) = 0 /\ max \in Nat
      BY QueueAssumption DEF QIInv, QTypeOK
    <3>2. CASE file' = file
      BY <1>1, <3>2 DEF QIInv, QTypeOK
    <3>3. CASE file' = <<>>
      <4>1. max \in Nat
        BY QueueAssumption DEF QIInv, QTypeOK
      <4> QED BY <1>1, <3>1, <3>3, <4>1
    <3> QED BY <1>5, <3>2, <3>3
  <2>2. entries' \in Seq(Events) /\ Len(entries') <= max
    BY <1>1, <1>3, QueueAssumption DEF QIInv, QTypeOK
  <2>3. drainer' \in {"off", "head", "wait"} /\ (drainer' # "off" => entries' # <<>>)
    BY <1>1
  <2> QED BY <1>1, <2>1, <2>2, <2>3 DEF QIInv, QTypeOK
<1>7. ToSet(file') \subseteq ToSet(file)
  BY <1>5 DEF ToSet
<1>8. BufferedOnce'
  <2>1. \A i, j \in DOMAIN rest : rest[i] = rest[j] => i = j
    <3> SUFFICES ASSUME NEW i \in DOMAIN rest, NEW j \in DOMAIN rest, rest[i] = rest[j] PROVE i = j
      OBVIOUS
    <3>1. i + 1 = j + 1
      BY <1>3 DEF QIInv, BufferedOnce
    <3> QED BY <1>3, <3>1
  <2>2. \A i, j \in DOMAIN file' : file'[i] = file'[j] => i = j
    BY <1>5 DEF QIInv, BufferedOnce
  <2>3. \A e \in Events : e \in ToSet(rest) \cup ToSet(file') \cup resent \/ <<e, "drain">> \in unacked
                          => sending[e] \in {"done", "lost"}
    BY <1>4, <1>7 DEF QIInv, BufferedOnce
  <2> QED BY <1>1, <2>1, <2>2, <2>3 DEF BufferedOnce, ToSet, Events
<1>9. SentIsDelivered'
  BY <1>1 DEF QIInv, SentIsDelivered, Delivered, Events
<1>10. TriedInOrder(entries)'
  <2> SUFFICES ASSUME NEW i \in DOMAIN rest, NEW j \in DOMAIN rest, i < j,
                      rest[j] \in resent \/ <<rest[j], "drain">> \in unacked
               PROVE  rest[i] \in resent \cup shed
    BY <1>1 DEF TriedInOrder
  <2>1. i + 1 < j + 1
    BY <1>3
  <2> QED BY <1>3, <2>1 DEF QIInv, TriedInOrder
<1>11. TriedInOrder(file)'
  BY <1>1, <1>5 DEF QIInv, TriedInOrder
<1>12. FileFollows'
  <2>1. CASE file' = <<>> /\ rest = <<>>
    BY <1>1, <2>1, WrittenFollows
  <2>2. CASE file' = file
    <3>1. ToSet(file) \subseteq ToSet(rest) \cup resent \cup shed
      BY <1>2, <1>4 DEF QIInv, FileFollows
    <3>2. ASSUME NEW i \in DOMAIN file, NEW j \in DOMAIN file, i < j, file[j] \in ToSet(rest)
          PROVE  \/ file[i] \in resent \cup shed
                 \/ \E k, l \in DOMAIN rest : k < l /\ rest[k] = file[i] /\ rest[l] = file[j]
      <4>1. CASE file[i] \in resent \cup shed
        BY <4>1
      <4>2. CASE \E k, l \in DOMAIN entries : k < l /\ entries[k] = file[i] /\ entries[l] = file[j]
        <5>1. PICK k \in DOMAIN entries, l \in DOMAIN entries :
                 k < l /\ entries[k] = file[i] /\ entries[l] = file[j]
          BY <4>2
        <5>2. CASE k = 1
          BY <1>2, <5>1, <5>2
        <5>3. CASE k # 1
          <6>1. k - 1 \in DOMAIN rest /\ l - 1 \in DOMAIN rest /\ k - 1 < l - 1
            BY <1>3, <5>1, <5>3
          <6>2. rest[k - 1] = file[i] /\ rest[l - 1] = file[j]
            BY <1>3, <5>1, <5>3
          <6> QED BY <6>1, <6>2
        <5> QED BY <5>2, <5>3
      <4> QED BY <1>4, <3>2, <4>1, <4>2 DEF QIInv, FileFollows
    <3> QED BY <1>1, <2>2, <3>1, <3>2 DEF FileFollows
  <2> QED BY <1>5, <2>1, <2>2
<1>13. DoneIsKept'
  <2> SUFFICES ASSUME NEW e \in Events, sending[e] = "done"
               PROVE  Settled(e) \/ e \in broker \/ e \in ToSet(file')
    BY <1>1 DEF DoneIsKept, Settled, Events, ToSet
  <2>1. CASE file' = file
    BY <2>1 DEF QIInv, DoneIsKept
  <2>2. CASE file' = <<>> /\ rest = <<>>
    <3>1. ToSet(rest) = {}
      <4>1. DOMAIN rest = {}
        BY <2>2
      <4> QED BY <4>1 DEF ToSet
    <3>2. e \in ToSet(file) => e \in resent \cup shed
      BY <1>2, <1>4, <3>1 DEF QIInv, FileFollows
    <3> QED BY <3>2 DEF QIInv, DoneIsKept, SentIsDelivered, Delivered, Settled
  <2> QED BY <1>5, <2>1, <2>2
<1>14. NothingLeftBehind'
  <2>1. drainer' = "off" => entries' = <<>>
    BY <1>1
  <2> QED BY <2>1 DEF NothingLeftBehind, Rested, ToSet
<1> QED BY <1>6, <1>8, <1>9, <1>10, <1>11, <1>12, <1>13, <1>14 DEF QIInv

\* A drain that times out leaves the FIFO as it is and writes it down.
LEMMA DrainStopsStep ==
  ASSUME QIInv, DrainStops
  PROVE  QIInv'
<1>1. /\ drainer' = "off" /\ (file' = entries \/ file' = file)
      /\ late' = (IF link = "up" THEN late \cup ToSet(entries) ELSE late)
      /\ UNCHANGED <<sending, link, unacked, entries, shed, drains, broker, rows, resent, max, crashes>>
  BY DEF DrainStops, KeepBack, Persist, PersistFails, qCall, qLink, qRegistry, qRest
<1>2. entries \in Seq(Events) /\ file \in Seq(Events)
  BY DEF QIInv, QTypeOK
<1>3. ToSet(entries) \subseteq Events
  BY <1>2 DEF ToSet
<1>4. QTypeOK'
  <2>1. file' \in Seq(Events) /\ Len(file') <= max
    BY <1>1 DEF QIInv, QTypeOK
  <2> QED BY <1>1, <1>3, <2>1 DEF QIInv, QTypeOK
<1>5. BufferedOnce'
  <2>1. \A i, j \in DOMAIN file' : file'[i] = file'[j] => i = j
    BY <1>1 DEF QIInv, BufferedOnce
  <2>2. ToSet(file') \subseteq ToSet(file) \cup ToSet(entries)
    BY <1>1
  <2> QED BY <1>1, <2>1, <2>2 DEF QIInv, BufferedOnce, Events
<1>6. SentIsDelivered'
  BY <1>1 DEF QIInv, SentIsDelivered, Delivered, Events
<1>7. TriedInOrder(entries)' /\ TriedInOrder(file)'
  BY <1>1 DEF QIInv, TriedInOrder
<1>8. FileFollows'
  <2>1. CASE file' = file
    BY <1>1, <2>1 DEF QIInv, FileFollows, ToSet
  <2>2. CASE file' = entries
    BY <1>1, <2>2, WrittenFollows
  <2> QED BY <1>1, <2>1, <2>2
<1>9. DoneIsKept'
  <2> SUFFICES ASSUME NEW e \in Events, sending[e] = "done"
               PROVE  Settled(e) \/ e \in broker \/ e \in ToSet(file')
    BY <1>1 DEF DoneIsKept, Settled, Events, ToSet
  <2>1. CASE file' = file
    BY <2>1 DEF QIInv, DoneIsKept
  <2>2. CASE file' = entries
    <3>1. e \in ToSet(file) => e \in ToSet(file') \cup resent \cup shed
      BY <2>2 DEF QIInv, FileFollows
    <3> QED BY <3>1 DEF QIInv, DoneIsKept, SentIsDelivered, Delivered, Settled
  <2> QED BY <1>1, <2>1, <2>2
<1>10. NothingLeftBehind'
  BY <1>1 DEF NothingLeftBehind, Rested, ToSet
<1> QED BY <1>4, <1>5, <1>6, <1>7, <1>8, <1>9, <1>10 DEF QIInv

\* Only the file outlives the process.
LEMMA RestartStep ==
  ASSUME QIInv, DeviceRestart
  PROVE  QIInv'
<1>1. /\ sending' = [e \in Events |-> IF sending[e] \in {"sent", "buffer"} THEN "lost" ELSE sending[e]]
      /\ link' = "down" /\ unacked' = {} /\ entries' = file /\ drains' = 0 /\ drainer' = "off" /\ late' = {}
      /\ crashes < MaxCrashes /\ crashes' = crashes + 1
      /\ UNCHANGED <<file, shed, broker, rows, resent, max>>
  BY DEF DeviceRestart, qRegistry
<1>2. entries \in Seq(Events) /\ file \in Seq(Events) /\ sending \in [Events -> CallSteps]
  BY DEF QIInv, QTypeOK
<1>3. \A e \in Events : /\ sending'[e] # "sent" /\ (sending'[e] = "done" => sending[e] = "done")
                        /\ sending[e] \in {"done", "lost"} => sending'[e] = sending[e]
  BY <1>1
<1>4. QTypeOK'
  <2>1. sending' \in [Events -> CallSteps]
    BY <1>1, <1>2 DEF CallSteps
  <2>2. crashes' \in 0 .. MaxCrashes
    BY <1>1, QueueAssumption DEF QIInv, QTypeOK
  <2> QED BY <1>1, <2>1, <2>2 DEF QIInv, QTypeOK, MaxWaiting
<1>5. BufferedOnce'
  BY <1>1, <1>3 DEF QIInv, BufferedOnce, Events
<1>6. SentIsDelivered'
  <2>1. \A e \in resent : Delivered(e)'
    BY <1>1 DEF QIInv, SentIsDelivered, Delivered
  <2>2. (\A e \in resent : Delivered(e))'
    BY <1>1, <2>1
  <2> QED BY <1>1, <1>3, <2>2 DEF SentIsDelivered, Events
<1>7. TriedInOrder(entries)' /\ TriedInOrder(file)'
  BY <1>1 DEF QIInv, TriedInOrder
<1>8. FileFollows'
  BY <1>1, WrittenFollows
<1>9. DoneIsKept'
  BY <1>1, <1>3 DEF QIInv, DoneIsKept, Settled, Events, ToSet
<1>10. NothingLeftBehind'
  BY <1>1 DEF NothingLeftBehind, Rested
<1> QED BY <1>4, <1>5, <1>6, <1>7, <1>8, <1>9, <1>10 DEF QIInv

\* The full FIFO sheds from its front.
LEMMA NewestProperties ==
  ASSUME max \in Nat \ {0}, NEW q \in Seq(Events), Len(q) > 0
  PROVE  \E d \in 0 .. Len(q) - 1 :
            /\ Newest(q) \in Seq(Events) /\ Len(Newest(q)) = Len(q) - d /\ Len(q) - d <= max
            /\ \A i \in 1 .. Len(q) - d : Newest(q)[i] = q[i + d]
<1> DEFINE n == IF Len(q) < max THEN Len(q) ELSE max
           d == Len(q) - n
<1>1. Len(q) \in Nat /\ n \in 1 .. Len(q) /\ n <= max /\ d \in 0 .. Len(q) - 1 /\ Len(q) - d = n
  OBVIOUS
<1>2. Newest(q) = SubSeq(q, Len(q) + 1 - n, Len(q))
  BY DEF Newest
<1>3. Len(q) + 1 - n = d + 1
  BY <1>1
<1> HIDE DEF n
<1>4. d + 1 \in Int /\ Len(q) \in Int /\ \A i \in d + 1 .. Len(q) : q[i] \in Events
  <2>1. \A i \in 1 .. Len(q) : q[i] \in Events
    OBVIOUS
  <2> QED BY <1>1, <2>1
<1> HIDE DEF d
<1>5. /\ SubSeq(q, d + 1, Len(q)) \in Seq(Events)
      /\ Len(SubSeq(q, d + 1, Len(q))) = IF d + 1 <= Len(q) THEN Len(q) - (d + 1) + 1 ELSE 0
      /\ \A i \in 1 .. Len(q) - (d + 1) + 1 : SubSeq(q, d + 1, Len(q))[i] = q[d + 1 + i - 1]
  BY <1>4, SubSeqProperties
<1>6. Len(Newest(q)) = Len(q) - d
  BY <1>1, <1>2, <1>3, <1>5
<1>7. \A i \in 1 .. Len(q) - d : Newest(q)[i] = q[i + d]
  <2> SUFFICES ASSUME NEW i \in 1 .. Len(q) - d PROVE Newest(q)[i] = q[i + d]
    OBVIOUS
  <2>1. i \in 1 .. Len(q) - (d + 1) + 1 /\ d + 1 + i - 1 = i + d
    BY <1>1
  <2> QED BY <1>2, <1>3, <1>5, <2>1
<1> QED BY <1>1, <1>2, <1>3, <1>5, <1>6, <1>7

\* An event is buffered behind all others; the full FIFO sheds the oldest.
LEMMA AddStep ==
  ASSUME QIInv, NEW e \in Events, Add(e)
  PROVE  QIInv'
<1> DEFINE all == Append(entries, e)
           new == Newest(all)
<1>1. /\ sending[e] = "buffer" /\ drainer = "off" /\ entries' = new
      /\ shed' = shed \cup (ToSet(all) \ ToSet(new))
      /\ \/ file' = new /\ sending' = [sending EXCEPT ![e] = "done"]
         \/ file' = file /\ sending' = [sending EXCEPT ![e] = "lost"]
      /\ late' = (IF link = "up" THEN late \cup {e} ELSE late)
      /\ UNCHANGED <<link, unacked, drains, drainer, broker, rows, resent, max, crashes>>
  BY DEF Add, Persist, PersistFails, KeepBack, qLink, qDrain, qRegistry, qRest
<1>2. /\ entries \in Seq(Events) /\ file \in Seq(Events) /\ sending \in [Events -> CallSteps]
      /\ max \in Nat \ {0}
  BY QueueAssumption DEF QIInv, QTypeOK
<1>3. /\ DOMAIN entries = 1 .. Len(entries) /\ Len(entries) \in Nat
      /\ all \in Seq(Events) /\ Len(all) = Len(entries) + 1 /\ DOMAIN all = 1 .. Len(all)
      /\ all[Len(all)] = e /\ \A i \in DOMAIN entries : i \in DOMAIN all /\ all[i] = entries[i]
      /\ \A i \in DOMAIN all : i # Len(all) => i \in DOMAIN entries
  BY <1>2
<1>4. e \notin ToSet(entries) /\ e \notin ToSet(file) /\ e \notin resent /\ <<e, "drain">> \notin unacked
  BY <1>1 DEF QIInv, BufferedOnce
<1> HIDE DEF all
<1>5. ToSet(all) = ToSet(entries) \cup {e}
  <2>1. Len(all) \in DOMAIN all
    BY <1>3
  <2>2. \A x \in ToSet(all) : x \in ToSet(entries) \cup {e}
    BY <1>3 DEF ToSet
  <2>3. \A x \in ToSet(entries) \cup {e} : x \in ToSet(all)
    BY <1>3, <2>1 DEF ToSet
  <2> QED BY <2>2, <2>3
<1>6. \A i, j \in DOMAIN all : all[i] = all[j] => i = j
  <2>1. \A i \in DOMAIN entries : entries[i] # e
    BY <1>4 DEF ToSet
  <2> QED BY <1>3, <2>1 DEF QIInv, BufferedOnce
<1>7. PICK d \in 0 .. Len(all) - 1 :
           /\ new \in Seq(Events) /\ Len(new) = Len(all) - d /\ Len(all) - d <= max
           /\ \A i \in 1 .. Len(all) - d : new[i] = all[i + d]
  <2>1. Len(all) > 0
    BY <1>3
  <2> QED BY <1>2, <1>3, <2>1, NewestProperties
<1> HIDE DEF new
<1>8. /\ d \in Nat /\ DOMAIN new = 1 .. Len(all) - d /\ Len(all) - d >= 1
      /\ \A i \in DOMAIN new : i + d \in DOMAIN all /\ new[i] = all[i + d]
      /\ \A i \in DOMAIN all : i > d => i - d \in DOMAIN new /\ new[i - d] = all[i]
  BY <1>3, <1>7
<1>9. ToSet(new) \subseteq ToSet(all) /\ e \in ToSet(new)
  <2>1. Len(all) > d /\ Len(all) \in DOMAIN all
    BY <1>3, <1>8
  <2>2. new[Len(all) - d] = e /\ Len(all) - d \in DOMAIN new
    BY <1>3, <1>8, <2>1
  <2> QED BY <1>8, <2>2 DEF ToSet
<1>10. \A i \in DOMAIN all : i > d \/ all[i] \in shed'
  <2> SUFFICES ASSUME NEW i \in DOMAIN all, ~(i > d) PROVE all[i] \in shed'
    OBVIOUS
  <2>1. \A k \in DOMAIN new : new[k] # all[i]
    <3> SUFFICES ASSUME NEW k \in DOMAIN new, new[k] = all[i] PROVE FALSE
      OBVIOUS
    <3>1. k + d = i
      BY <1>6, <1>8
    <3> QED BY <1>3, <1>8, <3>1
  <2> QED BY <1>1, <2>1 DEF ToSet
<1>11. \A x \in ToSet(entries) : x \in ToSet(new) \cup shed'
  BY <1>1, <1>5
<1>12. QTypeOK'
  <2>1. ToSet(all) \subseteq Events /\ new \in Seq(Events) /\ Len(new) <= max
    BY <1>3, <1>7 DEF ToSet
  <2>2. file' \in Seq(Events) /\ Len(file') <= max
    BY <1>1, <2>1 DEF QIInv, QTypeOK
  <2>3. sending' \in [Events -> CallSteps]
    BY <1>1, <1>2 DEF CallSteps
  <2>4. shed' \subseteq Events /\ late' \subseteq Events
    BY <1>1, <2>1 DEF QIInv, QTypeOK
  <2> QED BY <1>1, <2>1, <2>2, <2>3, <2>4 DEF QIInv, QTypeOK
<1>13. sending'[e] \in {"done", "lost"} /\ \A x \in Events : x # e => sending'[x] = sending[x]
  BY <1>1, <1>2
<1>14. BufferedOnce'
  <2>1. \A i, j \in DOMAIN new : new[i] = new[j] => i = j
    <3> SUFFICES ASSUME NEW i \in DOMAIN new, NEW j \in DOMAIN new, new[i] = new[j] PROVE i = j
      OBVIOUS
    <3>1. i + d = j + d
      BY <1>6, <1>8
    <3> QED BY <1>8, <3>1
  <2>2. \A i, j \in DOMAIN file' : file'[i] = file'[j] => i = j
    BY <1>1, <2>1 DEF QIInv, BufferedOnce
  <2>3. ToSet(new) \cup ToSet(file') \subseteq ToSet(entries) \cup ToSet(file) \cup {e}
    BY <1>1, <1>5, <1>9
  <2>4. \A x \in Events : x \in ToSet(new) \cup ToSet(file') \cup resent \/ <<x, "drain">> \in unacked
                          => sending'[x] \in {"done", "lost"}
    BY <1>13, <2>3 DEF QIInv, BufferedOnce
  <2> QED BY <1>1, <2>1, <2>2, <2>4 DEF BufferedOnce, ToSet, Events
<1>15. SentIsDelivered'
  <2>1. sending'[e] # "sent"
    BY <1>13
  <2> QED BY <1>1, <1>13, <2>1 DEF QIInv, SentIsDelivered, Delivered, Events
<1>16. \A i, j \in DOMAIN new :
          i < j /\ (new[j] \in resent \/ <<new[j], "drain">> \in unacked) => new[i] \in resent \cup shed'
  <2> SUFFICES ASSUME NEW i \in DOMAIN new, NEW j \in DOMAIN new, i < j,
                      new[j] \in resent \/ <<new[j], "drain">> \in unacked
               PROVE  new[i] \in resent \cup shed
    BY <1>1
  <2>1. i + d \in DOMAIN all /\ j + d \in DOMAIN all /\ i + d < j + d /\ new[i] = all[i + d] /\ new[j] = all[j + d]
    BY <1>8
  <2>2. j + d # Len(all)
    BY <1>3, <1>4, <2>1
  <2>3. i + d # Len(all)
    BY <1>3, <2>1
  <2>4. i + d \in DOMAIN entries /\ j + d \in DOMAIN entries /\ new[i] = entries[i + d] /\ new[j] = entries[j + d]
    BY <1>3, <2>1, <2>2, <2>3
  <2> QED BY <2>1, <2>4 DEF QIInv, TriedInOrder
<1>17. TriedInOrder(entries)' /\ TriedInOrder(file)'
  <2>1. \A i, j \in DOMAIN file :
           i < j /\ (file[j] \in resent \/ <<file[j], "drain">> \in unacked) => file[i] \in resent \cup shed'
    BY <1>1 DEF QIInv, TriedInOrder
  <2> QED BY <1>1, <1>16, <2>1 DEF TriedInOrder
<1>18. FileFollows'
  <2>1. CASE file' = new
    BY <1>1, <2>1, WrittenFollows
  <2>2. CASE file' = file
    <3>1. ToSet(file) \subseteq ToSet(new) \cup resent \cup shed'
      BY <1>1, <1>11 DEF QIInv, FileFollows
    <3>2. ASSUME NEW i \in DOMAIN file, NEW j \in DOMAIN file, i < j, file[j] \in ToSet(new)
          PROVE  \/ file[i] \in resent \cup shed'
                 \/ \E k, l \in DOMAIN new : k < l /\ new[k] = file[i] /\ new[l] = file[j]
      <4>1. file[j] # e
        BY <1>4 DEF ToSet
      <4>2. file[j] \in ToSet(entries)
        BY <1>5, <1>9, <3>2, <4>1
      <4>3. CASE file[i] \in resent \cup shed
        BY <1>1, <4>3
      <4>4. CASE \E k, l \in DOMAIN entries : k < l /\ entries[k] = file[i] /\ entries[l] = file[j]
        <5>1. PICK k \in DOMAIN entries, l \in DOMAIN entries :
                 k < l /\ entries[k] = file[i] /\ entries[l] = file[j]
          BY <4>4
        <5>2. k \in DOMAIN all /\ l \in DOMAIN all /\ all[k] = file[i] /\ all[l] = file[j]
          BY <1>3, <5>1
        <5>3. CASE k > d
          <6>1. l > d /\ k - d < l - d
            BY <1>3, <1>8, <5>1, <5>3
          <6>2. k - d \in DOMAIN new /\ l - d \in DOMAIN new /\ new[k - d] = file[i] /\ new[l - d] = file[j]
            BY <1>8, <5>2, <5>3, <6>1
          <6> QED BY <6>1, <6>2
        <5>4. CASE ~(k > d)
          BY <1>10, <5>2, <5>4
        <5> QED BY <5>3, <5>4
      <4> QED BY <3>2, <4>2, <4>3, <4>4 DEF QIInv, FileFollows
    <3> QED BY <1>1, <2>2, <3>1, <3>2 DEF FileFollows
  <2> QED BY <1>1, <2>1, <2>2
<1>19. DoneIsKept'
  <2> SUFFICES ASSUME NEW x \in Events, sending'[x] = "done"
               PROVE  rows[x] # "none" \/ x \in shed' \/ x \in broker \/ x \in ToSet(file')
    BY <1>1 DEF DoneIsKept, Settled, Events, ToSet
  <2>1. CASE x = e
    <3>1. file' = new
      BY <1>1, <1>2, <2>1
    <3> QED BY <1>9, <2>1, <3>1
  <2>2. CASE x # e
    <3>1. rows[x] # "none" \/ x \in shed \/ x \in broker \/ x \in ToSet(file)
      BY <1>13, <2>2 DEF QIInv, DoneIsKept, Settled
    <3>2. x \in ToSet(file) => x \in ToSet(new) \cup resent \cup shed'
      BY <1>1, <1>11 DEF QIInv, FileFollows
    <3>3. x \in resent => rows[x] # "none" \/ x \in broker
      BY DEF QIInv, SentIsDelivered, Delivered
    <3>4. CASE file' = file
      BY <1>1, <3>1, <3>4
    <3>5. CASE file' = new
      BY <1>1, <3>1, <3>2, <3>3, <3>5
    <3> QED BY <1>1, <3>4, <3>5
  <2> QED BY <2>1, <2>2
<1>20. NothingLeftBehind'
  <2>1. ToSet(new) \subseteq ToSet(entries) \cup {e}
    BY <1>5, <1>9
  <2> QED BY <1>1, <2>1 DEF QIInv, NothingLeftBehind, Rested, ToSet
<1> QED BY <1>12, <1>14, <1>15, <1>17, <1>18, <1>19, <1>20 DEF QIInv

\* Every step of the buffer keeps the invariant.
LEMMA QStepInductive == QIInv /\ [QNext]_qVars => QIInv'
<1> SUFFICES ASSUME QIInv, [QNext]_qVars PROVE QIInv'
  OBVIOUS
<1>1. CASE UNCHANGED qVars
  <2>1. UNCHANGED <<sending, link, unacked, entries, file, drains, drainer, broker, rows, shed, resent, late, max, crashes>>
    BY <1>1 DEF qVars, qCall, qLink, qBuffer, qDrain, qRegistry, qHistory, qRest
  <2>2. QTypeOK' /\ NothingLeftBehind'
    BY <2>1 DEF QIInv, QTypeOK, NothingLeftBehind, Rested
  <2> QED BY <2>1, <2>2, FrameStep DEF QIInv, SentIsDelivered, Delivered
<1> QED BY <1>1, ConnectionStep, RestartStep, CallStep, HandleStep, SendFrameStep, DrainHeadStep,
           DrainNextStep, DrainStopsStep, AddStep DEF QNext, ClientStep

\* It holds of every reachable state.
LEMMA QueueInvariance == QSpec => []QIInv
BY QInitInductive, QStepInductive, PTL DEF QSpec

\* What PublishEvent accepted survives every crash and every file that could not
\* be written, and goes out in its order (mqttc.go PublishEvent, queue.go drain,
\* persistLocked): AcceptedIsKept.
THEOREM AcceptedEventsSurvive == QSpec => []AcceptedIsKept
<1>1. QIInv => AcceptedIsKept
  <2> SUFFICES ASSUME QIInv PROVE ResentInOrder
    BY DEF QIInv, AcceptedIsKept
  <2>1. DOMAIN entries = 1 .. Len(entries)
    BY DEF QIInv, QTypeOK
  <2> QED BY <2>1 DEF QIInv, TriedInOrder, ResentInOrder
<1> QED BY <1>1, QueueInvariance, PTL

\* A connection whose drain has ended has emptied the FIFO, but for what failed on
\* this connection (mqttc.go onConnect, queue.go drain): NothingLeftBehind.
THEOREM DrainsEmptyTheQueue == QSpec => []NothingLeftBehind
<1>1. QIInv => NothingLeftBehind
  BY DEF QIInv
<1> QED BY <1>1, QueueInvariance, PTL

----------------------------------------------------------------------------
(* The state of a device.                                                  *)

\* A device that never connected satisfies the invariant.
LEMMA PInitInductive == PInit => PIInv
<1> SUFFICES ASSUME PInit PROVE PIInv
  OBVIOUS
<1>1. /\ age \in [States -> Ages] /\ latest = 0 /\ publishing = 0 /\ replay = 0 /\ retained = 0
      /\ wire = <<>> /\ inbox = <<>> /\ source = "down" /\ removals = 0 /\ resubscribed = 0
      /\ crossed = FALSE /\ mislaid = FALSE /\ job = NoJob /\ listed = NoRow /\ MaxState \in Nat
  BY PresenceAssumption DEF PInit, Ages
<1>2. job \in [step : JobSteps, msg : Messages, id : Nat] /\ job.step = "none"
  <2>1. WillMsg \in Messages
    BY DEF WillMsg, Messages
  <2> QED BY <1>1, <2>1 DEF NoJob, JobSteps
<1>3. /\ listed \in [id : Nat, status : {"none", "pending", "online", "offline"}, state : 0 .. latest, seen : Ages]
      /\ 0 \in Ages
  BY <1>1, PresenceAssumption DEF NoRow, Ages
<1>4. wire \in Seq(1 .. latest) /\ inbox \in Seq(Messages) /\ DOMAIN inbox = {}
  BY <1>1
<1>5. PTypeOK
  <2>1. latest \in 0 .. MaxState /\ {publishing, replay, retained} \subseteq 0 .. latest
    BY <1>1
  <2>2. source \in {"up", "lost", "down"} /\ removals \in Nat /\ resubscribed \in Nat
    BY <1>1
  <2>3. crossed \in BOOLEAN /\ mislaid \in BOOLEAN
    BY <1>1
  <2>4. \A i \in DOMAIN inbox : inbox[i].v <= latest
    BY <1>4
  <2> QED BY <1>1, <1>2, <1>3, <1>4, <2>1, <2>2, <2>3, <2>4 DEF PTypeOK
<1> QED BY <1>1, <1>2, <1>4, <1>5 DEF PIInv, LatestIsHanded, JobIsHead, RetainedIsLast

\* What is typed by the latest state stays typed when there is a later one.
LEMMA PublishStep ==
  ASSUME PIInv, PublishState
  PROVE  PIInv'
<1>1. /\ publishing = 0 /\ latest < MaxState /\ latest' = latest + 1
      /\ age' = [age EXCEPT ![latest + 1] = 0] /\ publishing' = latest + 1
      /\ UNCHANGED <<replay, wire, source, retained, inbox, job, listed, removals, resubscribed, crossed, mislaid>>
  BY DEF PublishState, netVars, dbVars, historyVars
<1>2. /\ latest \in Nat /\ MaxState \in Nat /\ {replay, retained} \subseteq 0 .. latest /\ latest' \in 0 .. MaxState
      /\ {publishing', replay', retained'} \subseteq 0 .. latest'
  BY <1>1, PresenceAssumption DEF PIInv, PTypeOK
<1>3. wire' \in Seq(1 .. latest')
  <2>1. 1 .. latest \subseteq 1 .. latest'
    BY <1>1, <1>2
  <2>2. Seq(1 .. latest) \subseteq Seq(1 .. latest')
    BY <2>1, SeqMonotonic
  <2> QED BY <1>1, <2>2 DEF PIInv, PTypeOK
<1>4. /\ inbox' \in Seq(Messages) /\ \A i \in DOMAIN inbox' : inbox'[i].v <= latest'
  <2>1. \A i \in DOMAIN inbox : inbox[i].v \in Nat /\ inbox[i].v <= latest
    BY PresenceAssumption DEF PIInv, PTypeOK, Messages, States
  <2> QED BY <1>1, <1>2, <2>1 DEF PIInv, PTypeOK
<1>5. listed' \in [id : Nat, status : {"none", "pending", "online", "offline"}, state : 0 .. latest', seen : Ages]
  BY <1>1, <1>2 DEF PIInv, PTypeOK
<1>6. age' \in [States -> Ages] /\ \A v \in 1 .. latest : age'[v] = age[v]
  <2>1. age \in [States -> Ages]
    BY DEF PIInv, PTypeOK
  <2>2. latest + 1 \in States /\ 0 \in Ages /\ 1 .. latest \subseteq States
    BY <1>1, <1>2, PresenceAssumption DEF States, Ages
  <2>3. \A v \in 1 .. latest : v # latest + 1
    BY <1>2
  <2> QED BY <1>1, <2>1, <2>2, <2>3
<1>7. PTypeOK'
  BY <1>1, <1>2, <1>3, <1>4, <1>5, <1>6 DEF PIInv, PTypeOK
<1>8. LatestIsHanded'
  BY <1>1, <1>2 DEF LatestIsHanded
<1>9. JobIsHead'
  BY <1>1 DEF PIInv, JobIsHead
<1>10. RetainedIsLast'
  BY <1>1, <1>2, <1>6 DEF PIInv, RetainedIsLast, IsState
<1> QED BY <1>7, <1>8, <1>9, <1>10 DEF PIInv

\* A state that is handed to the client is the last one handed.
LEMMA HandOver ==
  ASSUME PIInv, SendState \/ Replay
  PROVE  PIInv'
<1>1. /\ UNCHANGED <<latest, age, source, retained, inbox, job, listed, removals, resubscribed, mislaid>>
      /\ \/ /\ publishing # 0 /\ wire' = Append(wire, publishing) /\ publishing' = 0 /\ crossed' = FALSE
            /\ replay' = replay
         \/ /\ replay # 0 /\ wire' = Append(wire, replay) /\ replay' = 0 /\ publishing' = publishing
            /\ crossed' = (replay # latest /\ publishing = 0)
  BY DEF SendState, Replay, dbVars
<1>2. PICK v \in 1 .. latest :
         /\ wire' = Append(wire, v)
         /\ publishing' \in {0, publishing} /\ replay' \in {0, replay}
         /\ publishing' = 0 /\ ~crossed' => v = latest
  <2>1. latest \in Nat /\ publishing \in {0, latest} /\ replay \in 0 .. latest
    BY PresenceAssumption DEF PIInv, PTypeOK, LatestIsHanded
  <2>2. CASE /\ publishing # 0 /\ wire' = Append(wire, publishing) /\ publishing' = 0 /\ replay' = replay
    <3>1. publishing \in 1 .. latest /\ publishing = latest
      BY <2>1, <2>2
    <3> QED BY <2>2, <3>1
  <2>3. CASE /\ replay # 0 /\ wire' = Append(wire, replay) /\ replay' = 0 /\ publishing' = publishing
             /\ crossed' = (replay # latest /\ publishing = 0)
    <3>1. replay \in 1 .. latest
      BY <2>1, <2>3
    <3>2. publishing' = 0 /\ ~crossed' => replay = latest
      BY <2>3, Zenon
    <3> QED BY <2>3, <3>1, <3>2
  <2> QED BY <1>1, <2>2, <2>3
<1>3. wire' \in Seq(1 .. latest') /\ wire' # <<>> /\ Last(wire') = v
  <2> DEFINE S == 1 .. latest
  <2>1. wire \in Seq(S) /\ latest' = latest /\ v \in S
    BY <1>1 DEF PIInv, PTypeOK
  <2> HIDE DEF S
  <2>2. /\ Append(wire, v) \in Seq(S) /\ Append(wire, v) # <<>>
        /\ Append(wire, v)[Len(Append(wire, v))] = v
    BY <2>1, AppendProperties
  <2>3. wire' \in Seq(S) /\ wire' # <<>>
    BY <1>2, <2>2
  <2>4. Last(wire') = v
    <3>1. Last(Append(wire, v)) = v
      BY <2>2 DEF Last
    <3> QED BY <1>2, <3>1, Zenon
  <2> QED BY <2>1, <2>3, <2>4 DEF S
<1>4. PTypeOK'
  <2>1. {publishing', replay', retained'} \subseteq 0 .. latest'
    <3>1. {publishing, replay, retained} \subseteq 0 .. latest /\ 0 \in 0 .. latest
      BY PresenceAssumption DEF PIInv, PTypeOK
    <3> QED BY <1>1, <1>2, <3>1
  <2>2. crossed' \in BOOLEAN
    <3>1. CASE crossed' = FALSE
      BY <3>1
    <3>2. CASE crossed' = (replay # latest /\ publishing = 0)
      BY <3>2, Zenon
    <3> QED BY <1>1, <3>1, <3>2
  <2> QED BY <1>1, <1>3, <2>1, <2>2 DEF PIInv, PTypeOK
<1>5. LatestIsHanded'
  <2>1. publishing' \in {0, latest'}
    BY <1>1, <1>2 DEF PIInv, LatestIsHanded
  <2>2. HandedLast' = v
    BY <1>3 DEF HandedLast
  <2>3. publishing' = 0 /\ latest' # 0 /\ ~crossed' => HandedLast' = latest'
    <3>1. latest' = latest
      BY <1>1
    <3> QED BY <1>2, <2>2, <3>1, Zenon
  <2> QED BY <2>1, <2>3 DEF LatestIsHanded
<1>6. JobIsHead' /\ RetainedIsLast'
  BY <1>1 DEF PIInv, JobIsHead, RetainedIsLast, IsState
<1> QED BY <1>4, <1>5, <1>6 DEF PIInv

\* A message more in the queue of the consumer.
LEMMA QueuedMore ==
  ASSUME PIInv, NEW m \in Messages, m.v <= latest, inbox' = Append(inbox, m),
         UNCHANGED <<latest, job, listed>>
  PROVE  /\ inbox' \in Seq(Messages) /\ \A i \in DOMAIN inbox' : inbox'[i].v <= latest'
         /\ JobIsHead'
         /\ DOMAIN inbox = 1 .. Len(inbox) /\ DOMAIN inbox' = 1 .. Len(inbox) + 1 /\ Len(inbox) \in Nat
         /\ inbox'[Len(inbox) + 1] = m /\ \A i \in DOMAIN inbox : inbox'[i] = inbox[i]
<1>1. inbox \in Seq(Messages) /\ \A i \in DOMAIN inbox : inbox[i].v <= latest
  BY DEF PIInv, PTypeOK
<1>2. /\ inbox' \in Seq(Messages) /\ DOMAIN inbox = 1 .. Len(inbox) /\ DOMAIN inbox' = 1 .. Len(inbox) + 1
      /\ Len(inbox) \in Nat /\ inbox'[Len(inbox) + 1] = m /\ \A i \in DOMAIN inbox : inbox'[i] = inbox[i]
  BY <1>1
<1>3. inbox # <<>> => inbox' # <<>> /\ Head(inbox') = Head(inbox)
  BY <1>1
<1>4. JobIsHead'
  BY <1>3 DEF PIInv, JobIsHead
<1>5. \A i \in DOMAIN inbox' : inbox'[i].v <= latest'
  BY <1>1, <1>2
<1> QED BY <1>2, <1>4, <1>5

\* Wills and events leave the queued states as they are.
LEMMA QueuedOther ==
  ASSUME PIInv, NEW m \in {WillMsg, EventMsg}, inbox' \in {inbox, Append(inbox, m)},
         replay' \in 0 .. latest, source' \in {"up", "lost", "down"},
         UNCHANGED <<age, latest, publishing, wire, retained, job, listed, removals, resubscribed, crossed, mislaid>>
  PROVE  PIInv'
<1>1. m \in Messages /\ m.v = 0 /\ m.kind # "state"
  BY DEF WillMsg, EventMsg, Messages
<1>2. LatestIsHanded'
  BY DEF PIInv, LatestIsHanded, HandedLast
<1>3. CASE inbox' = inbox
  BY <1>2, <1>3 DEF PIInv, PTypeOK, JobIsHead, RetainedIsLast, IsState
<1>4. CASE inbox' = Append(inbox, m)
  <2>1. m.v <= latest
    BY <1>1, PresenceAssumption DEF PIInv, PTypeOK
  <2>2. /\ inbox' \in Seq(Messages) /\ \A i \in DOMAIN inbox' : inbox'[i].v <= latest'
        /\ JobIsHead'
        /\ DOMAIN inbox = 1 .. Len(inbox) /\ DOMAIN inbox' = 1 .. Len(inbox) + 1 /\ Len(inbox) \in Nat
        /\ inbox'[Len(inbox) + 1] = m /\ \A i \in DOMAIN inbox : inbox'[i] = inbox[i]
    BY <1>1, <1>4, <2>1, QueuedMore
  <2>3. PTypeOK'
    BY <2>2 DEF PIInv, PTypeOK
  <2>4. /\ \A i \in DOMAIN inbox' : inbox'[i].kind = "state" => i \in DOMAIN inbox /\ inbox[i].kind = "state"
        /\ \A i \in DOMAIN inbox : i \in DOMAIN inbox' /\ inbox'[i] = inbox[i]
    BY <1>1, <2>2
  <2>5. RetainedIsLast'
    BY <2>4 DEF PIInv, RetainedIsLast, IsState
  <2> QED BY <1>2, <2>2, <2>3, <2>5 DEF PIInv
<1> QED BY <1>3, <1>4

\* The retained state is queued: the one that came last.
LEMMA QueuedState ==
  ASSUME PIInv, retained' # 0, inbox' = Append(inbox, StateMsg(retained')), retained' \in 1 .. latest,
         UNCHANGED <<latest, age, publishing, replay, source, job, listed, removals, crossed, mislaid>>,
         resubscribed' \in Nat, wire' \in Seq(1 .. latest), HandedLast' = HandedLast
  PROVE  PIInv'
<1> DEFINE m == StateMsg(retained')
<1>1. m \in Messages /\ m.v = retained' /\ m.kind = "state" /\ m.v <= latest
  BY PresenceAssumption DEF StateMsg, Messages, States, PIInv, PTypeOK
<1> HIDE DEF m
<1>2. /\ inbox' \in Seq(Messages) /\ \A i \in DOMAIN inbox' : inbox'[i].v <= latest'
      /\ JobIsHead'
      /\ DOMAIN inbox = 1 .. Len(inbox) /\ DOMAIN inbox' = 1 .. Len(inbox) + 1 /\ Len(inbox) \in Nat
      /\ inbox'[Len(inbox) + 1] = m /\ \A i \in DOMAIN inbox : inbox'[i] = inbox[i]
  <2>1. inbox' = Append(inbox, m)
    BY DEF m
  <2> QED BY <1>1, <2>1, QueuedMore
<1>3. PTypeOK'
  BY <1>2 DEF PIInv, PTypeOK
<1>4. LatestIsHanded'
  BY DEF PIInv, LatestIsHanded
<1>5. Len(inbox) + 1 \in DOMAIN inbox' /\ inbox'[Len(inbox) + 1].kind = "state"
      /\ inbox'[Len(inbox) + 1].v = retained' /\ \A i \in DOMAIN inbox' : i = Len(inbox) + 1 \/ Len(inbox) + 1 > i
  BY <1>1, <1>2
<1>6. RetainedIsLast'
  BY <1>5 DEF RetainedIsLast, IsState
<1> QED BY <1>2, <1>3, <1>4, <1>6 DEF PIInv

\* What the broker does alone: connections, wills and what it accepts.
LEMMA BrokerStep ==
  ASSUME PIInv,
         \/ Reconnect \/ AcceptEvent \/ ConnectionBreaks \/ Close \/ WillFires
         \/ Accept \/ Resubscribe
  PROVE  PIInv'
<1>1. latest \in 0 .. latest /\ replay \in 0 .. latest /\ source \in {"up", "lost", "down"} /\ latest \in Nat
      /\ retained \in 0 .. latest /\ wire \in Seq(1 .. latest) /\ resubscribed \in Nat
  BY PresenceAssumption DEF PIInv, PTypeOK
<1>2. CASE Reconnect
  <2>1. inbox' \in {inbox, Append(inbox, WillMsg)}
    BY <1>2 DEF Reconnect
  <2> QED BY <1>1, <1>2, <2>1, QueuedOther DEF Reconnect, dbVars, historyVars
<1>3. CASE AcceptEvent
  BY <1>1, <1>3, QueuedOther DEF AcceptEvent, sdkVars, netVars, dbVars, historyVars
<1>4. CASE ConnectionBreaks
  BY <1>1, <1>4, QueuedOther DEF ConnectionBreaks, sdkVars, netVars, dbVars, historyVars
<1>5. CASE Close
  BY <1>1, <1>5, QueuedOther DEF Close, sdkVars, netVars, dbVars, historyVars
<1>6. CASE WillFires
  BY <1>1, <1>6, QueuedOther DEF WillFires, sdkVars, netVars, dbVars, historyVars
<1>7. CASE Accept
  <2>1. /\ wire # <<>> /\ retained' = Head(wire) /\ inbox' = Append(inbox, StateMsg(Head(wire)))
        /\ wire' \in {wire, Tail(wire)}
        /\ UNCHANGED <<latest, age, publishing, replay, source, job, listed, removals, resubscribed, crossed, mislaid>>
    BY <1>7 DEF Accept, sdkVars, dbVars, historyVars
  <2> DEFINE S == 1 .. latest
  <2>5. wire \in Seq(S)
    BY <1>1
  <2> HIDE DEF S
  <2>6. /\ Head(wire) \in S /\ Tail(wire) \in Seq(S) /\ Len(wire) \in Nat \ {0}
        /\ Len(Tail(wire)) = Len(wire) - 1 /\ Head(wire) = wire[1]
        /\ \A i \in 1 .. Len(Tail(wire)) : Tail(wire)[i] = wire[i + 1]
    BY <2>1, <2>5
  <2>2. retained' \in 1 .. latest /\ wire' \in Seq(1 .. latest)
    BY <2>1, <2>5, <2>6 DEF S
  <2>3. HandedLast' = HandedLast
    <3>1. CASE wire' = wire
      BY <2>1, <3>1 DEF HandedLast
    <3>2. CASE wire' = Tail(wire) /\ Len(wire) = 1
      <4>1. wire' = <<>> /\ Last(wire) = Head(wire)
        BY <2>5, <2>6, <3>2 DEF Last
      <4> QED BY <2>1, <4>1 DEF HandedLast
    <3>3. CASE wire' = Tail(wire) /\ Len(wire) # 1
      <4>1. wire' # <<>> /\ Last(wire') = Last(wire)
        <5>1. Len(Tail(wire)) \in 1 .. Len(Tail(wire)) /\ Len(Tail(wire)) + 1 = Len(wire)
          BY <2>6, <3>3
        <5>2. Tail(wire)[Len(Tail(wire))] = wire[Len(wire)]
          BY <2>6, <5>1
        <5>3. Last(Tail(wire)) = Last(wire)
          BY <5>2 DEF Last
        <5>4. Tail(wire) # <<>>
          <6>1. Len(Tail(wire)) # 0
            BY <5>1
          <6>2. Len(<<>>) = 0
            OBVIOUS
          <6> QED BY <6>1, <6>2, Zenon
        <5> QED BY <3>3, <5>3, <5>4
      <4> QED BY <2>1, <4>1 DEF HandedLast
    <3> QED BY <2>1, <3>1, <3>2, <3>3
  <2>4. retained' # 0 /\ inbox' = Append(inbox, StateMsg(retained'))
    BY <2>1, <2>2
  <2> QED BY <1>1, <2>1, <2>2, <2>3, <2>4, QueuedState
<1>8. CASE Resubscribe
  <2>1. /\ inbox' = IF retained = 0 THEN inbox ELSE Append(inbox, StateMsg(retained))
        /\ resubscribed' = resubscribed + 1
        /\ UNCHANGED <<latest, age, publishing, replay, wire, source, retained, job, listed, removals, crossed, mislaid>>
    BY <1>8 DEF Resubscribe, sdkVars, netVars, dbVars, historyVars
  <2>2. CASE retained = 0
    BY <2>1, <2>2 DEF PIInv, PTypeOK, LatestIsHanded, HandedLast, JobIsHead, RetainedIsLast, IsState
  <2>3. CASE retained # 0
    <3>1. retained' # 0 /\ inbox' = Append(inbox, StateMsg(retained')) /\ retained' \in 1 .. latest
      BY <1>1, <2>1, <2>3
    <3>2. HandedLast' = HandedLast
      BY <2>1 DEF HandedLast
    <3> QED BY <1>1, <2>1, <3>1, <3>2, QueuedState
  <2> QED BY <2>2, <2>3
<1> QED BY <1>2, <1>3, <1>4, <1>5, <1>6, <1>7, <1>8

\* What the consumer leaves of its queue when it has handled the head: a message
\* that was the last state still is, and the head was if no state follows.
LEMMA TakenHead ==
  ASSUME PIInv, inbox # <<>>
  PROVE  /\ Tail(inbox) \in Seq(Messages) /\ DOMAIN Tail(inbox) = 1 .. Len(inbox) - 1
         /\ DOMAIN inbox = 1 .. Len(inbox) /\ Len(inbox) \in Nat \ {0}
         /\ \A i \in 1 .. Len(inbox) - 1 : i + 1 \in DOMAIN inbox /\ Tail(inbox)[i] = inbox[i + 1]
         /\ 1 \in DOMAIN inbox /\ Head(inbox) = inbox[1] /\ Head(inbox) \in Messages
BY DEF PIInv, PTypeOK

\* The consumer writes what the frame it took says, and no row else.
LEMMA TakeStep ==
  ASSUME PIInv, inbox # <<>>, inbox' = Tail(inbox), job' = NoJob,
         UNCHANGED <<age, latest, publishing, replay, wire, source, retained, resubscribed, crossed>>,
         removals' \in Nat, mislaid' \in BOOLEAN,
         listed' \in [id : Nat, status : {"none", "pending", "online", "offline"}, state : 0 .. latest, seen : Ages],
         listed'.id = 0 => listed' = NoRow,
         Head(inbox).kind = "state" /\ Head(inbox).v = retained /\ ~mislaid'
           => listed'.state = retained /\ listed'.seen = age[retained],
         Head(inbox).kind # "state" /\ retained # 0 /\ ~mislaid'
           => /\ ~mislaid
              /\ listed.state = retained /\ listed.seen = age[retained]
                   => listed'.state = retained /\ listed'.seen = age[retained]
  PROVE  PIInv'
<1> DEFINE last(i) == \A k \in DOMAIN inbox : k > i => ~IsState(k)
<1>1. /\ Tail(inbox) \in Seq(Messages) /\ DOMAIN inbox' = 1 .. Len(inbox) - 1
      /\ DOMAIN inbox = 1 .. Len(inbox) /\ Len(inbox) \in Nat \ {0}
      /\ \A i \in 1 .. Len(inbox) - 1 : i + 1 \in DOMAIN inbox /\ inbox'[i] = inbox[i + 1]
      /\ 1 \in DOMAIN inbox /\ Head(inbox) = inbox[1] /\ Head(inbox) \in Messages
  BY TakenHead
<1>2. \A i \in DOMAIN inbox' : inbox'[i].v <= latest'
  BY <1>1 DEF PIInv, PTypeOK
<1>3. job' \in [step : JobSteps, msg : Messages, id : Nat] /\ job'.step = "none"
  <2>1. WillMsg \in Messages
    BY DEF WillMsg, Messages
  <2> QED BY <2>1 DEF NoJob, JobSteps
<1>4. PTypeOK'
  BY <1>1, <1>2, <1>3 DEF PIInv, PTypeOK
<1>5. LatestIsHanded'
  BY DEF PIInv, LatestIsHanded, HandedLast
<1>6. JobIsHead'
  BY <1>3 DEF JobIsHead
<1>7. \A i \in DOMAIN inbox' : IsState(i)' <=> IsState(i + 1)
  BY <1>1 DEF IsState
<1>8. \A i \in DOMAIN inbox : i # 1 => i - 1 \in DOMAIN inbox' /\ (IsState(i) <=> IsState(i - 1)')
  BY <1>1 DEF IsState
<1>9. ASSUME NEW i \in DOMAIN inbox', IsState(i)', \A k \in DOMAIN inbox' : k > i => ~IsState(k)'
      PROVE  inbox'[i].v = retained'
  <2>1. last(i + 1)
    BY <1>1, <1>8, <1>9
  <2>2. i + 1 \in DOMAIN inbox /\ IsState(i + 1) /\ inbox'[i] = inbox[i + 1]
    BY <1>1, <1>7, <1>9
  <2> QED BY <2>1, <2>2 DEF PIInv, RetainedIsLast
<1>10. ASSUME \A i \in DOMAIN inbox' : ~IsState(i)', retained' # 0, ~mislaid'
       PROVE  listed'.state = retained' /\ listed'.seen = age'[retained']
  <2>1. \A i \in DOMAIN inbox : i # 1 => ~IsState(i)
    BY <1>8, <1>10
  <2>2. CASE IsState(1)
    <3>1. last(1)
      BY <1>1, <2>1
    <3>2. inbox[1].v = retained
      BY <1>1, <2>2, <3>1 DEF PIInv, RetainedIsLast
    <3> QED BY <1>1, <1>10, <2>2, <3>2 DEF IsState
  <2>3. CASE ~IsState(1)
    <3>1. \A i \in DOMAIN inbox : ~IsState(i)
      BY <2>1, <2>3
    <3>2. ~mislaid
      BY <1>1, <1>10, <2>3 DEF IsState
    <3>3. listed.state = retained /\ listed.seen = age[retained]
      BY <1>10, <3>1, <3>2 DEF PIInv, RetainedIsLast
    <3> QED BY <1>1, <1>10, <2>3, <3>3 DEF IsState
  <2> QED BY <2>2, <2>3
<1>11. RetainedIsLast'
  BY <1>9, <1>10 DEF RetainedIsLast
<1> QED BY <1>4, <1>5, <1>6, <1>11 DEF PIInv

\* A handler that starts reads the row, and a stopped one leaves its message.
LEMMA LookUpStep ==
  ASSUME PIInv, HandleState \/ (HandleEventOf /\ UNCHANGED inbox) \/ BackendStops
  PROVE  PIInv'
<1>1. /\ UNCHANGED <<age, latest, publishing, replay, wire, source, retained, inbox, listed, removals,
                     resubscribed, crossed, mislaid>>
  BY DEF HandleState, HandleEventOf, BackendStops, sdkVars, netVars, dbVars, historyVars
<1>2. PTypeOK => listed.id \in Nat /\ 0 \in Nat
  BY DEF PTypeOK
<1>3. job' \in [step : JobSteps, msg : Messages, id : Nat]
      /\ JobIsHead'
  <2>1. CASE HandleState
    <3>1. /\ inbox # <<>> /\ Head(inbox).kind = "state"
          /\ job' = [step |-> IF listed = NoRow THEN "insert" ELSE "update", msg |-> Head(inbox), id |-> listed.id]
      BY <2>1 DEF HandleState, Take
    <3>2. Head(inbox) \in Messages
      BY <3>1, TakenHead
    <3>3. job'.step \in {"insert", "update"} /\ job'.msg = Head(inbox) /\ job'.id = listed.id
          /\ (job'.step = "insert" => listed = NoRow) /\ (job'.step = "update" => listed # NoRow)
      BY <3>1
    <3>4. job' \in [step : JobSteps, msg : Messages, id : Nat]
      BY <1>2, <3>1, <3>2 DEF PIInv, JobSteps
    <3> QED BY <1>1, <3>1, <3>3, <3>4 DEF PIInv, JobIsHead
  <2>2. CASE HandleEventOf /\ UNCHANGED inbox
    <3>1. inbox # <<>> /\ Head(inbox).kind = "event" /\ Head(inbox) \in Messages
      BY <2>2, TakenHead DEF HandleEventOf, Take
    <3>2. Tail(inbox) # inbox
      <4>1. Len(Tail(inbox)) = Len(inbox) - 1 /\ Len(inbox) \in Nat \ {0}
        BY <3>1 DEF PIInv, PTypeOK
      <4>2. \A n \in Nat \ {0} : n - 1 # n
        OBVIOUS
      <4>3. Len(Tail(inbox)) # Len(inbox)
        BY <4>1, <4>2, Zenon
      <4> QED BY <4>3, Zenon
    <3>3. listed = NoRow /\ job' = [step |-> "create", msg |-> Head(inbox), id |-> 0]
      BY <2>2, <3>2 DEF HandleEventOf, Taken
    <3>4. job' \in [step : JobSteps, msg : Messages, id : Nat]
      BY <1>2, <3>1, <3>3 DEF PIInv, JobSteps
    <3>5. job'.step = "create" /\ job'.msg = Head(inbox)
      BY <3>3
    <3> QED BY <1>1, <3>1, <3>3, <3>4, <3>5 DEF PIInv, JobIsHead
  <2>3. CASE BackendStops
    <3>1. job' = NoJob
      BY <2>3 DEF BackendStops
    <3>2. WillMsg \in Messages /\ 0 \in Nat
      BY DEF WillMsg, Messages
    <3>3. job' \in [step : JobSteps, msg : Messages, id : Nat] /\ job'.step = "none"
      BY <3>1, <3>2 DEF NoJob, JobSteps
    <3> QED BY <1>1, <3>1, <3>3 DEF PIInv, JobIsHead
  <2> QED BY <2>1, <2>2, <2>3
<1>4. PTypeOK'
  BY <1>1, <1>3 DEF PIInv, PTypeOK
<1> QED BY <1>1, <1>3, <1>4 DEF PIInv, LatestIsHanded, HandedLast, RetainedIsLast, IsState

\* The row a report of the consumer leaves is the report, or the report counts
\* as mislaid.
LEMMA ReportStep ==
  ASSUME PIInv, InsertDevice \/ UpdateState \/ HandlerFails
  PROVE  PIInv'
<1>1. /\ job # NoJob /\ inbox # <<>> /\ job.msg = Head(inbox) /\ job.msg \in Messages
      /\ job' = NoJob /\ inbox' = Tail(inbox)
      /\ UNCHANGED <<age, latest, publishing, replay, wire, source, retained, removals, resubscribed, crossed>>
  <2>1. job # NoJob
    <3>1. NoJob.step = "none"
      BY DEF NoJob
    <3>2. job.step \in {"insert", "create"} \/ job.step = "update" \/ job # NoJob
      BY DEF InsertDevice, UpdateState, HandlerFails
    <3> QED BY <3>1, <3>2
  <2> QED BY <2>1, TakenHead DEF InsertDevice, UpdateState, HandlerFails, Taken, sdkVars, netVars, dbVars, PIInv, JobIsHead
<1>2. /\ job.msg.kind = "state" => job.msg.v \in States /\ age[job.msg.v] \in Ages
      /\ job.msg.kind # "state" => job.msg.v = 0
      /\ job.msg.v \in 0 .. latest /\ 0 \in Ages /\ removals \in Nat /\ mislaid \in BOOLEAN
      /\ latest \in Nat /\ retained \in 0 .. latest
  <2>1. age \in [States -> Ages] /\ latest \in Nat /\ retained \in 0 .. latest /\ removals \in Nat /\ mislaid \in BOOLEAN
    BY PresenceAssumption DEF PIInv, PTypeOK
  <2>2. 0 \in Ages
    BY PresenceAssumption DEF Ages
  <2>3. /\ job.msg.kind = "state" => job.msg.v \in States
        /\ job.msg.kind # "state" => job.msg.v = 0
    BY <1>1 DEF Messages
  <2>4. job.msg.v <= latest
    BY <1>1, TakenHead DEF PIInv, PTypeOK
  <2> QED BY <2>1, <2>2, <2>3, <2>4 DEF States
<1>3. CASE InsertDevice
  <2>1. /\ listed = NoRow
        /\ listed' = [id |-> removals + 1, status |-> "pending", state |-> job.msg.v,
                      seen |-> IF job.step = "insert" THEN age[job.msg.v] ELSE 0]
        /\ mislaid' = (job.msg.v # latest /\ mislaid)
        /\ job.step = "insert" => job.msg.kind = "state"
        /\ job.step # "insert" => job.msg.kind = "event"
    BY <1>2, <1>3 DEF InsertDevice, Missing, PIInv, JobIsHead
  <2>2. listed' \in [id : Nat, status : {"none", "pending", "online", "offline"}, state : 0 .. latest, seen : Ages]
        /\ listed'.id # 0
    BY <1>2, <2>1
  <2>3. mislaid' \in BOOLEAN
    BY <2>1, Zenon
  <2>4. Head(inbox).kind = "state" /\ Head(inbox).v = retained /\ ~mislaid'
          => listed'.state = retained /\ listed'.seen = age[retained]
    BY <1>1, <2>1
  <2>5. ASSUME Head(inbox).kind # "state", retained # 0, ~mislaid'
        PROVE  ~mislaid /\ ~(listed.state = retained /\ listed.seen = age[retained])
    BY <1>1, <1>2, <2>1, <2>5 DEF NoRow
  <2> QED BY <1>1, <1>2, <2>2, <2>3, <2>4, <2>5, TakeStep
<1>4. CASE UpdateState
  <2>1. /\ listed' = IF listed.id # job.id THEN listed
                     ELSE [listed EXCEPT !.state = job.msg.v, !.seen = age[job.msg.v],
                                          !.status = IF @ = "pending" THEN @ ELSE "online"]
        /\ job.msg.kind = "state" /\ job.id # 0
        /\ listed.id = 0 => listed = NoRow
    BY <1>4 DEF UpdateState, PIInv, JobIsHead
  <2>2. /\ listed.id = job.id => mislaid' = (job.msg.v # latest /\ mislaid)
        /\ listed.id # job.id => mislaid' = TRUE
    BY <1>2, <1>4 DEF UpdateState, Missing
  <2>3. mislaid' \in BOOLEAN
    BY <2>2, Zenon
  <2>4. listed \in [id : Nat, status : {"none", "pending", "online", "offline"}, state : 0 .. latest, seen : Ages]
    BY DEF PIInv, PTypeOK
  <2>5. /\ listed' \in [id : Nat, status : {"none", "pending", "online", "offline"}, state : 0 .. latest, seen : Ages]
        /\ listed'.id = listed.id
        /\ listed.id = job.id => listed'.state = job.msg.v /\ listed'.seen = age[job.msg.v]
        /\ listed.id # job.id => listed' = listed
    BY <1>2, <2>1, <2>4
  <2>6. listed'.id = 0 => listed' = NoRow
    BY <2>1, <2>5
  <2>7. Head(inbox).kind = "state" /\ Head(inbox).v = retained /\ ~mislaid'
          => listed'.state = retained /\ listed'.seen = age[retained]
    BY <1>1, <2>2, <2>5
  <2> QED BY <1>1, <1>2, <2>1, <2>3, <2>5, <2>6, <2>7, TakeStep
<1>5. CASE HandlerFails
  <2>1. UNCHANGED listed /\ mislaid' = TRUE
    BY <1>5 DEF HandlerFails, dbVars
  <2>2. listed' \in [id : Nat, status : {"none", "pending", "online", "offline"}, state : 0 .. latest, seen : Ages]
        /\ (listed'.id = 0 => listed' = NoRow)
    BY <2>1 DEF PIInv, PTypeOK, JobIsHead
  <2>3. mislaid' \in BOOLEAN
    BY <2>1
  <2> QED BY <1>1, <1>2, <2>1, <2>2, <2>3, TakeStep
<1> QED BY <1>3, <1>4, <1>5

\* Wills and events of a known device pass without touching its state.
LEMMA PassStep ==
  ASSUME PIInv, MarkSourceOffline \/ (HandleEventOf /\ inbox' # inbox)
  PROVE  PIInv'
<1>1. /\ inbox # <<>> /\ Head(inbox).kind # "state" /\ inbox' = Tail(inbox) /\ job' = NoJob
      /\ UNCHANGED <<age, latest, publishing, replay, wire, source, retained, removals, resubscribed, crossed, mislaid>>
      /\ listed' = listed \/ (listed' = [listed EXCEPT !.status = "offline"] /\ listed.status = "online")
  <2>1. CASE MarkSourceOffline
    <3>1. Head(inbox).kind = "will" /\ inbox # <<>> /\ inbox' = Tail(inbox) /\ job' = NoJob
      BY <2>1 DEF MarkSourceOffline, Take, Taken
    <3>2. listed' = listed \/ (listed' = [listed EXCEPT !.status = "offline"] /\ listed.status = "online")
      BY <2>1 DEF MarkSourceOffline, GoOffline
    <3>3. UNCHANGED <<age, latest, publishing, replay, wire, source, retained, removals, resubscribed, crossed, mislaid>>
      BY <2>1 DEF MarkSourceOffline, sdkVars, netVars, historyVars
    <3> QED BY <3>1, <3>2, <3>3
  <2>2. CASE HandleEventOf /\ inbox' # inbox
    <3>1. Head(inbox).kind = "event" /\ inbox # <<>> /\ inbox' = Tail(inbox) /\ job' = NoJob
      BY <2>2 DEF HandleEventOf, Take, Taken
    <3>2. UNCHANGED <<listed, age, latest, publishing, replay, wire, source, retained, removals, resubscribed, crossed, mislaid>>
      BY <2>2 DEF HandleEventOf, sdkVars, netVars, dbVars, historyVars
    <3> QED BY <3>1, <3>2
  <2> QED BY <2>1, <2>2
<1>2. /\ listed \in [id : Nat, status : {"none", "pending", "online", "offline"}, state : 0 .. latest, seen : Ages]
      /\ listed.id = 0 => listed = NoRow
      /\ removals \in Nat /\ mislaid \in BOOLEAN
  BY DEF PIInv, PTypeOK, JobIsHead
<1>3. /\ listed' \in [id : Nat, status : {"none", "pending", "online", "offline"}, state : 0 .. latest, seen : Ages]
      /\ listed'.id = listed.id /\ listed'.state = listed.state /\ listed'.seen = listed.seen
  BY <1>1, <1>2
<1>4. listed'.id = 0 => listed' = NoRow
  BY <1>1, <1>2, <1>3 DEF NoRow
<1> QED BY <1>1, <1>2, <1>3, <1>4, TakeStep

\* The console and the presence loop change what is shown, not what was reported;
\* a row that is deleted takes its report with it.
LEMMA ConsoleStep ==
  ASSUME PIInv, SweepStaleDevices \/ ApproveReported \/ RemoveDevice
  PROVE  PIInv'
<1>1. /\ UNCHANGED <<age, latest, publishing, replay, wire, source, retained, inbox, job, resubscribed, crossed>>
      /\ removals' \in Nat /\ listed # NoRow
      /\ \/ mislaid' = mislaid /\ \E s \in {"online", "offline"} : listed' = [listed EXCEPT !.status = s]
         \/ mislaid' = TRUE /\ listed' = NoRow
  BY DEF SweepStaleDevices, ApproveReported, RemoveDevice, GoOffline, NoRow, sdkVars, netVars, dbVars, historyVars,
         PIInv, PTypeOK
<1>2. /\ listed \in [id : Nat, status : {"none", "pending", "online", "offline"}, state : 0 .. latest, seen : Ages]
      /\ listed.id # 0 /\ mislaid \in BOOLEAN
  BY <1>1 DEF PIInv, PTypeOK, JobIsHead
<1>3. NoRow \in [id : Nat, status : {"none", "pending", "online", "offline"}, state : 0 .. latest, seen : Ages]
  BY PresenceAssumption DEF NoRow, Ages, PIInv, PTypeOK
<1>4. /\ listed' \in [id : Nat, status : {"none", "pending", "online", "offline"}, state : 0 .. latest, seen : Ages]
      /\ listed'.id = 0 => listed' = NoRow
      /\ ~mislaid' => ~mislaid /\ listed'.state = listed.state /\ listed'.seen = listed.seen
  <2>1. CASE mislaid' = TRUE /\ listed' = NoRow
    BY <1>3, <2>1
  <2>2. ASSUME NEW s \in {"online", "offline"}, listed' = [listed EXCEPT !.status = s], mislaid' = mislaid
        PROVE  <1>4!1 /\ <1>4!2 /\ <1>4!3
    BY <1>2, <2>2
  <2> QED BY <1>1, <2>1, <2>2
<1>5. mislaid' \in BOOLEAN
  <2>1. CASE mislaid' = mislaid
    BY <1>2, <2>1
  <2>2. CASE mislaid' = TRUE
    BY <2>2
  <2> QED BY <1>1, <2>1, <2>2
<1>6. PTypeOK'
  BY <1>1, <1>4, <1>5 DEF PIInv, PTypeOK
<1>7. JobIsHead'
  BY <1>1, <1>4 DEF PIInv, JobIsHead
<1> QED BY <1>1, <1>4, <1>6, <1>7 DEF PIInv, LatestIsHanded, HandedLast, RetainedIsLast, IsState

\* Time ages the report and the row alike.
LEMMA TickStep ==
  ASSUME PIInv, Tick
  PROVE  PIInv'
<1>1. /\ UNCHANGED <<latest, publishing, replay, wire, source, retained, inbox, job, removals, resubscribed, crossed, mislaid>>
      /\ age' = [v \in States |-> Older(age[v])]
      /\ listed' = [listed EXCEPT !.seen = IF listed = NoRow THEN listed.seen ELSE Older(listed.seen)]
  BY DEF Tick, netVars, historyVars
<1>2. \A a \in Ages : Older(a) \in Ages
  BY PresenceAssumption DEF Ages, Older
<1>3. /\ age \in [States -> Ages] /\ retained \in 0 .. latest /\ latest \in 0 .. MaxState
      /\ listed \in [id : Nat, status : {"none", "pending", "online", "offline"}, state : 0 .. latest, seen : Ages]
      /\ listed.id = 0 => listed = NoRow
  BY DEF PIInv, PTypeOK, JobIsHead
<1>4. age' \in [States -> Ages]
  BY <1>1, <1>2, <1>3
<1>5. /\ listed' \in [id : Nat, status : {"none", "pending", "online", "offline"}, state : 0 .. latest, seen : Ages]
      /\ listed'.id = listed.id /\ listed'.state = listed.state
      /\ listed # NoRow => listed'.seen = Older(listed.seen)
      /\ listed = NoRow => listed' = NoRow
  BY <1>1, <1>2, <1>3 DEF NoRow
<1>6. PTypeOK'
  BY <1>1, <1>4, <1>5 DEF PIInv, PTypeOK
<1>7. JobIsHead'
  BY <1>1, <1>3, <1>5 DEF PIInv, JobIsHead
<1>8. retained # 0 /\ listed.state = retained /\ listed.seen = age[retained]
        => listed'.state = retained /\ listed'.seen = age'[retained]
  <2> SUFFICES ASSUME retained # 0, listed.state = retained, listed.seen = age[retained]
               PROVE  listed'.seen = age'[retained]
    BY <1>5
  <2>1. listed # NoRow
    BY DEF NoRow
  <2>2. retained \in States
    BY <1>3, PresenceAssumption DEF States
  <2> QED BY <1>1, <1>5, <2>1, <2>2
<1> QED BY <1>1, <1>6, <1>7, <1>8 DEF PIInv, LatestIsHanded, HandedLast, RetainedIsLast, IsState

\* Every step of presence keeps the invariant.
LEMMA PStepInductive == PIInv /\ [PNext]_pVars => PIInv'
<1> SUFFICES ASSUME PIInv, [PNext]_pVars PROVE PIInv'
  OBVIOUS
<1>1. CASE UNCHANGED pVars
  <2>1. UNCHANGED <<age, latest, publishing, replay, wire, source, retained, inbox, job, listed, removals,
                    resubscribed, crossed, mislaid>>
    BY <1>1 DEF pVars, sdkVars, netVars, dbVars, historyVars
  <2> QED BY <2>1 DEF PIInv, PTypeOK, LatestIsHanded, HandedLast, JobIsHead, RetainedIsLast, IsState
<1> QED BY <1>1, PublishStep, HandOver, BrokerStep, LookUpStep, ReportStep, PassStep, ConsoleStep, TickStep
        DEF PNext, ConsumerStep

\* It holds of every reachable state.
LEMMA PresenceInvariance == PSpec => []PIInv
BY PInitInductive, PStepInductive, PTL DEF PSpec

\* The registry ends at the latest state a device reported, with its time, through
\* lost connections, replays and restarts (mqttc.go publishLatest, onConnect,
\* store_devices.go UpsertState): Converges.
THEOREM StatesConverge == PSpec => []Converges
<1>1. PIInv => Converges
  <2> SUFFICES ASSUME PIInv, Quiet, latest # 0, ~crossed
               PROVE  retained = latest /\ (mislaid \/ (listed.state = latest /\ listed.seen = age[latest]))
    BY DEF Converges
  <2>1. publishing = 0 /\ wire = <<>> /\ inbox = <<>>
    BY DEF Quiet
  <2>2. retained = latest
    BY <2>1 DEF PIInv, LatestIsHanded, HandedLast
  <2>3. DOMAIN inbox = {}
    BY <2>1
  <2> QED BY <2>2, <2>3 DEF PIInv, RetainedIsLast
<1> QED BY <1>1, PresenceInvariance, PTL

----------------------------------------------------------------------------
(* The commands for a device.                                              *)

\* Without commands the invariant holds.
LEMMA CommandInitInductive == Init => IInv
BY IotAssumption DEF Init, IInv, TypeOK, OutcomeIsHonest, RowStatus, CallerSteps, Outcomes

\* The guarded UPDATE changes only a row whose status it asked for.
LEMMA TransitionGuarded ==
  ASSUME NEW c \in Commands, NEW from, NEW to, Transition(c, from, to),
         row \in [Commands -> RowStatus], NEW d \in Commands
  PROVE  row'[d] = row[d] \/ (d = c /\ row[c] \in from /\ row'[c] = to)
BY DEF Transition

\* A guarded UPDATE leaves a status in every row.
LEMMA TransitionTypes ==
  ASSUME NEW c \in Commands, NEW from, NEW to \in RowStatus,
         Transition(c, from, to) \/ UNCHANGED row, row \in [Commands -> RowStatus]
  PROVE  row' \in [Commands -> RowStatus]
BY DEF Transition

----------------------------------------------------------------------------
(* The inductive invariant, step by step.                                  *)

\* The registry: a device row changes, and its commands may go with it.
LEMMA RegistryStep ==
  ASSUME IInv, ApproveDevice \/ DeleteDevice \/ Removal \/ DeleteFails
  PROVE  IInv'
<1> USE DEF IInv, TypeOK, OutcomeIsHonest, wireVars
<1>1. CASE ApproveDevice
  BY <1>1 DEF ApproveDevice
<1>2. CASE DeleteDevice
  BY <1>2 DEF DeleteDevice
<1>3. CASE DeleteCommands
  <2>1. row' \in [Commands -> RowStatus]
    BY <1>3 DEF DeleteCommands, RowStatus
  <2>2. \A c \in Commands : row'[c] \in {"none", "deleted"}
    BY <1>3 DEF DeleteCommands
  <2> QED BY <1>3, <2>1, <2>2 DEF DeleteCommands
<1>4. CASE DeleteDeviceRow
  BY <1>4 DEF DeleteDeviceRow
<1>5. CASE DeleteFails
  BY <1>5 DEF DeleteFails
<1> QED BY <1>1, <1>2, <1>3, <1>4, <1>5 DEF Removal

\* The request: it inserts the row, waits for the broker and records the result.
LEMMA RequestStep ==
  ASSUME IInv, NEW c \in Commands,
         LoadDevice(c) \/ Request(c) \/ Transmit(c) \/ Puback(c)
  PROVE  IInv'
<1> USE DEF IInv, TypeOK, OutcomeIsHonest, wireVars, deviceVars
<1>1. CASE LoadDevice(c)
  BY <1>1 DEF LoadDevice, CallerAt, CallerSteps
<1>2. CASE InsertCommand(c)
  <2>1. row' \in [Commands -> RowStatus] /\ caller' \in [Commands -> CallerSteps]
    BY <1>2 DEF InsertCommand, CallerAt, RowStatus, CallerSteps
  <2>2. outbox' \in [Commands -> {"none", "out", "sent"}]
    BY <1>2 DEF InsertCommand
  <2>3. \A d \in Commands : row'[d] = row[d] \/ row'[d] = "queued"
    BY <1>2 DEF InsertCommand
  <2>4. \A d \in Commands : caller[d] = "failed" => caller'[d] = "failed"
    BY <1>2 DEF InsertCommand, CallerAt
  <2>5. \A d \in Commands : caller'[d] \in {"none", "publish"} => row'[d] = "none"
    BY <1>2 DEF InsertCommand, CallerAt
  <2> QED BY <1>2, <2>1, <2>2, <2>3, <2>4, <2>5 DEF InsertCommand
<1>3. CASE PublishTimeout(c)
  BY <1>3 DEF PublishTimeout, CallerAt, CallerSteps
<1>4. CASE MarkCommandPublished(c)
  <2>1. row' \in [Commands -> RowStatus]
    BY <1>4, TransitionTypes DEF MarkCommandPublished, RowStatus
  <2>2. \A d \in Commands : row'[d] = row[d] \/ (row[d] = "queued" /\ row'[d] = "delivered")
    BY <1>4 DEF MarkCommandPublished, Transition
  <2>3. \A d \in Commands : caller[d] = "failed" => caller'[d] = "failed"
    BY <1>4 DEF MarkCommandPublished, CallerAt
  <2>4. caller' = [caller EXCEPT ![c] = "done"] /\ caller' \in [Commands -> CallerSteps]
    BY <1>4 DEF MarkCommandPublished, CallerAt, CallerSteps
  <2> QED BY <1>4, <2>1, <2>2, <2>3, <2>4 DEF MarkCommandPublished
<1>5. CASE FailCommand(c)
  <2>1. row' \in [Commands -> RowStatus]
    BY <1>5, TransitionTypes DEF FailCommand, RowStatus
  <2>2. \A d \in Commands : row'[d] = row[d] \/ (d = c /\ row'[d] = "failed")
    BY <1>5 DEF FailCommand, Transition
  <2>3. caller' = [caller EXCEPT ![c] = "failed"]
    BY <1>5 DEF FailCommand, CallerAt
  <2> QED BY <1>5, <2>1, <2>2, <2>3 DEF FailCommand, CallerSteps
<1>6. CASE Transmit(c)
  BY <1>6 DEF Transmit
<1>7. CASE Puback(c)
  BY <1>7 DEF Puback, CallerSteps
<1> QED BY <1>1, <1>2, <1>3, <1>4, <1>5, <1>6, <1>7 DEF Request

\* The device: what it reports is remembered.
LEMMA DeviceStep ==
  ASSUME IInv, NEW c \in Commands, OnCommand(c) \/ DriverDone(c)
  PROVE  IInv'
<1> USE DEF IInv, TypeOK, OutcomeIsHonest, deviceVars
<1>1. CASE OnCommand(c)
  <2>1. acks' \subseteq reported' /\ reported \subseteq reported'
    BY <1>1 DEF OnCommand, Report
  <2>2. reported' \subseteq Commands \X Outcomes /\ acks' \subseteq Commands \X Outcomes
    BY <1>1 DEF OnCommand, Report, Outcomes
  <2>3. running' \in [Commands -> 0..MaxRuns] /\ frames' \subseteq Commands
    BY <1>1, IotAssumption DEF OnCommand
  <2> QED BY <1>1, <2>1, <2>2, <2>3 DEF OnCommand
<1>2. CASE DriverDone(c)
  <2>1. acks' \subseteq reported' /\ reported \subseteq reported'
    BY <1>2 DEF DriverDone, Report
  <2>2. reported' \subseteq Commands \X Outcomes /\ acks' \subseteq Commands \X Outcomes
    BY <1>2 DEF DriverDone, Report
  <2>3. running' \in [Commands -> 0..MaxRuns]
    BY <1>2, IotAssumption DEF DriverDone
  <2> QED BY <1>2, <2>1, <2>2, <2>3 DEF DriverDone
<1> QED BY <1>1, <1>2

\* An ack that arrives, perhaps late or again.
LEMMA AckStep ==
  ASSUME IInv, NEW c \in Commands, NEW o \in Outcomes, ApplyAck(c, o)
  PROVE  IInv'
<1> USE DEF IInv, TypeOK, deviceVars
<1>1. row' \in [Commands -> RowStatus]
  BY TransitionTypes DEF ApplyAck, Outcomes, RowStatus
<1>2. \A d \in Commands : row'[d] = row[d] \/ (d = c /\ row[d] # "none" /\ row'[d] = o)
  BY DEF ApplyAck, Transition, Live
<1>3. <<c, o>> \in reported /\ acks' \subseteq acks
  BY DEF ApplyAck
<1> QED BY <1>1, <1>2, <1>3 DEF ApplyAck, OutcomeIsHonest, Outcomes

\* The loops of the backend, its crash, loss and time.
LEMMA BackgroundStep ==
  ASSUME IInv, BackendCrash \/ DeviceCrash \/ Lose \/ ExpireCommands \/ PurgeExpired
               \/ \E c \in Commands : Deadline(c)
  PROVE  IInv'
<1> USE DEF IInv, TypeOK, OutcomeIsHonest, deviceVars, wireVars
<1>1. CASE BackendCrash
  <2>1. caller' \in [Commands -> CallerSteps]
    BY <1>1 DEF BackendCrash, CallerSteps
  <2>2. \A d \in Commands : caller[d] = "failed" => caller'[d] = "failed"
    BY <1>1 DEF BackendCrash
  <2> QED BY <1>1, <2>1, <2>2 DEF BackendCrash
<1>2. CASE Lose
  BY <1>2 DEF Lose
<1>3. CASE ExpireCommands
  <2>1. row' \in [Commands -> RowStatus]
    BY <1>3 DEF ExpireCommands, RowStatus
  <2>2. \A d \in Commands : row'[d] = row[d] \/ (d \in overdue /\ row[d] # "none" /\ row'[d] = "expired")
    BY <1>3 DEF ExpireCommands, Live
  <2> QED BY <1>3, <2>1, <2>2 DEF ExpireCommands
<1>4. CASE PurgeExpired
  <2>1. row' \in [Commands -> RowStatus]
    BY <1>4 DEF PurgeExpired, RowStatus
  <2>2. \A d \in Commands : row'[d] = row[d] \/ (row[d] # "none" /\ row'[d] = "deleted")
    BY <1>4 DEF PurgeExpired
  <2> QED BY <1>4, <2>1, <2>2 DEF PurgeExpired
<1>5. ASSUME NEW c \in Commands, Deadline(c) PROVE IInv'
  BY <1>5 DEF Deadline
<1>6. CASE DeviceCrash
  BY <1>6, IotAssumption DEF DeviceCrash
<1> QED BY <1>1, <1>2, <1>3, <1>4, <1>5, <1>6

\* Every step of a command's life keeps the invariant.
LEMMA CommandNextInductive == IInv /\ [Next]_vars => IInv'
<1> SUFFICES ASSUME IInv, [Next]_vars PROVE IInv'
  OBVIOUS
<1>1. CASE Next
  BY <1>1, RegistryStep, RequestStep, DeviceStep, AckStep, BackgroundStep DEF Next
<1>2. CASE UNCHANGED vars
  BY <1>2 DEF vars, IInv, TypeOK, OutcomeIsHonest
<1> QED BY <1>1, <1>2

\* The inductive invariant of the command's life holds in every reachable state.
THEOREM CommandInvariance == Spec => []IInv
BY CommandInitInductive, CommandNextInductive, PTL DEF Spec

\* Every variable has its type.
THEOREM CommandTypes == Spec => []TypeOK
BY CommandInvariance, PTL DEF IInv

\* A row is acked or failed only for the reason it says (iot/store.go ApplyAck).
THEOREM HonestOutcome == Spec => []OutcomeIsHonest
BY CommandInvariance, PTL DEF IInv

----------------------------------------------------------------------------
(* The action properties.                                                  *)

\* A settled row is never rewritten (iot/store.go transitionCommand).
LEMMA StepKeepsSettled ==
  ASSUME IInv, [Next]_vars, NEW c \in Commands,
         row[c] \in {"acked", "failed", "expired"}
  PROVE  row'[c] \in {row[c], "deleted"}
<1> USE DEF IInv, TypeOK
<1>1. CASE UNCHANGED row
  BY <1>1
<1>2. CASE DeleteCommands \/ PurgeExpired \/ ExpireCommands
  BY <1>2 DEF DeleteCommands, PurgeExpired, ExpireCommands, Live
<1>3. ASSUME NEW d \in Commands,
             InsertCommand(d) \/ MarkCommandPublished(d) \/ FailCommand(d)
      PROVE  row'[c] = row[c]
  BY <1>3 DEF InsertCommand, MarkCommandPublished, FailCommand, Transition, CallerAt, Live
<1>4. ASSUME NEW d \in Commands, NEW o \in Outcomes, ApplyAck(d, o)
      PROVE  row'[c] = row[c]
  BY <1>4 DEF ApplyAck, Transition, Live
<1>5. UNCHANGED row \/ DeleteCommands \/ PurgeExpired \/ ExpireCommands
        \/ (\E d \in Commands :
              \/ InsertCommand(d) \/ MarkCommandPublished(d) \/ FailCommand(d)
              \/ \E o \in Outcomes : ApplyAck(d, o))
  BY DEF vars, Next, Removal, Request, ApproveDevice, DeleteDevice, DeleteDeviceRow,
         DeleteFails, BackendCrash, DeviceCrash, Lose, LoadDevice, PublishTimeout,
         Transmit, Puback, OnCommand, DriverDone, Deadline, deviceVars, wireVars
<1> QED BY <1>1, <1>2, <1>3, <1>4, <1>5

\* No ack, PUBACK or sweep rewrites what is settled.
THEOREM SettledStays == Spec => SettledIsFinal
<1>1. IInv /\ [Next]_vars =>
        [\A c \in Commands : row[c] \in {"acked", "failed", "expired"} =>
                               row'[c] \in {row[c], "deleted"}]_vars
  BY StepKeepsSettled
<1> QED BY <1>1, CommandInvariance, PTL DEF Spec, SettledIsFinal

\* Only a frame that arrives before its deadline starts the driver.
LEMMA StepFiresLive ==
  ASSUME IInv, [Next]_vars, NEW c \in Commands, row[c] = "expired"
  PROVE  running'[c] <= running[c]
<1> USE DEF IInv, TypeOK
<1>0. running[c] \in Nat /\ c \in overdue
  BY IotAssumption
<1>1. CASE UNCHANGED running
  BY <1>0, <1>1
<1>2. ASSUME NEW d \in Commands, OnCommand(d)
      PROVE  running'[c] <= running[c]
  <2>1. CASE d = c
    BY <1>0, <1>2, <2>1 DEF OnCommand
  <2>2. CASE d # c
    BY <1>0, <1>2, <2>2 DEF OnCommand
  <2> QED BY <2>1, <2>2
<1>3. ASSUME NEW d \in Commands, DriverDone(d)
      PROVE  running'[c] <= running[c]
  BY <1>0, <1>3 DEF DriverDone
<1>4. CASE DeviceCrash
  BY <1>0, <1>4 DEF DeviceCrash
<1>5. UNCHANGED running \/ DeviceCrash
        \/ \E d \in Commands : OnCommand(d) \/ DriverDone(d)
  BY DEF vars, Next, Removal, Request, ApproveDevice, DeleteDevice, DeleteCommands,
         DeleteDeviceRow, DeleteFails, BackendCrash, Lose, LoadDevice, InsertCommand,
         PublishTimeout, MarkCommandPublished, FailCommand, Transmit, Puback, Deadline,
         ApplyAck, ExpireCommands, PurgeExpired, deviceVars, wireVars
<1> QED BY <1>1, <1>2, <1>3, <1>4, <1>5

\* A command the console shows as expired never reaches the driver any more.
THEOREM ExpiredIsSafe == Spec => ExpiredNeverFires
<1>1. IInv /\ [Next]_vars =>
        [\A c \in Commands : row[c] = "expired" => running'[c] <= running[c]]_vars
  BY StepFiresLive
<1> QED BY <1>1, CommandInvariance, PTL DEF Spec, ExpiredNeverFires
=============================================================================
