------------------------------ MODULE Assistant ------------------------------
(***************************************************************************)
(* One turn of the AI assistant.  A goroutine, the pump, reads what the    *)
(* provider streams into a bounded channel; the turn consumes it, runs the *)
(* tools that were asked for, sends their results back, and asks a last    *)
(* time without tools when the rounds are used up.                         *)
(***************************************************************************)
EXTENDS Naturals, Sequences, Functions, Bells

CONSTANTS
  MaxRounds,       \* batches of tools in a turn (7)
  ChannelSize,     \* of the channel between pump and turn (8)
  MaxItems,        \* bound: what one response streams before it ends
  MaxParallel,     \* bound: tools that one response asks for
  Tables,          \* sets of regimes the database may hold, see Bells
  Slots,           \* a date and a first and a last period that the model asks for
  NoTable, NoSlot

ASSUME AssistantAssumption ==
  /\ {MaxRounds, ChannelSize, MaxItems, MaxParallel} \subseteq Nat \ {0}
  /\ NoTable \notin Tables /\ \A R \in Tables : AreRegimes(R)
  /\ Slots \subseteq [date : 101 .. 1231, from : Int, to : Int]

VARIABLES
  stage,      \* of the turn: idle, prompt, ask, read, tools, over
  batches,    \* tool calls so far, by round: how many, how many have a result
  lastAsk,    \* whether this request goes without tools
  response,   \* none, a stream, a whole body, or closed
  channel,    \* what the pump has passed on
  pumping,    \* what the pump does: read, an item it passes on, ended
  items,      \* items read of this response
  heard,      \* what the turn has consumed of it: text, tool calls
  prompt, inForce,  \* the table the prompt was built from; the one in force
  client,     \* whether the browser still listens
  ending,     \* what it was told last
  offered     \* the slot that a tool took as valid last

talkVars == <<stage, batches, lastAsk, response, channel, pumping, items, heard,
              prompt, inForce, client, ending, offered>>
streamVars == <<response, channel, pumping, items, heard>>

Ends == {"eof", "broken", "refusal"}
Nothing == [text |-> FALSE, calls |-> 0]

AssistantInit ==
  /\ stage = "idle" /\ batches = <<>> /\ lastAsk = FALSE
  /\ response = "none" /\ channel = <<>> /\ pumping = "ended" /\ items = 0
  /\ heard = Nothing
  /\ prompt = NoTable /\ inForce \in Tables
  /\ client = "here" /\ ending = "none" /\ offered = NoSlot

\* done, error or a plain answer; nothing reaches a browser that left.
EndTurn(what) ==
  /\ stage' = "over"
  /\ ending' = IF client = "here" THEN what ELSE ending
  /\ UNCHANGED <<batches, lastAsk, prompt, inForce, client, offered>>

----------------------------------------------------------------------------
(* Requests.                                                               *)

\* chat: a well-formed question while the assistant is enabled.
Chat ==
  /\ stage = "idle" /\ stage' = "prompt"
  /\ UNCHANGED <<batches, lastAsk, streamVars, prompt, inForce, client, ending, offered>>

\* buildMessages; a failing read leaves the table out of the prompt.
BuildMessages ==
  /\ stage = "prompt" /\ stage' = "ask"
  /\ prompt' \in {inForce, NoTable}
  /\ UNCHANGED <<batches, lastAsk, streamVars, inForce, client, ending, offered>>

\* StreamRequest: a stream, or a provider that does not stream.
StreamRequest ==
  /\ stage = "ask" /\ stage' = "read"
  /\ response' \in {"stream", "whole"}
  /\ channel' = <<>> /\ pumping' = "read" /\ items' = 0 /\ heard' = Nothing
  /\ UNCHANGED <<batches, lastAsk, prompt, inForce, client, ending, offered>>

\* It fails, or is cancelled: plain JSON before the first stream, an event later.
RequestFails ==
  /\ stage = "ask"
  /\ EndTurn("error")
  /\ UNCHANGED streamVars

----------------------------------------------------------------------------
(* The pump, which outlives the turn when the channel is full.             *)

\* A closed body ends in an error; a whole one is one item and an end.
PumpReads ==
  /\ pumping = "read"
  /\ \/ /\ response = "stream" /\ items < MaxItems
        /\ pumping' \in {"keepalive", "text", "call"} \cup Ends /\ items' = items + 1
     \/ /\ response = "stream" /\ items = MaxItems
        /\ pumping' \in Ends /\ UNCHANGED items
     \/ /\ response = "whole" /\ items = 0
        /\ pumping' \in {"text", "call"} /\ items' = 1
     \/ /\ response = "whole" /\ items = 1
        /\ pumping' = "eof" /\ UNCHANGED items
     \/ /\ response = "closed"
        /\ pumping' = "broken" /\ UNCHANGED items
  /\ UNCHANGED <<stage, batches, lastAsk, response, channel, heard, prompt, inForce,
                 client, ending, offered>>

\* An error chunk is an event like others: the pump goes on.
PumpSends ==
  /\ pumping \notin {"read", "ended"} /\ Len(channel) < ChannelSize
  /\ channel' = Append(channel, pumping)
  /\ pumping' = IF pumping \in {"eof", "broken"} THEN "ended" ELSE "read"
  /\ UNCHANGED <<stage, batches, lastAsk, response, items, heard, prompt, inForce,
                 client, ending, offered>>

----------------------------------------------------------------------------
(* consumeStream.                                                          *)

Take == channel' = Tail(channel) /\ UNCHANGED <<pumping, items>>

\* MaxParallel bounds the calls: further fragments belong to the last of them.
Consume ==
  /\ stage = "read" /\ channel # <<>> /\ Head(channel) \notin Ends
  /\ heard' = CASE Head(channel) = "text" -> [heard EXCEPT !.text = TRUE]
                [] Head(channel) = "call" /\ heard.calls < MaxParallel ->
                     [heard EXCEPT !.calls = @ + 1]
                [] OTHER -> heard
  /\ Take
  /\ UNCHANGED <<stage, batches, lastAsk, response, prompt, inForce, client, ending, offered>>

Closed == response' = "closed" /\ UNCHANGED heard

\* Closing a whole body: there is none, and the handler's goroutine panics.
Panic == response = "whole"

StreamFails ==
  /\ stage = "read" /\ channel # <<>> /\ Head(channel) \in {"broken", "refusal"}
  /\ EndTurn("error")
  /\ Take /\ Closed

\* No tools are wanted, or this was the last request, whose body is closed after
\* "done" was sent; the last request fails if it brought calls and no text.
Answered ==
  /\ stage = "read" /\ channel # <<>> /\ Head(channel) = "eof"
  /\ heard.calls = 0 \/ lastAsk
  /\ Take /\ Closed
  /\ LET mute == ~heard.text /\ heard.calls > 0 IN
       EndTurn(IF Panic /\ (~lastAsk \/ mute) THEN "nothing"
               ELSE IF mute THEN "error" ELSE "done")

ToolsWanted ==
  /\ stage = "read" /\ channel # <<>> /\ Head(channel) = "eof"
  /\ heard.calls > 0 /\ ~lastAsk
  /\ Take /\ Closed
  /\ IF Panic THEN EndTurn("nothing")
     ELSE /\ stage' = "tools"
          /\ batches' = Append(batches, [calls |-> heard.calls, results |-> 0])
          /\ UNCHANGED <<lastAsk, prompt, inForce, client, ending, offered>>

\* Mistake: the timers start with the first item.
TimeoutOfSpeaker ==
  /\ stage = "read" /\ items > 0
  /\ EndTurn(IF Panic THEN "nothing" ELSE "error")
  /\ Closed /\ UNCHANGED <<channel, pumping, items>>

\* The idle timer, the round's or the turn's deadline, or a browser that left.
Timeout ==
  /\ stage = "read"
  /\ EndTurn(IF Panic THEN "nothing" ELSE "error")
  /\ Closed /\ UNCHANGED <<channel, pumping, items>>

----------------------------------------------------------------------------
(* executeTool, one call after the other.                                  *)

Batch == Len(batches)

\* Mistake: the table in force now.
RegimesNow == inForce

\* The snapshot the prompt was built from, if it was read.
RegimesFor == IF prompt # NoTable THEN prompt ELSE inForce

\* Inclusive, of the regime in force on the date.
ValidSlot(s) ==
  /\ 1 <= s.from /\ s.from <= s.to
  /\ RegimesFor # {} /\ s.from .. s.to \subseteq ActiveFor(RegimesFor, s.date).periods

\* The next call has a result.
ToolResult ==
  /\ stage = "tools" /\ batches[Batch].results < batches[Batch].calls
  /\ batches' = [batches EXCEPT ![Batch].results = @ + 1]
  /\ UNCHANGED <<stage, lastAsk, streamVars, prompt, inForce, client, ending>>

\* A permission the user lacks, a tool that does not exist, invalid arguments, a
\* room out of service: the result says so.
ToolRefused == ToolResult /\ UNCHANGED offered

ToolListClassrooms == ToolResult /\ UNCHANGED offered
ToolQueryTimetable == ToolResult /\ UNCHANGED offered
ToolQueryAvailability(s) == ToolResult /\ ValidSlot(s) /\ offered' = s

\* What already takes the period is told and refuses nothing.
ToolProposeBooking(s) == ToolResult /\ ValidSlot(s) /\ offered' = s

RunTool ==
  \/ ToolRefused \/ ToolListClassrooms \/ ToolQueryTimetable
  \/ \E s \in Slots : ToolQueryAvailability(s) \/ ToolProposeBooking(s)

ToolFails ==
  /\ stage = "tools" /\ batches[Batch].results < batches[Batch].calls
  /\ EndTurn("error")
  /\ UNCHANGED streamVars

NextRound ==
  /\ stage = "tools" /\ batches[Batch].results = batches[Batch].calls
  /\ stage' = "ask"
  /\ lastAsk' = (Batch >= MaxRounds)
  /\ UNCHANGED <<batches, streamVars, prompt, inForce, client, ending, offered>>

----------------------------------------------------------------------------
(* The rest of the system.                                                 *)

RegimesChange ==
  /\ inForce' \in Tables \ {inForce}
  /\ UNCHANGED <<stage, batches, lastAsk, streamVars, prompt, client, ending, offered>>

ClientLeaves ==
  /\ client = "here" /\ client' = "gone"
  /\ UNCHANGED <<stage, batches, lastAsk, streamVars, prompt, inForce, ending, offered>>

TurnStep ==
  \/ BuildMessages \/ StreamRequest \/ RequestFails
  \/ Consume \/ StreamFails \/ Answered \/ ToolsWanted \/ Timeout
  \/ RunTool \/ ToolFails \/ NextRound

AssistantNext == Chat \/ TurnStep \/ PumpReads \/ PumpSends \/ RegimesChange \/ ClientLeaves

\* The server runs the turn on, and its timers fire; nothing is asked of the
\* provider, whose bytes the pump reads.
AssistantFairness == WF_talkVars(TurnStep)

AssistantSpec == AssistantInit /\ [][AssistantNext]_talkVars /\ AssistantFairness

----------------------------------------------------------------------------
(* Properties.                                                             *)

\* A slot a tool lets pass lies in the bell times the model was shown, however
\* they change during the turn: in the regime of the prompt that began last before
\* its date (turnRegimes, validSlot).
SlotsMatchPrompt ==
  prompt # NoTable /\ offered # NoSlot =>
    \E r \in prompt :
      /\ offered.from .. offered.to \subseteq r.periods
      /\ \A o \in prompt : Since(r, offered.date) <= Since(o, offered.date)

\* No slot is offered before the prompt is built, and its table stays the turn's.
PromptFirst ==
  /\ prompt \in Tables \cup {NoTable} /\ inForce \in Tables
  /\ offered \in Slots \cup {NoSlot}
  /\ stage \in {"idle", "prompt"} => offered = NoSlot

AIInv == PromptFirst /\ SlotsMatchPrompt

\* A turn ends, even when the provider falls silent (idleTimeout, the deadlines).
TurnEnds == (stage = "prompt") ~> (stage = "over")

\* A provider that answers without streaming is served like any other: whoever
\* still listens is told "done" or "error" (Stream's comment, chat).
EndsInDoneOrError == stage = "over" /\ client = "here" => ending \in {"done", "error"}
=============================================================================
