---------------------------- MODULE SseFraming ----------------------------
(***************************************************************************)
(* From the bytes of the stream to packets: the buffer of sse_client, from *)
(* which complete blocks are cut whatever the chunks they arrive in, the   *)
(* data line of a block, and what the three parsers make of its JSON.      *)
(*                                                                         *)
(* The stream is a sequence of symbols: NL, Data for the prefix "data:"    *)
(* (with its space), Text for anything that does not begin with a brace,   *)
(* and one symbol per JSON object.  The server is external; it sends whole *)
(* blocks, each of a few lines and an empty one, or an empty line more.    *)
(***************************************************************************)
EXTENDS Integers, Sequences, FiniteSets

CONSTANTS
  NL, Data, Text,
  Event,       \* the JSON objects the server may send
  NoEvent,     \* None
  MaxBlocks    \* bound on the blocks of one connection

\* What a field of a JSON object can be: not there (or null), a string serde can
\* borrow, or one with an escape sequence in it.
Field == {"absent", "plain", "escaped"}

JsonObject == [user : Field, server_name : Field, bot : {"absent", "true", "false", "null"}]

\* What serde makes of an object, and what the parsers return.
Change    == [user : Field, server_name : Field, bot : BOOLEAN]
Name      == Field \cup {"unknown"}
Packet    == [user : Name, server_name : Name, priority : {"High", "Low"}]
HotFields == Field \X BOOLEAN

ASSUME FramingAssumption ==
  /\ Event \subseteq JsonObject
  /\ \A s \in {NL, Data, Text, NoEvent} : s \notin Event
  /\ NoEvent \notin Change /\ NoEvent \notin Packet /\ NoEvent \notin HotFields
  /\ NL \notin {Data, Text} /\ Data # Text
  /\ MaxBlocks \in Nat

VARIABLES
  stream,     \* what the server has sent on this connection
  ends,       \* history: the positions in it at which a block ends
  carriers,   \* history: the events in it, each with the end of its block
  received,   \* how much of it has arrived
  buf,        \* the client's buffer
  pc,         \* the client: "read" or "split"
  delivered   \* events of this connection given to the raw channel

server_vars == <<stream, ends, carriers>>
fvars == <<server_vars, received, buf, pc, delivered>>

Symbol == Event \cup {NL, Data, Text}

\* A block is its lines, each with its NL, and the event it carries, if any.
EventBlock(e) == [symbols |-> <<Text, NL, Data, e, NL, NL>>, event |-> e]
Comment       == [symbols |-> <<Text, NL, NL>>, event |-> NoEvent]
Notice        == [symbols |-> <<Data, Text, NL, NL>>, event |-> NoEvent]
EmptyLine     == [symbols |-> <<NL>>, event |-> NoEvent]
Block == {EventBlock(e) : e \in Event} \cup {Comment, Notice, EmptyLine}
LongestBlock == 6

FTypeOK ==
  /\ stream \in Seq(Symbol)
  /\ ends \subseteq 1..Len(stream) /\ Cardinality(ends) <= MaxBlocks
  /\ carriers \in Seq([event : Event, end : ends])
  /\ received \in 0..Len(stream)
  /\ buf \in Seq(Symbol)
  /\ pc \in {"read", "split"}
  /\ delivered \in Seq(Event)

FInit ==
  /\ stream = <<>> /\ ends = {} /\ carriers = <<>>
  /\ received = 0 /\ buf = <<>> /\ pc = "read" /\ delivered = <<>>

---------------------------------------------------------------------------
(* The client.                                                             *)

First(S) == CHOOSE i \in S : \A j \in S : i <= j

\* Positions at which buf has two newlines in a row.
DoubleNewline(s) == {i \in 1..(Len(s) - 1) : s[i] = NL /\ s[i + 1] = NL}

\* Faulty variant of ExtractDataLine: the prefix is not stripped.
Faulty_KeepPrefix(block) ==
  LET found == {i \in 1..(Len(block) - 1) : block[i] = Data /\ block[i + 1] \in Event}
  IN  IF found = {} THEN NoEvent ELSE block[First(found)]

\* The first line that is the prefix and an object: the object.
ExtractDataLine(block) ==
  LET found == {i \in 1..(Len(block) - 1) :
                  /\ i = 1 \/ block[i - 1] = NL
                  /\ block[i] = Data /\ block[i + 1] \in Event}
  IN  IF found = {} THEN NoEvent ELSE block[First(found) + 1]

\* External: the server writes a block.
ServerSends ==
  /\ Cardinality(ends) < MaxBlocks
  /\ \E b \in Block :
       LET end == Len(stream) + Len(b.symbols) IN
       /\ stream' = stream \o b.symbols
       /\ ends' = ends \cup {end}
       /\ carriers' = IF b.event = NoEvent THEN carriers
                      ELSE Append(carriers, [event |-> b.event, end |-> end])
  /\ UNCHANGED <<received, buf, pc, delivered>>

\* byte_stream.next(): a chunk ends anywhere.
Chunk ==
  /\ pc = "read"
  /\ \E n \in (received + 1)..Len(stream) :
       /\ received' = n
       /\ buf' = buf \o SubSeq(stream, received + 1, n)
  /\ pc' = "split"
  /\ UNCHANGED <<server_vars, delivered>>

\* Faulty variant of SplitBlock: an if in place of the while.
Faulty_OneBlock ==
  /\ pc = "split" /\ pc' = "read"
  /\ IF DoubleNewline(buf) = {} THEN UNCHANGED <<buf, delivered>>
     ELSE LET pos == First(DoubleNewline(buf))
              e   == ExtractDataLine(SubSeq(buf, 1, pos + 1))
          IN  /\ buf' = SubSeq(buf, pos + 2, Len(buf))
              /\ delivered' = IF e = NoEvent THEN delivered ELSE Append(delivered, e)
  /\ UNCHANGED <<server_vars, received>>

\* One round of the loop over the complete blocks, or its end.
SplitBlock ==
  /\ pc = "split"
  /\ IF DoubleNewline(buf) = {} THEN pc' = "read" /\ UNCHANGED <<buf, delivered>>
     ELSE LET pos == First(DoubleNewline(buf))
              e   == ExtractDataLine(SubSeq(buf, 1, pos + 1))
          IN  /\ buf' = SubSeq(buf, pos + 2, Len(buf))
              /\ delivered' = IF e = NoEvent THEN delivered ELSE Append(delivered, e)
              /\ UNCHANGED pc
  /\ UNCHANGED <<server_vars, received>>

\* Faulty variant of Reconnect: the buffer outlives the connection.
Faulty_KeepBuffer ==
  /\ pc = "read"
  /\ stream' = <<>> /\ ends' = {} /\ carriers' = <<>>
  /\ received' = 0 /\ delivered' = <<>>
  /\ UNCHANGED <<buf, pc>>

\* The stream breaks off, wherever it was, and the next one gets a new buffer.
Reconnect ==
  /\ pc = "read"
  /\ stream' = <<>> /\ ends' = {} /\ carriers' = <<>>
  /\ received' = 0 /\ delivered' = <<>>
  /\ buf' = <<>>
  /\ UNCHANGED pc

FNext == ServerSends \/ Chunk \/ SplitBlock \/ Reconnect

FSpec == FInit /\ [][FNext]_fvars

---------------------------------------------------------------------------
(* The parsers.                                                            *)

\* External: serde's derive for WikiChange. A string that cannot be borrowed is
\* an error, so is null where a bool is expected; a missing bot is false.
FromSlice(e) ==
  IF "escaped" \in {e.user, e.server_name} \/ e.bot = "null" THEN NoEvent
  ELSE [user |-> e.user, server_name |-> e.server_name, bot |-> e.bot = "true"]

PriorityOf(bot) == IF bot THEN "Low" ELSE "High"
OrUnknown(f) == IF f = "absent" THEN "unknown" ELSE f

FromChange(c) == [user |-> OrUnknown(c.user), server_name |-> OrUnknown(c.server_name),
                  priority |-> PriorityOf(c.bot)]

\* drain_and_parse and threaded_parse_loop.
ParsePacket(e) == IF FromSlice(e) = NoEvent THEN NoEvent ELSE FromChange(FromSlice(e))

\* Faulty variant of ParseZeroCopy: the validation is forgotten.
Faulty_NoValidation(e) == ParsePacket(e)

\* parse_zero_copy and parse_hot_fields.
ParseZeroCopy(e) ==
  LET c == FromSlice(e) IN
  IF c = NoEvent THEN NoEvent
  ELSE IF c.server_name = "absent" THEN NoEvent ELSE FromChange(c)
ParseHotFields(e) ==
  LET c == FromSlice(e) IN
  IF c = NoEvent THEN NoEvent
  ELSE IF c.server_name = "absent" THEN NoEvent ELSE <<c.server_name, c.bot>>

---------------------------------------------------------------------------
(* Properties.                                                             *)

\* However the stream is cut into chunks, inside a line, between the two
\* newlines or after several blocks: when a chunk has been worked off, exactly
\* the events of the blocks that have arrived in full are delivered, in order,
\* and nothing is put together from two connections.
DeliversCompleteBlocks ==
  pc = "read" =>
    /\ Len(delivered) <= Len(carriers)
    /\ \A i \in 1..Len(carriers) :
         IF carriers[i].end <= received
           THEN i <= Len(delivered) /\ delivered[i] = carriers[i].event
           ELSE i > Len(delivered)

\* Between chunks the buffer holds less than a block, and at most an empty line
\* before it: what the server sends cannot pile up in it.
BufferIsPartOfBlock ==
  pc = "read" => DoubleNewline(buf) = {} /\ Len(buf) <= LongestBlock

\* The three parsers agree on every event that arrives, but for one without a
\* server_name, which the pipelines count under the domain "unknown" and the
\* others reject.
ParsersAgree ==
  \A i \in 1..Len(delivered) :
    LET e == delivered[i] IN
    /\ ParsePacket(e) # ParseZeroCopy(e) =>
         ParseZeroCopy(e) = NoEvent /\ ParsePacket(e).server_name = "unknown"
    /\ ParseHotFields(e) = NoEvent <=> ParseZeroCopy(e) = NoEvent
    /\ ParseZeroCopy(e) # NoEvent =>
         LET p == ParseZeroCopy(e)
             h == ParseHotFields(e)
         IN  p.server_name = h[1] /\ p.priority = PriorityOf(h[2])

\* "serde will only allocate if the source string contains escape sequences"
\* (types.rs:18): such a string costs an allocation, not the event.
EscapesAreParsed ==
  \A i \in 1..Len(delivered) :
    delivered[i].bot # "null" => ParsePacket(delivered[i]) # NoEvent
=============================================================================
