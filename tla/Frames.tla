------------------------------- MODULE Frames --------------------------------
(***************************************************************************)
(* How a connection turns bytes into commands: resp.ParseCommand and the   *)
(* loop of Handler.HandleIncomingStream, for a client's connection and for *)
(* a replica's connection to its master alike.  The sender writes whole    *)
(* commands in RESP; TCP and the 1024 bytes of a read hand them over in    *)
(* pieces that end anywhere.                                               *)
(*                                                                         *)
(* A byte is its code.  The digits of a length stand as one byte, which is *)
(* the digit if there is one, and no line end in any case.  An argument is *)
(* a sequence of bytes, which may hold a line end; a command is a sequence *)
(* of arguments.                                                           *)
(*                                                                         *)
(* NeverRetries, WithoutCRLF and ReadsAlways are faulty twins of the       *)
(* operator defined after them: no action uses them, a mutation puts one   *)
(* in place of its twin to show that a property notices.                   *)
(***************************************************************************)
EXTENDS Naturals, Sequences, SequencesExt, FiniteSetsExt

CONSTANTS
  Commands,  \* the commands sent; handleCommands panics at an empty one
  MaxSent,   \* how many of them at most
  ReadSize   \* bytes one read returns at most, 1024 in the code

ASSUME FramesAssumption ==
  /\ Commands \subseteq Seq(Seq(Nat)) \ {<<>>}
  /\ MaxSent \in Nat /\ ReadSize \in Nat \ {0}

VARIABLES
  sent,      \* commands sent
  wire,      \* bytes sent and not read
  buf,       \* bytes read and not consumed
  loop,      \* the loop: "reads", "parses" or "ended"
  executed,  \* commands given to handleCommands
  offset     \* what TrackOffset has counted

frameVars == <<sent, wire, buf, loop, executed, offset>>

FramesInit ==
  /\ sent = <<>> /\ wire = <<>> /\ buf = <<>>
  /\ loop = "reads"
  /\ executed = <<>> /\ offset = 0

-----------------------------------------------------------------------------
(* The encoding, as the sender does it.                                    *)
CR == 13
LF == 10
Dollar == 36
Star == 42
Zero == 48
CRLF == <<CR, LF>>
Bulk(arg) == <<Dollar, Zero + Len(arg)>> \o CRLF \o arg \o CRLF
Encoded(cmd) == <<Star, Zero + Len(cmd)>> \o CRLF \o FlattenSeq([i \in DOMAIN cmd |-> Bulk(cmd[i])])
Stream(cmds) == FlattenSeq([i \in DOMAIN cmds |-> Encoded(cmds[i])])

-----------------------------------------------------------------------------
(* The parser.  A position is the number of bytes before it.               *)

(* ReadLine: where the first line end at or after pos starts; 0 when there *)
(* is none.                                                                *)
LineEnd(data, pos) ==
  LET ends == {i \in (pos + 1)..(Len(data) - 1) : data[i] = CR /\ data[i + 1] = LF}
  IN  IF ends = {} THEN 0 ELSE Min(ends)

Errors == {"none", "no CRLF found", "expected bulk string", "not enough bytes for bulk string",
           "expected CRLF after bulk string"}
Results == [args : Seq(Seq(Nat)), pos : Nat, error : Errors]
Parsed(args, pos) == [args |-> args, pos |-> pos, error |-> "none"]
Failed(error) == [args |-> <<>>, pos |-> 0, error |-> error]

AtLineEnd(data, pos) == pos + 2 <= Len(data) /\ SubSeq(data, pos + 1, pos + 2) = CRLF

(* One bulk string at position r.pos, if there was no error before.        *)
WithoutCRLF(pos, len) == pos + len
PastCRLF(pos, len) == pos + len + 2
NextBulk(data) == [r \in Results |->
  LET end == LineEnd(data, r.pos + 1)
      len == data[r.pos + 2] - Zero
      pos == end + 1
  IN  IF r.error # "none" THEN r
      ELSE IF r.pos >= Len(data) \/ data[r.pos + 1] # Dollar THEN Failed("expected bulk string")
      ELSE IF end = 0 THEN Failed("no CRLF found")
      ELSE IF pos + len > Len(data) THEN Failed("not enough bytes for bulk string")
      ELSE IF ~AtLineEnd(data, pos + len) THEN Failed("expected CRLF after bulk string")
      ELSE Parsed(Append(r.args, SubSeq(data, pos + 1, pos + len)), PastCRLF(pos, len))]

(* n bulk strings from pos on, up to the first error.                      *)
Bulks(data, pos, n) ==
  LET bulks[i \in 0..n] ==
        IF i = 0 THEN Parsed(<<>>, pos) ELSE NextBulk(data)[bulks[i - 1]]
  IN  bulks[n]

(* The buffer starts with an array: senders write nothing else.            *)
ParseCommand(data) ==
  LET end == LineEnd(data, 1)
  IN  IF end = 0 THEN Failed("no CRLF found") ELSE Bulks(data, end + 1, data[2] - Zero)

(* The errors HandleIncomingStream reads on after.                         *)
NeverRetries == {}
Retried == {"not enough bytes for bulk string", "invalid input, expected array"}

-----------------------------------------------------------------------------
Sends(cmd) ==
  /\ Len(sent) < MaxSent
  /\ sent' = Append(sent, cmd)
  /\ wire' = wire \o Encoded(cmd)
  /\ UNCHANGED <<buf, loop, executed, offset>>

Reads(n) ==
  /\ loop = "reads"
  /\ n <= Len(wire)
  /\ buf' = buf \o SubSeq(wire, 1, n)
  /\ wire' = SubSeq(wire, n + 1, Len(wire))
  /\ loop' = "parses"
  /\ UNCHANGED <<sent, executed, offset>>

(* Only an empty buffer makes the loop read.                               *)
ReadsAlways(rest) == "reads"
NextTurn(rest) == IF rest = <<>> THEN "reads" ELSE "parses"

Executes ==
  LET result == ParseCommand(buf)
  IN  /\ loop = "parses"
      /\ result.error = "none"
      /\ executed' = Append(executed, result.args)
      /\ offset' = offset + result.pos
      /\ buf' = SubSeq(buf, result.pos + 1, Len(buf))
      /\ loop' = NextTurn(buf')
      /\ UNCHANGED <<sent, wire>>

ReadsOn ==
  /\ loop = "parses"
  /\ ParseCommand(buf).error \in Retried
  /\ loop' = "reads"
  /\ UNCHANGED <<sent, wire, buf, executed, offset>>

(* Any other error ends the loop.  The connection stays open, and nobody   *)
(* reads from it again.                                                    *)
Ends ==
  /\ loop = "parses"
  /\ ParseCommand(buf).error \notin Retried \cup {"none"}
  /\ loop' = "ended"
  /\ UNCHANGED <<sent, wire, buf, executed, offset>>

FramesNext ==
  \/ \E cmd \in Commands : Sends(cmd)
  \/ \E n \in 1..ReadSize : Reads(n)
  \/ Executes \/ ReadsOn \/ Ends

FramesSpec == FramesInit /\ [][FramesNext]_frameVars

(* The loop reads what there is and goes on; senders need not send.        *)
FramesLiveSpec ==
  FramesSpec /\ WF_frameVars((\E n \in 1..ReadSize : Reads(n)) \/ Executes \/ ReadsOn \/ Ends)

-----------------------------------------------------------------------------
(* No byte is lost, read twice or taken for another: the commands executed *)
(* are those sent, in their order, the buffer goes on where they end, and  *)
(* the offset a replica reports is where they end - wherever the reads are *)
(* cut, and whatever the arguments hold (commands.go:1144-1161).           *)
InStep ==
  /\ IsPrefix(executed, sent)
  /\ Stream(executed) \o buf \o wire = Stream(sent)
  /\ offset = Len(Stream(executed))

(* The lengths of the prefixes of an encoded command that lack data of a   *)
(* bulk string, and nothing before it.                                     *)
LacksData(cmd) ==
  UNION {LET before == Len(Encoded(SubSeq(cmd, 1, i - 1)))
         IN  {before + 4 + n : n \in 0..(Len(cmd[i]) - 1)} : i \in DOMAIN cmd}

(* A read may end between two commands or inside the data of a bulk string *)
(* and nowhere else: where it ends inside a length line, right after one   *)
(* that announces another bulk string, or at the line end behind the data, *)
(* the loop is over (commands.go:1146-1157, parser.go:31-65).              *)
CutsEndTheLoop ==
  loop # "parses" =>
    (loop = "reads" <=>
       \/ buf = <<>>
       \/ Len(buf) \in LacksData(sent[Len(executed) + 1]))

(* Every command sent is executed, unless a read was cut at such a place:  *)
(* the reads in between are always enough to complete it.                  *)
AllExecuted ==
  \A n \in 1..MaxSent : Len(sent) >= n ~> (Len(executed) >= n \/ loop = "ended")
=============================================================================
