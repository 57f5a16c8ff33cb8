----------------------------- MODULE GpsReader -----------------------------
(***************************************************************************)
(* The external GPS receiver of gps_controller.c.  It sends one sentence   *)
(* after the other over a UART, character by character; the interrupt      *)
(* handler collects a line in uart_buf1 and hands each $GNRMC line over in *)
(* print_buf1 with the flag printit.  getGPS, called by the environment    *)
(* work, parses that buffer in place: the handler may replace the line     *)
(* between any two of its steps.                                           *)
(*                                                                         *)
(* A token is a character; a number is one token, the numbers of a         *)
(* position are the id of the sentence that carries it.  Characters get    *)
(* lost, and the receiver is in the middle of a sentence when the device   *)
(* starts.  There is no checksum test.                                    *)
(*                                                                         *)
(* As a number has no width here, a line that is replaced by one with its  *)
(* commas elsewhere leaves the parser anywhere in it (Torn).               *)
(***************************************************************************)
EXTENDS Integers, SequencesExt, FiniteSetsExt

CONSTANTS
    Ids,      \* how many positions are told apart
    Burst,    \* characters that can arrive during one call of getGPS
    MaxLost,  \* bound: characters that get lost
    BufSize   \* the 128 bytes of uart_buf1, against 82 of the longest sentence

CR == -1      \* tokens are numbers: the ids, and these
LF == -2
Nul == -3
Dollar == -4
Comma == -5
RMC == -6     \* "GNRMC"
Other == -7   \* the name of another sentence, "GNGGA"
Active == -8  \* "A"
Void == -9    \* "V"
NoNumber == -10

Id == 0 .. Ids - 1
Tokens == -10 .. Ids - 1

ASSUME GpsAssumption ==
    /\ Ids \in Nat \ {0}
    /\ Burst \in Nat
    /\ MaxLost \in Nat
    /\ BufSize \in Nat \ {0}

VARIABLES
    kind,        \* the sentence being sent: "fix", "nofix" or "other"
    id,          \* the position it carries
    at,          \* its next token
    damaged,     \* it did not arrive as it was sent
    lost,        \* characters lost so far
    uart_buf1,   \* the line so far; its length is pos1
    print_buf1,  \* the bytes of the buffer, as far as they were written
    printit,
    pc,          \* getGPS: "idle", "scan", "read", "done", "torn" or "wild"
    field,       \* commas passed
    p,           \* position in print_buf1
    during,      \* characters that arrived during the call
    lat, lon,    \* what it has parsed
    given        \* history: the positions returned, as far as a buffer has them

line == <<kind, id, at, damaged, lost, uart_buf1>>
call == <<field, p, lat, lon>>
vars == <<line, print_buf1, printit, call, pc, during, given>>

-----------------------------------------------------------------------------
(* The receiver *)

Sentence(k, n) ==
    CASE k = "fix" ->
            <<Dollar, RMC, Comma, Comma, Active, Comma, n, Comma, Comma, n, Comma,
              Comma, Comma, Comma, CR, LF>>
      [] k = "nofix" ->
            <<Dollar, RMC, Comma, Comma, Void, Comma, Comma, Comma, Comma, Comma,
              Comma, Comma, CR, LF>>
      [] k = "other" -> <<Dollar, Other, Comma, CR, LF>>

Sending == Sentence(kind, id)

TypeOK ==
    /\ kind \in {"fix", "nofix", "other"}
    /\ id \in Id
    /\ at \in DOMAIN Sending
    /\ damaged \in BOOLEAN
    /\ lost \in 0 .. MaxLost
    /\ uart_buf1 \in Seq(Tokens)
    /\ print_buf1 \in Seq(Tokens)
    /\ printit \in BOOLEAN
    /\ pc \in {"idle", "scan", "read", "done", "torn", "wild"}
    /\ field \in 0 .. 8
    /\ p \in Nat \ {0}
    /\ during \in 0 .. Burst
    /\ lat \in Id \cup {NoNumber}
    /\ lon \in Id \cup {NoNumber}
    /\ given \subseteq Id

Init ==
    /\ kind \in {"fix", "nofix", "other"}
    /\ id = 0
    /\ at \in DOMAIN Sending
    /\ damaged = (at # 1)
    /\ lost = 0
    /\ uart_buf1 = <<>>
    /\ print_buf1 = <<>>
    /\ printit = FALSE
    /\ pc = "idle"
    /\ field = 0
    /\ p = 1
    /\ during = 0
    /\ lat = NoNumber
    /\ lon = NoNumber
    /\ given = {}

\* The receiver goes on with the next token, or with another sentence.
Advance(whole) ==
    IF at < Len(Sending)
    THEN /\ at' = at + 1
         /\ damaged' = (damaged \/ ~ whole)
         /\ UNCHANGED <<kind, id, given>>
    ELSE /\ at' = 1
         /\ damaged' = FALSE
         /\ kind' \in {"fix", "nofix", "other"}
         /\ id' = IF kind' = "fix" THEN (id + 1) % Ids ELSE id
         /\ given' = given \ {id'}

Lose ==
    /\ lost < MaxLost
    /\ lost' = lost + 1
    /\ Advance(FALSE)
    /\ UNCHANGED <<uart_buf1, print_buf1, printit, pc, during, call>>

-----------------------------------------------------------------------------
(* uart_gps_rx_handler *)

\* uart_buf1 with the character at pos1.
StoreAnywhere(ch) == Append(uart_buf1, ch)
Store(ch) == IF ch = Dollar THEN <<ch>> ELSE Append(uart_buf1, ch)

Ends(b) == Len(b) > 1 /\ b[Len(b)] = LF /\ b[Len(b) - 1] = CR

\* The carriage return is overwritten and the line terminated.
Line(b) == SubSeq(b, 1, Len(b) - 2) \o <<LF, Nul>>

CommasOf(b) == {i \in DOMAIN b : b[i] = Comma}
Parsing == pc \in {"scan", "read"}

KeepLine == UNCHANGED <<print_buf1, printit, pc>>

TakeLine(l) ==
    /\ print_buf1' = l
    /\ printit' = TRUE
    /\ pc' = IF Parsing /\ CommasOf(l) # CommasOf(print_buf1) THEN "torn" ELSE pc

HandOverOnce(l) ==
    IF IsPrefix(<<Dollar, RMC>>, l) /\ ~ printit THEN TakeLine(l) ELSE KeepLine
HandOver(l) == IF IsPrefix(<<Dollar, RMC>>, l) THEN TakeLine(l) ELSE KeepLine

\* A line feed at position 0 is compared with the byte before the array: it
\* ends a line or starts one.
Receive ==
    /\ Len(uart_buf1) < BufSize
    /\ pc # "idle" => during < Burst
    /\ during' = IF pc = "idle" THEN 0 ELSE during + 1
    /\ Advance(TRUE)
    /\ lost' = lost
    /\ LET b == Store(Sending[at])
       IN  IF Ends(b)
           THEN uart_buf1' = <<>> /\ HandOver(Line(b))
           ELSE /\ \/ uart_buf1' = b
                   \/ b = <<LF>> /\ uart_buf1' = <<>>
                /\ KeepLine
    /\ UNCHANGED call

-----------------------------------------------------------------------------
(* getGPS and getRMC, one step for each search of a comma and each field *)

Call ==
    /\ pc = "idle"
    /\ printit
    /\ pc' = "scan"
    /\ UNCHANGED <<line, print_buf1, printit, p, during, field, lat, lon, given>>

\* The flag is cleared after the if and not in it.
CallClearsFlag ==
    /\ pc = "idle"
    /\ ~ printit
    /\ pc' = "done"
    /\ UNCHANGED <<line, print_buf1, printit, p, during, field, lat, lon, given>>
CallInVain ==
    /\ pc = "idle"
    /\ ~ printit
    /\ UNCHANGED vars

\* Where strchr(p, ',') finds a comma: before the terminator.
Commas ==
    {i \in p .. Len(print_buf1) :
        /\ print_buf1[i] = Comma
        /\ \A j \in p .. i : print_buf1[j] # Nul}

\* p = strchr(p, ',') + 1.  Without a comma p is the address 1.
Scan ==
    /\ pc = "scan"
    /\ IF Commas = {}
       THEN pc' = "wild" /\ UNCHANGED <<field, p>>
       ELSE /\ field' = field + 1
            /\ p' = Min(Commas) + 1
            /\ pc' = CASE field' \in {2, 3, 5} -> "read"
                       [] field' = 8 -> "done"
                       [] OTHER -> "scan"
    /\ UNCHANGED <<line, print_buf1, printit, during, lat, lon, given>>

\* atof: what is no number is 0.
RawNumber(t) == t
Number(t) == IF t \in Id THEN t ELSE NoNumber

ReadStatus ==
    /\ pc = "read" /\ field = 2
    /\ pc' = IF print_buf1[p] = Active THEN "scan" ELSE "done"
    /\ UNCHANGED <<lat, lon>>

\* An empty latitude ends the parse.
ReadLatitude ==
    /\ pc = "read" /\ field = 3
    /\ IF print_buf1[p] = Comma
       THEN pc' = "done" /\ lat' = lat
       ELSE pc' = "scan" /\ lat' = Number(print_buf1[p])
    /\ lon' = lon

ReadLongitude ==
    /\ pc = "read" /\ field = 5
    /\ pc' = "scan"
    /\ lon' = Number(print_buf1[p])
    /\ lat' = lat

Read ==
    /\ ReadStatus \/ ReadLatitude \/ ReadLongitude
    /\ UNCHANGED <<line, print_buf1, printit, field, p, during, given>>

Fix == field = 8

Returned == IF Fix THEN given \cup ({lat, lon} \cap Id) ELSE given

Leave ==
    /\ pc' = "idle"
    /\ field' = 0
    /\ p' = 1
    /\ during' = 0
    /\ lat' = NoNumber
    /\ lon' = NoNumber

\* The sentence is used up, and so is one that came in meanwhile.
ReturnKeepsFlag ==
    /\ pc = "done"
    /\ printit' = (printit /\ Fix)
    /\ given' = Returned \cap (ToSet(print_buf1) \cup ToSet(uart_buf1))
    /\ Leave
    /\ UNCHANGED <<line, print_buf1>>
Return ==
    /\ pc = "done"
    /\ printit' = FALSE
    /\ given' = Returned \cap (ToSet(print_buf1) \cup ToSet(uart_buf1))
    /\ Leave
    /\ UNCHANGED <<line, print_buf1>>

\* The line was replaced by one with its commas elsewhere.  Where the parser
\* goes on depends on the widths of the fields: it reads any of the numbers,
\* or gives up, or runs off the line.
Torn ==
    /\ pc = "torn"
    /\ \/ /\ pc' = "done"
          /\ field' \in {2, 3, 8}
          /\ lat' \in {lat, NoNumber} \cup (ToSet(print_buf1) \cap Id)
          /\ lon' \in {lon, NoNumber} \cup (ToSet(print_buf1) \cap Id)
       \/ pc' = "wild" /\ UNCHANGED <<field, lat, lon>>
    /\ UNCHANGED <<line, print_buf1, printit, p, during, given>>

\* What is at the address 1 decides: the call goes on, or it faults and the
\* device restarts while the receiver sends.
Wild ==
    /\ pc = "wild"
    /\ \/ pc' = "done"
          /\ field' = 8
          /\ UNCHANGED <<line, print_buf1, printit, p, during, lat, lon, given>>
       \/ /\ uart_buf1' = <<>>
          /\ print_buf1' = <<>>
          /\ printit' = FALSE
          /\ damaged' = TRUE
          /\ Leave
          /\ UNCHANGED <<kind, id, at, lost, given>>

Parse == Scan \/ Read \/ Return \/ Torn \/ Wild

Next == Lose \/ Receive \/ Call \/ CallInVain \/ Parse

Spec == Init /\ [][Next]_vars

(* The receiver sends for ever, the environment work is submitted again each
   time it ends and getGPS waits for nothing. *)
FairSpec ==
    Spec /\ WF_vars(Receive) /\ WF_vars(Call \/ CallInVain) /\ WF_vars(Parse)

-----------------------------------------------------------------------------
(* Properties *)

\* The receiver does not wait for anyone: the line in the making stays in its
\* buffer, and the parse of a line, even of one with a character missing, finds
\* its commas.  Only a line replaced under the parser can lead it astray
\* (lines 54, 106-149).
InBounds == Len(uart_buf1) < BufSize /\ (pc = "scan" => Commas # {})

\* A sentence that arrives whole is handed over as it is, whatever was lost
\* before and whatever getGPS is doing (lines 50-72).
LastToken == Receive /\ at = Len(Sending)

Resynchronizes ==
    [][LastToken /\ ~ damaged /\ kind # "other" =>
          /\ printit'
          /\ IsPrefix(Front(Front(Sending)) \o <<LF, Nul>>, print_buf1')]_vars

\* No position is reported twice: an old one is never taken for a new one
\* (printit, lines 161, 179).
UsedOnce ==
    [][Return /\ Fix => {lat, lon} \cap given = {}]_vars

\* Where the sky is clear and the line is good, calls get a position again and
\* again, however they are timed against the sentences.
ClearSky == <>[](kind # "nofix") /\ []<>(kind = "fix") /\ <>[][~ Lose]_vars

PositionAgain == ClearSky => []<><<Return /\ Fix>>_vars
=============================================================================
