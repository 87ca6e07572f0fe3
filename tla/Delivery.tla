------------------------------ MODULE Delivery ------------------------------
(***************************************************************************)
(* tools/serve_tasmota_ota.py: the tool that tells the cloud to upgrade    *)
(* the stock plug and serves the image itself, by byte ranges, until every *)
(* byte has been served.  Two threads share the list of served ranges: the *)
(* main thread, which watches the cloud stream and the clock, and the one  *)
(* server thread, which a connection holds for as long as it stays open.   *)
(*                                                                         *)
(* The plug and the cloud are external: they ask, answer and vanish.       *)
(***************************************************************************)
EXTENDS Integers, Sequences, FiniteSets, Folds

CONSTANTS
  Length,      \* of the image, in bytes
  MaxRequests  \* bound: requests of the plug

ASSUME DeliveryAssumption == Length \in Nat \ {0} /\ MaxRequests \in Nat

VARIABLES
  main,     \* the main thread: before the server, before the command, in the
            \* loop without and with complete_at, in "finally", gone
  cloud,    \* the cloud stream: "open", "ended" and closed, or "broken"
  conn,     \* the server thread: no connection, one that waits for a request,
            \* one that is written to, one whose answer is written
  asked,    \* the range being served
  served_ranges,
  sent,     \* history: bytes of the image written to the plug
  commanded, \* the upgrade command was sent
  run_error, \* an exception ended the loop
  status,   \* exit status
  requests

deliveryVars == <<main, cloud, conn, asked, served_ranges, sent, commanded, run_error, status,
          requests>>
threadVars == <<conn, asked, served_ranges, sent, requests>>

Bytes == 0..(Length - 1)
Open == 0 - 1        \* a range without an end
NoRange == <<0, Length - 1>>
Running == 0 - 1     \* no exit status yet

DeliveryInit ==
  /\ main = "starting" /\ cloud = "open"
  /\ conn = "none" /\ asked = NoRange /\ served_ranges = <<>> /\ sent = {}
  /\ commanded = FALSE /\ run_error = FALSE /\ status = Running /\ requests = 0

-----------------------------------------------------------------------------
(* Ranges. *)

(* parse_single_range: the range, or none where it raises.                 *)
parse_single_range(first, last) ==
  LET lo == first
      hi == IF last = Open THEN Length - 1 ELSE last
  IN {r \in {<<lo, hi>>} : r[1] <= r[2] /\ r[1] < Length /\ r[2] < Length}

(* Positions in the list as sorted() orders its ranges.                    *)
Before(a, b) == a[1] < b[1] \/ (a[1] = b[1] /\ a[2] < b[2])
Earliest(ranges, positions) ==
  CHOOSE i \in positions : \A j \in positions : ~Before(ranges[j], ranges[i])
Latest(ranges, positions) ==
  CHOOSE i \in positions : \A j \in positions : ~Before(ranges[i], ranges[j])

Later(a, b) == IF a >= b THEN a ELSE b

(* Mutant: the end of the last range, not of the longest, is kept.         *)
ExtendLast(run, next) ==
  IF next[1] <= run.hi + 1 THEN [run EXCEPT !.hi = next[2]]
  ELSE [merged |-> run.merged + run.hi - run.lo + 1, lo |-> next[1], hi |-> next[2]]

(* One turn of the merge: extend the run of bytes, or count it and start    *)
(* another.                                                                *)
Extend(run, next) ==
  IF next[1] <= run.hi + 1 THEN [run EXCEPT !.hi = Later(@, next[2])]
  ELSE [merged |-> run.merged + run.hi - run.lo + 1, lo |-> next[1], hi |-> next[2]]

(* The first range starts the run; the others follow in their order, so the *)
(* latest is the last to be merged.                                        *)
unique_bytes_served(ranges) ==
  IF ranges = <<>> THEN 0
  ELSE LET first == Earliest(ranges, DOMAIN ranges)
           run == [merged |-> 0, lo |-> ranges[first][1], hi |-> ranges[first][2]]
           last == MapThenFoldSet(LAMBDA next, before : Extend(before, next), run,
                                  LAMBDA i : ranges[i], LAMBDA S : Latest(ranges, S),
                                  DOMAIN ranges \ {first})
       IN last.merged + last.hi - last.lo + 1

Covered == unique_bytes_served(served_ranges) = Length

-----------------------------------------------------------------------------
(* The server thread. A connection of the plug holds it until it is closed. *)

Connect ==
  /\ main \notin {"starting", "closing", "exited"} /\ conn = "none"
  /\ conn' = "idle"
  /\ UNCHANGED <<main, cloud, asked, served_ranges, sent, commanded, run_error, status,
                 requests>>

(* do_GET with a range: one that does not parse is answered 416 and the     *)
(* connection is closed.                                                   *)
Request(first, last) ==
  /\ conn = "idle" /\ requests < MaxRequests
  /\ requests' = requests + 1
  /\ \/ \E r \in parse_single_range(first, last) : asked' = r /\ conn' = "write"
     \/ parse_single_range(first, last) = {} /\ conn' = "none" /\ UNCHANGED asked
  /\ UNCHANGED <<main, cloud, served_ranges, sent, commanded, run_error, status>>

(* do_GET without one: the whole image.                                    *)
RequestAll ==
  /\ conn = "idle" /\ requests < MaxRequests
  /\ requests' = requests + 1
  /\ asked' = NoRange /\ conn' = "write"
  /\ UNCHANGED <<main, cloud, served_ranges, sent, commanded, run_error, status>>

(* Mutant: the range is counted before it is written.                      *)
WriteCounted ==
  /\ conn = "write"
  /\ served_ranges' = Append(served_ranges, asked)
  /\ \/ sent' = sent \cup (asked[1]..asked[2]) /\ conn' = "idle"
     \/ conn' = "none" /\ UNCHANGED sent
  /\ UNCHANGED <<main, cloud, asked, commanded, run_error, status, requests>>

(* The chunk is written, or the connection breaks under it.                *)
Write ==
  /\ conn = "write"
  /\ \/ sent' = sent \cup (asked[1]..asked[2]) /\ conn' = "written"
     \/ conn' = "none" /\ UNCHANGED sent
  /\ UNCHANGED <<main, cloud, asked, served_ranges, commanded, run_error, status, requests>>

Account ==
  /\ conn = "written"
  /\ served_ranges' = Append(served_ranges, asked) /\ conn' = "idle"
  /\ UNCHANGED <<main, cloud, asked, sent, commanded, run_error, status, requests>>

(* The plug closes its connection, which it need not do.                   *)
Disconnect ==
  /\ conn = "idle"
  /\ conn' = "none"
  /\ UNCHANGED <<main, cloud, asked, served_ranges, sent, commanded, run_error, status,
                 requests>>

-----------------------------------------------------------------------------
(* The main thread. *)

Exit(code) == main' = "exited" /\ status' = code

(* The lock, the image and the login: refused, or the server thread starts. *)
Start ==
  /\ main = "starting"
  /\ (main' = "sending" /\ UNCHANGED status) \/ Exit(1)
  /\ UNCHANGED <<cloud, commanded, run_error, threadVars>>

Raised == main' = "closing" /\ run_error' = TRUE

SendCommand ==
  /\ main = "sending"
  /\ \/ main' = "waiting" /\ commanded' = TRUE /\ UNCHANGED run_error
     \/ Raised /\ UNCHANGED commanded
  /\ UNCHANGED <<cloud, status, threadVars>>

InLoop == main \in {"waiting", "verifying"}

(* The coverage is complete: eight more seconds, whatever the cloud does.   *)
Observe ==
  /\ main = "waiting" /\ Covered
  /\ main' = "verifying"
  /\ UNCHANGED <<cloud, commanded, run_error, status, threadVars>>

Verified ==
  /\ main = "verifying" /\ Covered
  /\ main' = "closing"
  /\ UNCHANGED <<cloud, commanded, run_error, status, threadVars>>

(* Mutant: a receive without a timeout; the clock is only looked at when    *)
(* the cloud has said something.                                           *)
TimeUpAfterCloud ==
  /\ InLoop /\ cloud # "open"
  /\ main' = "closing"
  /\ UNCHANGED <<cloud, commanded, run_error, status, threadVars>>

TimeUp ==
  /\ InLoop
  /\ main' = "closing"
  /\ UNCHANGED <<cloud, commanded, run_error, status, threadVars>>

(* receive_json: the cloud rejects the command; it closes the stream, which *)
(* is a WebSocketError; or the stream is reset or carries nonsense, which   *)
(* is an OSError or a JSONDecodeError.                                     *)
CloudRejects ==
  /\ InLoop /\ cloud = "open"
  /\ Raised
  /\ UNCHANGED <<cloud, commanded, status, threadVars>>

CloudCloses ==
  /\ InLoop /\ cloud = "open"
  /\ cloud' = "ended"
  /\ UNCHANGED <<main, commanded, run_error, status, threadVars>>

CloudBreaks ==
  /\ InLoop /\ cloud = "open"
  /\ cloud' = "broken" /\ Raised
  /\ UNCHANGED <<commanded, status, threadVars>>

(* Ctrl-C: an error unless everything was served.                          *)
Interrupt ==
  /\ main \in {"sending", "waiting", "verifying"}
  /\ main' = "closing" /\ run_error' = ~Covered
  /\ UNCHANGED <<cloud, commanded, status, threadVars>>

(* In the finally clause it ends the process at once.                      *)
InterruptAgain ==
  /\ main = "closing"
  /\ Exit(1)
  /\ UNCHANGED <<cloud, commanded, run_error, threadVars>>

(* shutdown() waits for the server thread, and that for its connection;     *)
(* then the exit status is decided.                                        *)
Shutdown ==
  /\ main = "closing" /\ conn = "none"
  /\ Exit(IF ~run_error /\ commanded /\ Covered THEN 0 ELSE 1)
  /\ UNCHANGED <<cloud, commanded, run_error, threadVars>>

-----------------------------------------------------------------------------
Main == Start \/ SendCommand \/ Observe \/ Verified \/ TimeUp \/ Shutdown
Handler == Write \/ Account

DeliveryNext ==
  \/ Main \/ Handler
  \/ CloudRejects \/ CloudCloses \/ CloudBreaks \/ Interrupt \/ InterruptAgain
  \/ Connect \/ RequestAll \/ Disconnect
  \/ \E first \in 0..Length, last \in {Open} \cup 0..Length : Request(first, last)

(* Both threads run, and the clock of the loop does.                       *)
DeliverySpec ==
  /\ DeliveryInit /\ [][DeliveryNext]_deliveryVars
  /\ WF_deliveryVars(Main) /\ WF_deliveryVars(Handler)

-----------------------------------------------------------------------------
(* Properties. *)

(* unique_bytes_served counts exactly the bytes written to the plug,        *)
(* however the requested ranges overlap, nest, repeat or leave gaps, and    *)
(* whichever of them the plug never got; and all of them are of the image.  *)
CoverageExact ==
  /\ sent \subseteq Bytes
  /\ conn # "written" => unique_bytes_served(served_ranges) = Cardinality(sent)

(* The tool exits with success only when it has sent the command and every  *)
(* byte of the image, also when it is interrupted in between.              *)
SuccessTruth == status = 0 => commanded /\ sent = Bytes

(* The tool ends, however quiet the cloud is, if no connection is held for  *)
(* ever.                                                                   *)
ProcessEnds == []<>(conn = "none") => <>(main = "exited")

=============================================================================
