-------------------------- MODULE ConnectionGuards --------------------------
(***************************************************************************)
(* What the server does with the bytes of one connection before a command  *)
(* is dispatched: the read loop of ConnectionHandler, its two size guards  *)
(* and the token bucket of RateLimiter.                                    *)
(*                                                                         *)
(* The bucket is kept in integers: one request costs Unit, a millisecond   *)
(* refills Refill (the code's doubles 1.0 and refillPerSecond / 1000).     *)
(* The limiter reads the system's wall clock, which may be set; real is    *)
(* the time that really passes.  Of a line the guards see whether it is    *)
(* empty or longer than MaxMessageBytes; what it says comes later.         *)
(***************************************************************************)
EXTENDS Integers, Sequences

CONSTANTS
  Burst,       \* requests a full bucket holds
  Unit,        \* cost of one request
  Refill,      \* refill per millisecond
  ClockSet,    \* values the wall clock may be set to ({}: never set)
  MaxTime,     \* bound on real
  MaxLines     \* bound on the lines the client sends

ASSUME GuardsAssumption ==
  /\ Burst \in Nat \ {0}
  /\ Unit \in Nat \ {0}
  /\ Refill \in Nat \ {0}
  /\ ClockSet \subseteq Nat
  /\ MaxTime \in Nat
  /\ MaxLines \in Nat

VARIABLES
  wall,     \* QDateTime::currentMSecsSinceEpoch()
  real,     \* milliseconds since the connection was accepted
  started,  \* m_started
  lastMs,   \* m_lastMs
  tokens,   \* m_tokens
  lines,    \* complete lines in the socket's buffer
  tail,     \* the unfinished line behind them
  pc,       \* the connection's socket and read loop
  replies,  \* rate_limit_error messages sent
  log       \* admitted requests, with the clock the limiter then held

clock == <<wall, real>>
bucket == <<started, lastMs, tokens>>
guardsVars == <<wall, real, started, lastMs, tokens, lines, tail, pc, replies, log>>

Line == {"empty", "text", "large"}
Tails == {"none", "small", "large"}

\* "notified": readyRead is to be emitted; "reading": inside the while loop
\* of onReadyRead; "refused" and "oversize": closed by rejectAbuse; "gone":
\* closed by the client.
Stages == {"idle", "notified", "reading", "refused", "oversize", "gone"}
OpenStages == {"idle", "notified", "reading"}

Full == Burst * Unit

GuardsInit ==
  /\ wall = 0 /\ real = 0
  /\ started = FALSE /\ lastMs = 0 /\ tokens = Full
  /\ lines = <<>> /\ tail = "none"
  /\ pc = "idle"
  /\ replies = 0
  /\ log = <<>>

-----------------------------------------------------------------------------
(* The clock.                                                              *)

Tick ==
  /\ pc \in OpenStages
  /\ real < MaxTime
  /\ real' = real + 1
  /\ wall' = wall + 1
  /\ UNCHANGED <<bucket, lines, tail, pc, replies, log>>

\* The administrator or NTP sets the system clock.
SetClock(t) ==
  /\ pc \in OpenStages
  /\ wall' = t
  /\ UNCHANGED <<real, bucket, lines, tail, pc, replies, log>>

-----------------------------------------------------------------------------
(* The token bucket.                                                       *)

\* Mutation: a refill replaces the tokens that are left.
Refilled_Replacing ==
  LET grown == (wall - lastMs) * Refill
  IN  IF started /\ wall > lastMs
      THEN IF grown < Full THEN grown ELSE Full
      ELSE tokens

\* The tokens after the refill at the start of allow.
Refilled ==
  LET grown == tokens + (wall - lastMs) * Refill
  IN  IF started /\ wall > lastMs
      THEN IF grown < Full THEN grown ELSE Full
      ELSE tokens

\* Mutation: m_lastMs is only set by the first request.
Mark_Stuck == IF ~started THEN wall ELSE lastMs

\* m_lastMs after allow; a clock that went back leaves it alone.
Mark == IF ~started \/ wall > lastMs THEN wall ELSE lastMs

\* allow(now): the last conjunct of each branch is the value it returns.
Allow(admitted) ==
  /\ started' = TRUE
  /\ lastMs' = Mark
  /\ \/ Refilled >= Unit /\ tokens' = Refilled - Unit /\ admitted
     \/ Refilled < Unit /\ tokens' = Refilled /\ ~admitted

-----------------------------------------------------------------------------
(* The bytes the client sends, and the read loop.                          *)

\* The event loop reads the socket only between two handlers, so what
\* arrives while onReadyRead runs waits for the next notification.
Receiving == pc \in {"idle", "notified"}

\* Bytes without a newline, up to or past the size limit.
ReceivePart(size) ==
  /\ Receiving
  /\ tail # "large" /\ tail # size
  /\ tail' = size
  /\ pc' = "notified"
  /\ UNCHANGED <<clock, bucket, lines, replies, log>>

\* A newline ends the line.
ReceiveNewline ==
  /\ Receiving
  /\ Len(log) + Len(lines) < MaxLines
  /\ lines' = Append(lines, CASE tail = "none"  -> "empty"
                              [] tail = "small" -> "text"
                              [] tail = "large" -> "large")
  /\ tail' = "none"
  /\ pc' = "notified"
  /\ UNCHANGED <<clock, bucket, replies, log>>

\* rejectAbuse: one explanation, then the socket is closed.
RejectAbuse(reason) ==
  /\ replies' = replies + 1
  /\ pc' = reason
  /\ UNCHANGED <<clock, log>>

\* onReadyRead begins: guard 1.
BeginRead ==
  /\ pc = "notified"
  /\ \/ /\ tail = "large" /\ lines = <<>>
        /\ RejectAbuse("oversize")
     \/ /\ tail # "large" \/ lines # <<>>
        /\ pc' = "reading"
        /\ UNCHANGED <<clock, replies, log>>
  /\ UNCHANGED <<bucket, lines, tail>>

\* Mutation: an empty line is left in the buffer.
SkipEmpty_Unread ==
  /\ pc = "reading" /\ lines # <<>> /\ Head(lines) = "empty"
  /\ UNCHANGED guardsVars

\* An empty line is skipped and costs nothing.
SkipEmpty ==
  /\ pc = "reading" /\ lines # <<>> /\ Head(lines) = "empty"
  /\ lines' = Tail(lines)
  /\ UNCHANGED <<clock, bucket, tail, pc, replies, log>>

\* Guard 2.
RejectLarge ==
  /\ pc = "reading" /\ lines # <<>> /\ Head(lines) = "large"
  /\ lines' = Tail(lines)
  /\ RejectAbuse("oversize")
  /\ UNCHANGED <<bucket, tail>>

\* Guard 3 lets the line pass: it is parsed and, if it is an object,
\* dispatched.  A line that is not JSON has cost a token too.
Admit ==
  /\ pc = "reading" /\ lines # <<>> /\ Head(lines) = "text"
  /\ Allow(TRUE)
  /\ lines' = Tail(lines)
  /\ log' = Append(log, [at |-> real, mark |-> Mark])
  /\ UNCHANGED <<clock, tail, pc, replies>>

\* Guard 3 refuses the line.
Refuse ==
  /\ pc = "reading" /\ lines # <<>> /\ Head(lines) = "text"
  /\ Allow(FALSE)
  /\ lines' = Tail(lines)
  /\ RejectAbuse("refused")
  /\ UNCHANGED tail

EndRead ==
  /\ pc = "reading" /\ lines = <<>>
  /\ pc' = "idle"
  /\ UNCHANGED <<clock, bucket, lines, tail, replies, log>>

\* The client closes the connection, or it is lost.
ClientCloses ==
  /\ pc = "idle"
  /\ pc' = "gone"
  /\ UNCHANGED <<clock, bucket, lines, tail, replies, log>>

-----------------------------------------------------------------------------

OnReadyRead ==
  BeginRead \/ SkipEmpty \/ RejectLarge \/ Admit \/ Refuse \/ EndRead

GuardsNext ==
  \/ Tick
  \/ \E t \in ClockSet : SetClock(t)
  \/ \E size \in {"small", "large"} : ReceivePart(size)
  \/ ReceiveNewline
  \/ OnReadyRead
  \/ ClientCloses

GuardsSpec == GuardsInit /\ [][GuardsNext]_guardsVars

\* The event loop delivers readyRead, and the loop runs to its end.
GuardsFairSpec == GuardsSpec /\ WF_guardsVars(OnReadyRead)

-----------------------------------------------------------------------------
(* What the server and a well-behaved client rely on.                      *)

Entry == [at : Nat, mark : Nat]

\* Types, and a bucket between empty and full.
GuardsTypeOK ==
  /\ wall \in Nat /\ real \in Nat
  /\ started \in BOOLEAN /\ lastMs \in Nat
  /\ tokens \in 0..Full
  /\ lines \in Seq(Line)
  /\ tail \in Tails
  /\ pc \in Stages
  /\ replies \in Nat
  /\ log \in Seq(Entry)

\* Between any two admitted requests the limiter lets through at most a full
\* bucket and what its clock has refilled meanwhile, wherever the window
\* begins and however often the clock is set.
WindowBound ==
  \A i, j \in DOMAIN log : i <= j =>
    (j - i + 1) * Unit <= Full + Refill * (log[j].mark - log[i].mark)

\* The refused request and the admitted ones since i exceed a full bucket
\* and the refill of a period of that length.
Exceeds(i, period) ==
  (Len(log) - i + 2) * Unit > Full + Refill * period

\* A connection is refused only when some window ending now has used up the
\* burst and the refill of the limiter's clock: the limiter never sheds a
\* connection too early.
RefusedOnlyWhenExceeded ==
  pc = "refused" => \E i \in DOMAIN log : Exceeds(i, lastMs - log[i].mark)

\* Complete lines do not stay in the buffer of an open connection: the loop
\* reads them all, or the connection is closed.
LinesAreRead == lines # <<>> ~> (lines = <<>> \/ pc \notin OpenStages)

-----------------------------------------------------------------------------
(* The inductive invariants of ServerProofs.                               *)

\* What every window has left over: the form of WindowBound that a step
\* preserves.
WindowLeft ==
  \A i \in DOMAIN log :
    /\ log[i].mark <= lastMs
    /\ (Len(log) - i + 1) * Unit + tokens
         <= Full + Refill * (lastMs - log[i].mark)

\* The bucket is full, or the window since it was last full is exact.
BucketExact ==
  \/ tokens = Full
  \/ \E i \in DOMAIN log :
       (Len(log) - i + 1) * Unit + tokens
         = Full + Refill * (lastMs - log[i].mark)

\* Both halves of the account of the bucket, and the two bounds they imply:
\* strong enough to be inductive.
BucketInv ==
  /\ ~started => log = <<>> /\ tokens = Full /\ lastMs = 0
  /\ WindowLeft
  /\ WindowBound
  /\ BucketExact
  /\ RefusedOnlyWhenExceeded

-----------------------------------------------------------------------------
(* Statements of the repository's comments and documents.                  *)

\* The bucket refills at a steady rate, so a connection that stays within
\* burst and rate is not refused.
PacedClientPasses ==
  pc = "refused" => \E i \in DOMAIN log : Exceeds(i, real - log[i].at)

=============================================================================
