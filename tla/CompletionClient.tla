--------------------------- MODULE CompletionClient ---------------------------
(***************************************************************************)
(* A completion over HTTP, as the clients of the adapters make it:         *)
(* defaultGrokClient and defaultQwenClient ("chat": retries, Retry-After,  *)
(* jitter), defaultGrokImageClient ("image": retries without either) and   *)
(* the Claude and OpenAI-compatible clients ("single": one post).  The     *)
(* timeout of a post ends with its headers; a body may stall after that.   *)
(***************************************************************************)
EXTENDS Integers, Sequences

CONSTANTS
    RetryLimits,  \* maxRetries a caller may configure (any integer)
    Delays,       \* baseDelayMs and maxDelayMs a caller may configure
    Jitters,      \* jitterRatio a caller may configure, in hundredths
    HeaderDelays  \* what a Retry-After header may say, in milliseconds

ASSUME ClientAssumption ==
    /\ RetryLimits \cup Delays \cup Jitters \subseteq Int
    /\ HeaderDelays \subseteq Nat

VARIABLES
    client,    \* the kind of client and its normalized configuration
    phase,     \* where the request is
    attempt,   \* retries made so far
    header,    \* Retry-After of the last answer, None without one
    sleeping,  \* the delay the request waits for
    waits,     \* the delays computed without a Retry-After (history)
    posts,     \* posts made (history)
    stalled    \* a body stopped arriving (history)

clientVars == <<client, phase, attempt, header, sleeping, waits, posts, stalled>>

NoHeader == -1
Status == {"ok", "retryable", "fatal"}
Phase == {"idle", "posting", "sleeping", "reading", "readingError", "returned", "threw"}
Ended == phase \in {"returned", "threw"}

AtLeast(low, x) == IF x < low THEN low ELSE x
AtMost(high, x) == IF x > high THEN high ELSE x

(* Mutant of JitterRatio: a ratio above one is taken as it is. *)
JitterUnclamped(ratio) == AtLeast(0, ratio)
JitterRatio(ratio) == AtLeast(0, AtMost(100, ratio))

(* normalizeGrokRetryConfig(), normalizeQwenRetryConfig() and              *)
(* normalizeImageRetryConfig(); a client that does not retry has no limit. *)
Normalized(kind, retries, base, max, jitter) ==
    [kind |-> kind,
     maxRetries |-> IF kind = "single" THEN 0 ELSE AtLeast(0, retries),
     base |-> AtLeast(1, base),
     max |-> AtLeast(1, max),
     jitter |-> IF kind = "chat" THEN JitterRatio(jitter) ELSE 0]

ClientInit ==
    /\ client = [kind |-> "none"]
    /\ phase = "idle" /\ attempt = 0
    /\ header = NoHeader /\ sleeping = 0
    /\ waits = <<>> /\ posts = 0 /\ stalled = FALSE

-----------------------------------------------------------------------------
(* A client is asked for a completion, and posts. *)
Complete(kind, retries, base, max, jitter) ==
    /\ phase = "idle"
    /\ client' = Normalized(kind, retries, base, max, jitter)
    /\ phase' = "posting"
    /\ posts' = 1
    /\ UNCHANGED <<attempt, header, sleeping, waits, stalled>>

(* createCompletion() of the five clients, and what each is configured by. *)
CompleteGrok(retries, base, max, jitter) == Complete("chat", retries, base, max, jitter)
CompleteQwen(retries, base, max, jitter) == Complete("chat", retries, base, max, jitter)
GenerateGrokImage(retries, base, max) == Complete("image", retries, base, max, 0)
CompleteClaude == Complete("single", 0, 1, 1, 0)
CompleteOpenAICompatible == Complete("single", 0, 1, 1, 0)

(* shouldRetryXai(), shouldRetryDashScope() and shouldRetryXaiImage(): an  *)
(* answer whose status is in retryStatuses; a mutant allows one too many.  *)
ShouldRetryOnceMore(status) == status = "retryable" /\ attempt <= client.maxRetries
ShouldRetry(status) == status = "retryable" /\ attempt < client.maxRetries

(* computeGrokBackoffMs(), computeQwenBackoffMs(), computeImageBackoffMs():*)
(* Math.round rounds halves up, and the total is capped once more.         *)
BackoffUncapped(a) ==
    LET exponential == AtMost(client.max, client.base * 2 ^ a)
    IN  exponential + (exponential * client.jitter * (a % 3) + 150) \div 300
Backoff(a) ==
    LET exponential == AtMost(client.max, client.base * 2 ^ a)
        jitter == (exponential * client.jitter * (a % 3) + 150) \div 300
    IN  AtMost(client.max, exponential + jitter)

(* The headers of an answer arrive: the timer is cleared, and the loop     *)
(* sleeps and posts again, or goes on to read the body.                    *)
Answer(status, after) ==
    /\ phase = "posting"
    /\ header' = after
    /\ IF ShouldRetry(status)
       THEN LET useHeader == client.kind = "chat" /\ after # NoHeader
                delay == IF useHeader THEN after ELSE Backoff(attempt)
            IN  /\ sleeping' = delay
                /\ waits' = IF useHeader THEN waits ELSE Append(waits, delay)
                /\ phase' = "sleeping"
       ELSE /\ phase' = IF status = "ok" THEN "reading" ELSE "readingError"
            /\ UNCHANGED <<sleeping, waits>>
    /\ UNCHANGED <<client, attempt, posts, stalled>>

(* The sleep is over. *)
PostAgain ==
    /\ phase = "sleeping"
    /\ attempt' = attempt + 1
    /\ posts' = posts + 1
    /\ phase' = "posting"
    /\ UNCHANGED <<client, header, sleeping, waits, stalled>>

(* Mutant of PostFails: the signal of the timer is not handed to fetch. *)
PostOutlivesTimeout == phase = "posting" /\ UNCHANGED clientVars

(* The timer aborts the post, or fetch rejects: nothing catches it. *)
PostFails ==
    /\ phase = "posting"
    /\ phase' = "threw"
    /\ UNCHANGED <<client, attempt, header, sleeping, waits, posts, stalled>>

(* The body arrives and is read: an answer without choices, or that is not *)
(* JSON, throws.  safeReadText() swallows the failure of an error's body.  *)
ReadBody ==
    /\ phase \in {"reading", "readingError"} /\ ~stalled
    /\ phase' \in (IF phase = "reading" THEN {"returned", "threw"} ELSE {"threw"})
    /\ UNCHANGED <<client, attempt, header, sleeping, waits, posts, stalled>>

(* The body stops arriving while the connection stays open. *)
BodyStalls ==
    /\ phase \in {"reading", "readingError"} /\ ~stalled
    /\ stalled' = TRUE
    /\ UNCHANGED <<client, phase, attempt, header, sleeping, waits, posts>>

ClientNext ==
    \/ \E retries \in RetryLimits, base, max \in Delays :
          \/ \E jitter \in Jitters : \/ CompleteGrok(retries, base, max, jitter)
                                     \/ CompleteQwen(retries, base, max, jitter)
          \/ GenerateGrokImage(retries, base, max)
    \/ CompleteClaude \/ CompleteOpenAICompatible
    \/ \E status \in Status, after \in HeaderDelays \cup {NoHeader} : Answer(status, after)
    \/ PostAgain \/ PostFails \/ ReadBody \/ BodyStalls

(* Timers fire: the sleep ends and the timeout aborts a post.  A body that *)
(* keeps arriving is read to its end.                                      *)
ClientFairness ==
    /\ WF_clientVars(PostAgain) /\ WF_clientVars(PostFails)
    /\ WF_clientVars(ReadBody)

ClientSpec == ClientInit /\ [][ClientNext]_clientVars
ClientFairSpec == ClientSpec /\ ClientFairness

-----------------------------------------------------------------------------
(* Properties. *)

ClientTypeOK ==
    /\ phase # "idle" => /\ client.maxRetries \in Nat
                         /\ {client.base, client.max} \subseteq Nat \ {0}
                         /\ client.jitter \in 0..100
    /\ phase \in Phase /\ attempt \in Nat
    /\ header \in HeaderDelays \cup {NoHeader} /\ sleeping \in Nat
    /\ waits \in Seq(Nat) /\ posts \in Nat /\ stalled \in BOOLEAN

(* Whatever the caller configures, the delays the client computes itself   *)
(* never shrink from one retry to the next and never pass maxDelayMs,      *)
(* although the jitter of every third retry falls back to nothing.         *)
BackoffGrowsToItsCap ==
    \A i \in DOMAIN waits :
        /\ waits[i] <= client.max
        /\ i > 1 => waits[i - 1] <= waits[i]

(* A request posts at most once more than it may retry, whatever answers   *)
(* it gets; a client without retries posts once.                           *)
PostsAreBounded == phase # "idle" => posts <= client.maxRetries + 1

(* A request ends, unless the body of an answer stops arriving: every post *)
(* is under a timeout, retries run out, and errors are thrown.             *)
RequestsEndUnlessStalled == phase = "posting" ~> Ended \/ stalled

(* Delays and posts stay within what the caller configured.                *)
ClientInv == ClientTypeOK /\ BackoffGrowsToItsCap /\ PostsAreBounded
=============================================================================
