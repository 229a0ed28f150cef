--------------------------- MODULE CertificateCache ---------------------------
(***************************************************************************)
(* CertificateCache (transport/crypt.rs): the certificate every transport  *)
(* is made with.  Generating one takes seconds and is done by a thread of  *)
(* its own; whoever asks meanwhile shares its RegenerateContext.           *)
(*                                                                         *)
(* Initializers are the calls of initialize_webrtc (lib.rs), which hold    *)
(* the lock of the cache while they ask and block on the answer:           *)
(*   start -> locked -> asked (still locked) -> polling <-> waiting -> done *)
(* Each spawns a timer task that asks once a day: none, sleeping, polling, *)
(* waiting.                                                                *)
(*                                                                         *)
(* The cache is static, so the weak references to it never fail.           *)
(***************************************************************************)
EXTENDS Naturals, FiniteSets

CONSTANTS
  Initializers,
  MaxGenerations   \* bound of the certificates that are generated

Timer(i) == <<"timer", i>>
Timers == {Timer(i) : i \in Initializers}
Tasks  == Initializers \cup Timers

Free == "free"     \* nobody holds the lock of the cache
None == 0          \* no generation

ASSUME CacheAssumption ==
  /\ MaxGenerations \in Nat \ {0}
  /\ Initializers \cap Timers = {} /\ Free \notin Initializers

Generations == 1 .. MaxGenerations

VARIABLES
  cache_lock,
  current_context,    \* [of, ok]: the generation it comes from and whether it is a certificate
  current_regenerate, \* the generation under way, or None
  started,            \* generations so far
  worker,             \* generation -> its thread: none, generating, generated, installed, done
  outcome,            \* generation -> it succeeded
  result,             \* generation -> its RegenerateContext: none, ok or error
  wakers,             \* generation -> tasks to wake
  step,               \* task -> see above
  asked,              \* task -> the generation it waits for or was answered by
  answer              \* task -> its last answer: none, ok or error

threads   == <<worker, outcome>>
contexts  == <<result, wakers>>
tasks     == <<step, asked, answer>>
cacheVars == <<cache_lock, current_context, current_regenerate, started, threads, contexts, tasks>>

CacheInit ==
  /\ cache_lock = Free
  /\ current_context = [of |-> None, ok |-> FALSE]
  /\ current_regenerate = None /\ started = 0
  /\ worker = [g \in Generations |-> "none"]
  /\ outcome = [g \in Generations |-> FALSE]
  /\ result = [g \in Generations |-> "none"]
  /\ wakers = [g \in Generations |-> {}]
  /\ step = [t \in Tasks |-> IF t \in Initializers THEN "start" ELSE "none"]
  /\ asked = [t \in Tasks |-> None]
  /\ answer = [t \in Tasks |-> "none"]

-----------------------------------------------------------------------------

\* regenerate_certificate, called with the lock of the cache: join the
\* generation under way or start the thread of a new one.
RegenerateCertificate(t) ==
  IF current_regenerate # None
  THEN /\ asked' = [asked EXCEPT ![t] = current_regenerate]
       /\ UNCHANGED <<started, current_regenerate, worker>>
  ELSE /\ started < MaxGenerations
       /\ started' = started + 1
       /\ current_regenerate' = started + 1
       /\ worker' = [worker EXCEPT ![started + 1] = "generating"]
       /\ asked' = [asked EXCEPT ![t] = started + 1]

Lock(i) ==
  /\ step[i] = "start" /\ cache_lock = Free
  /\ cache_lock' = i
  /\ step' = [step EXCEPT ![i] = "locked"]
  /\ UNCHANGED <<current_context, current_regenerate, started, threads, contexts, asked, answer>>

\* initialize: spawn the timer task and ask for a certificate.
Initialize(i) ==
  /\ step[i] = "locked"
  /\ RegenerateCertificate(i)
  /\ step' = [step EXCEPT ![i] = "asked", ![Timer(i)] = "sleeping"]
  /\ UNCHANGED <<cache_lock, current_context, outcome, contexts, answer>>

FaultyUnlock(i) ==
  /\ step[i] = "asked"
  /\ step' = [step EXCEPT ![i] = "polling"]
  /\ UNCHANGED <<cache_lock, current_context, current_regenerate, started, threads, contexts,
                 asked, answer>>

\* "else a deadlock would occur": the lock is dropped before the call blocks.
Unlock(i) ==
  /\ step[i] = "asked"
  /\ cache_lock' = Free
  /\ step' = [step EXCEPT ![i] = "polling"]
  /\ UNCHANGED <<current_context, current_regenerate, started, threads, contexts, asked, answer>>

\* A day has passed.
TimerFires(t) ==
  /\ step[t] = "sleeping" /\ cache_lock = Free
  /\ RegenerateCertificate(t)
  /\ step' = [step EXCEPT ![t] = "polling"]
  /\ UNCHANGED <<cache_lock, current_context, outcome, contexts, answer>>

\* A poll of the future looks for the result and leaves its waker under one lock.
PollFuture(t) ==
  /\ step[t] = "polling"
  /\ LET g == asked[t]
     IN  IF result[g] # "none"
         THEN /\ answer' = [answer EXCEPT ![t] = result[g]]
              /\ step' = [step EXCEPT ![t] = IF t \in Initializers THEN "done" ELSE "sleeping"]
              /\ UNCHANGED wakers
         ELSE /\ wakers' = [wakers EXCEPT ![g] = @ \cup {t}]
              /\ step' = [step EXCEPT ![t] = "waiting"]
              /\ UNCHANGED answer
  /\ UNCHANGED <<cache_lock, current_context, current_regenerate, started, threads, result, asked>>

\* generate_ssl_components comes to an end, one way or the other.
Generate(g) ==
  /\ worker[g] = "generating"
  /\ worker' = [worker EXCEPT ![g] = "generated"]
  /\ \E ok \in BOOLEAN : outcome' = [outcome EXCEPT ![g] = ok]
  /\ UNCHANGED <<cache_lock, current_context, current_regenerate, started, contexts, tasks>>

FaultyInstall(g) ==
  /\ worker[g] = "generated" /\ cache_lock = Free
  /\ worker' = [worker EXCEPT ![g] = "installed"]
  /\ current_context' = [of |-> g, ok |-> outcome[g]]
  /\ UNCHANGED <<cache_lock, current_regenerate, started, outcome, contexts, tasks>>

\* The thread replaces the certificate, by an error if it failed.
Install(g) ==
  /\ worker[g] = "generated" /\ cache_lock = Free
  /\ worker' = [worker EXCEPT ![g] = "installed"]
  /\ current_context' = [of |-> g, ok |-> outcome[g]]
  /\ current_regenerate' = None
  /\ UNCHANGED <<cache_lock, started, outcome, contexts, tasks>>

\* Then it publishes the result and wakes those who wait.
Publish(g) ==
  /\ worker[g] = "installed"
  /\ worker' = [worker EXCEPT ![g] = "done"]
  /\ result' = [result EXCEPT ![g] = IF outcome[g] THEN "ok" ELSE "error"]
  /\ step' = [t \in Tasks |->
                IF t \in wakers[g] /\ step[t] = "waiting" THEN "polling" ELSE step[t]]
  /\ UNCHANGED <<cache_lock, current_context, current_regenerate, started, outcome, wakers, asked, answer>>

-----------------------------------------------------------------------------

WorkerStep(g) == Generate(g) \/ Install(g) \/ Publish(g)
CallerStep(t) == Lock(t) \/ Initialize(t) \/ Unlock(t)

CacheNext ==
  \/ \E i \in Initializers : CallerStep(i)
  \/ \E t \in Timers : TimerFires(t)
  \/ \E t \in Tasks : PollFuture(t)
  \/ \E g \in Generations : WorkerStep(g)

\* Threads run, and tasks that are woken are polled; nobody has to initialize.
CacheFairness ==
  /\ \A i \in Initializers : WF_cacheVars(Initialize(i)) /\ WF_cacheVars(Unlock(i))
  /\ \A t \in Tasks : WF_cacheVars(PollFuture(t))
  /\ \A g \in Generations : WF_cacheVars(WorkerStep(g))

CacheSpec == CacheInit /\ [][CacheNext]_cacheVars /\ CacheFairness

-----------------------------------------------------------------------------
(* Properties.                                                             *)

CacheTypeOK ==
  /\ cache_lock \in Initializers \cup {Free}
  /\ current_context \in [of : Generations \cup {None}, ok : BOOLEAN]
  /\ current_regenerate \in Generations \cup {None}
  /\ started \in Generations \cup {0}
  /\ worker \in [Generations -> {"none", "generating", "generated", "installed", "done"}]
  /\ outcome \in [Generations -> BOOLEAN]
  /\ result \in [Generations -> {"none", "ok", "error"}]
  /\ wakers \in [Generations -> SUBSET Tasks]
  /\ step \in [Tasks -> {"none", "start", "locked", "asked", "polling", "waiting", "done", "sleeping"}]
  /\ asked \in [Tasks -> Generations \cup {None}]
  /\ answer \in [Tasks -> {"none", "ok", "error"}]

\* At most one certificate is being generated, and it is the one that callers
\* join (crypt.rs:164-178, 204).
OneAtATime ==
  \A g \in Generations : worker[g] \in {"generating", "generated"} <=> current_regenerate = g

\* Who is told that there is a certificate finds the one it asked for, or what
\* came after it: never the one from before (crypt.rs:193-221).
AnsweredIsInstalled ==
  \A t \in Tasks :
    answer[t] # "none" /\ step[t] \in {"done", "sleeping"} =>
      /\ current_context.of >= asked[t]
      /\ current_context.of = asked[t] => (current_context.ok <=> answer[t] = "ok")

CertificateSound == OneAtATime /\ AnsweredIsInstalled

\* Whoever waits for a certificate is answered: the worker can take the lock,
\* and no waker is left behind between a look and the publication
\* (crypt.rs:193-221, 235-243, lib.rs:39-45).
Answered ==
  \A t \in Tasks : step[t] \in {"polling", "waiting"} ~> step[t] \in {"done", "sleeping"}
=============================================================================
