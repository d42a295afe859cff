---------------------------- MODULE SpeechCache ----------------------------
(***************************************************************************)
(* The TTS worker's hot path: approved audio is generated before the       *)
(* worker serves (cmd/ttsworker) and is only ever looked up afterwards     *)
(* (ttsworker/worker.go handleJob, cache.go, inventory.go's version clock, *)
(* templates).  The source version may advance and a template may be       *)
(* withdrawn between any two steps of a job.                               *)
(*                                                                         *)
(* A cache identity is a template and the source version it was made for;  *)
(* text, language, model and voice are constant parts of it, and a request *)
(* that differs in one of them is a request for an identity that was never *)
(* generated.  Sizes are in units of the byte budget.  TTL expiry is a     *)
(* step; an entry is fresh or expired.  Each critical section of the codec *)
(* and of the clock is one step.                                           *)
(***************************************************************************)
EXTENDS Integers, Sequences, FiniteSets

CONSTANTS Speech,       \* template keys
          SpeechSize,   \* units of audio of each key ([Speech -> Nat])
          SpeechBudget, \* maxBytes
          SpeechJobs,   \* jobs of the pool
          LastVersion   \* bound on the source version

ASSUME SpeechAssumption ==
  /\ SpeechSize \in [Speech -> Nat \ {0}]
  /\ SpeechBudget \in Nat \ {0} /\ LastVersion \in Nat \ {0}

VARIABLES
  version,    \* clock.version
  purges,     \* advances whose listeners have not run yet
  catalogue,  \* status of each template
  items,      \* the entry of each cached identity
  lru,        \* the cached identities, most recently used first
  audioBytes, \* c.bytes
  serving,    \* the worker takes requests
  sjob,       \* each job: where it is and what it asks for
  spoken      \* what each job was answered

speechVars == << version, purges, catalogue, items, lru, audioBytes, serving, sjob, spoken >>

Identities == Speech \X (1..LastVersion)
\* The clock at Put (SourceVersionAtEntry), and whether the TTL has passed.
Entry == [at : 1..LastVersion, expired : BOOLEAN]

Listed(ids) == {ids[i] : i \in DOMAIN ids}

SpeechTypeOK ==
  /\ version \in 1..LastVersion
  /\ purges \subseteq 1..LastVersion
  /\ catalogue \in [Speech -> {"APPROVED", "WITHDRAWN"}]
  /\ DOMAIN items = Listed(lru) /\ DOMAIN items \subseteq Identities
  /\ \A id \in DOMAIN items : items[id] \in Entry
  /\ audioBytes \in Nat
  /\ serving \in BOOLEAN

SpeechInit ==
  /\ version = 1 /\ purges = {}
  /\ catalogue = [k \in Speech |-> "APPROVED"]
  /\ items = << >> /\ lru = << >> /\ audioBytes = 0
  /\ serving = FALSE
  /\ sjob = [j \in SpeechJobs |-> [at |-> "idle"]]
  /\ spoken = [j \in SpeechJobs |-> [state |-> "none"]]

Size(id) == SpeechSize[id[1]]
SizeOf(ids) ==
  LET total[n \in 0..Len(ids)] == IF n = 0 THEN 0 ELSE total[n - 1] + Size(ids[n])
  IN total[Len(ids)]
Without(ids, drop) == SelectSeq(ids, LAMBDA id : id \notin drop)

\* removeElement for every identity of drop.
RemoveElements(drop) ==
  /\ items' = [id \in DOMAIN items \ drop |-> items[id]]
  /\ lru' = Without(lru, drop)
  /\ audioBytes' = audioBytes - (SizeOf(lru) - SizeOf(Without(lru, drop)))

\* Put's last loop: the least recently used entries go until the budget holds;
\* an entry larger than the whole budget goes too.
EvictTail(ids) ==
  LET Fits(n) == SizeOf(SubSeq(ids, 1, n)) <= SpeechBudget
  IN SubSeq(ids, 1, CHOOSE n \in 0..Len(ids) : Fits(n) /\ \A m \in (n + 1)..Len(ids) : ~Fits(m))

\* Put replaces an entry of the same identity and stamps the current version.
Put(id) ==
  LET with == << id >> \o Without(lru, {id})
      left == EvictTail(with)
  IN /\ items' = [i \in (DOMAIN items \cup {id}) \cap Listed(left) |->
                   IF i = id THEN [at |-> version, expired |-> FALSE] ELSE items[i]]
     /\ lru' = left
     /\ audioBytes' = audioBytes - (SizeOf(lru) - SizeOf(left))

\* cmd/ttsworker: every template is synthesized and stored before serving.
Pregenerate(k) ==
  /\ ~serving
  /\ Put(<< k, version >>)
  /\ UNCHANGED << version, purges, catalogue, serving, sjob, spoken >>

ServeSpeech ==
  /\ ~serving /\ serving' = TRUE
  /\ UNCHANGED << version, purges, catalogue, items, lru, audioBytes, sjob, spoken >>

\* The clock advances; its listeners run after it has released its lock.
AdvanceVersion ==
  /\ serving /\ version < LastVersion
  /\ version' = version + 1
  /\ purges' = purges \cup {version + 1}
  /\ UNCHANGED << catalogue, items, lru, audioBytes, serving, sjob, spoken >>

\* handleSourceAdvance, called once per advance with the version it reads.
Purge(v) ==
  /\ v \in purges
  /\ \E read \in v..version : RemoveElements({id \in DOMAIN items : items[id].at < read})
  /\ purges' = purges \ {v}
  /\ UNCHANGED << version, catalogue, serving, sjob, spoken >>

Withdraw(k) ==
  /\ serving /\ catalogue[k] = "APPROVED"
  /\ catalogue' = [catalogue EXCEPT ![k] = "WITHDRAWN"]
  /\ UNCHANGED << version, purges, items, lru, audioBytes, serving, sjob, spoken >>

\* The TTL of an entry passes: nothing happens until somebody looks.
Expires(id) ==
  /\ ~items[id].expired
  /\ items' = [items EXCEPT ![id].expired = TRUE]
  /\ UNCHANGED << version, purges, catalogue, lru, audioBytes, serving, sjob, spoken >>

------------------------------------------------------------------------------
Emit(j, answer) ==
  /\ spoken' = [spoken EXCEPT ![j] = answer]
  /\ sjob' = [sjob EXCEPT ![j] = [at |-> "done"]]

\* handleJob, first part: the template must be known and not withdrawn.
CheckTemplate(j, k, v) ==
  /\ serving /\ sjob[j].at = "idle"
  /\ IF catalogue[k] = "WITHDRAWN"
     THEN Emit(j, [state |-> "STALE_VERSION"])
     ELSE /\ sjob' = [sjob EXCEPT ![j] = [at |-> "version", id |-> << k, v >>]]
          /\ UNCHANGED spoken
  /\ UNCHANGED << version, purges, catalogue, items, lru, audioBytes, serving >>

\* The request's source version must be the clock's.
CheckVersion(j) ==
  /\ sjob[j].at = "version"
  /\ IF sjob[j].id[2] # version
     THEN Emit(j, [state |-> "STALE_VERSION"])
     ELSE sjob' = [sjob EXCEPT ![j].at = "lookup"] /\ UNCHANGED spoken
  /\ UNCHANGED << version, purges, catalogue, items, lru, audioBytes, serving >>

StoredBefore(e) == version > e.at

\* A miss, or an entry that is live no more and is removed.
Misses(j) ==
  /\ RemoveElements({sjob[j].id})
  /\ Emit(j, [state |-> "AUDIO_UNAVAILABLE"])

\* A hit moves to the front.
Hits(j) ==
  /\ lru' = << sjob[j].id >> \o Without(lru, {sjob[j].id})
  /\ Emit(j, [state |-> "OK", id |-> sjob[j].id, current |-> version])
  /\ UNCHANGED << items, audioBytes >>

\* Mutation: the purge of an advance is trusted to have run.
GetTrustsPurge(j) ==
  /\ sjob[j].at = "lookup"
  /\ IF sjob[j].id \in DOMAIN items /\ ~items[sjob[j].id].expired THEN Hits(j) ELSE Misses(j)
  /\ UNCHANGED << version, purges, catalogue, serving >>

\* Get: a missing entry, an expired one or one stored before the current version
\* is AUDIO_UNAVAILABLE.
Get(j) ==
  LET id == sjob[j].id IN
  /\ sjob[j].at = "lookup"
  /\ IF id \in DOMAIN items /\ ~items[id].expired /\ ~StoredBefore(items[id])
     THEN Hits(j) ELSE Misses(j)
  /\ UNCHANGED << version, purges, catalogue, serving >>

SpeechNext ==
  \/ \E k \in Speech : Pregenerate(k) \/ Withdraw(k)
  \/ ServeSpeech \/ AdvanceVersion
  \/ \E v \in purges : Purge(v)
  \/ \E id \in DOMAIN items : Expires(id)
  \/ \E j \in SpeechJobs :
       \/ \E k \in Speech, v \in 1..LastVersion : CheckTemplate(j, k, v)
       \/ CheckVersion(j) \/ Get(j)

SpeechSpec == SpeechInit /\ [][SpeechNext]_speechVars

------------------------------------------------------------------------------
\* Audio that is spoken was made for the source version that was current when it
\* was looked up, although the version is checked before the lookup and the
\* cache is purged only some time after the clock has advanced (Get).
SpokenIsCurrent ==
  \A j \in SpeechJobs : spoken[j].state = "OK" => spoken[j].id[2] = spoken[j].current

==============================================================================
