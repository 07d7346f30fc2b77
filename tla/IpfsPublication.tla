---------------------------- MODULE IpfsPublication ----------------------------
(* How the versions of one article get to IPFS: a message per version with new
   content (_runPostProcessing, createNewArticleVersion of
   connectors/article/publicationService.ts), handed to Lambdas at least once, each
   of which uploads a page and records its hash, and for a page behind a paywall
   the key that opens it (publish of ipfsPublicationService.ts). *)
EXTENDS Naturals, FiniteSets

CONSTANTS
  Worker,      \* Lambdas at once
  MaxVersions, \* versions there may be
  MaxFaults    \* lost messages, failed invocations, time-outs

VARIABLES
  versions, \* per version: its content, and the upload it has the hash of
  last,     \* the latest version
  paywall,  \* the article is behind the paywall of its circle
  secret,   \* article_circle.secret: the upload whose key it is, 0 if none
  uploads,  \* per upload: whose content it is
  queued,   \* versions whose message is in the queue
  worker,   \* per Lambda: step, version, upload
  faults,
  past      \* not in the code, per version: "asked", "inherited", "lost", "outrun"

ipfsVars == <<versions, last, paywall, secret, uploads, queued, worker, faults, past>>

Version == 1..MaxVersions
NoVersion == [content |-> 0, hash |-> 0]
Idle == [step |-> "idle", version |-> 0, upload |-> 0]

\* As many as can be referred to at once; the others are forgotten.
Upload == 1..(MaxVersions + Cardinality(Worker) + 1)
Referred == {secret} \cup {versions[v].hash : v \in Version}
              \cup {worker[w].upload : w \in Worker}
NewUpload == CHOOSE u \in Upload \ Referred : \A o \in Upload \ Referred : u <= o

Init ==
  /\ versions = [v \in Version |-> IF v = 1 THEN [content |-> 1, hash |-> 0] ELSE NoVersion]
  /\ last = 1
  /\ paywall \in BOOLEAN
  /\ secret = 0
  /\ uploads = [u \in Upload |-> 0]
  /\ queued = {1}
  /\ worker = [w \in Worker |-> Idle]
  /\ faults = 0
  /\ past = [v \in Version |-> IF v = 1 THEN {"asked"} ELSE {}]

\* A new version starts from all the columns of the one before, its hashes too.
Inherited(hash) == hash

\* createNewArticleVersion; only new content is sent to the queue.
Revise(new) ==
  LET v == last + 1 IN
  /\ last < MaxVersions
  /\ last' = v
  /\ versions' = [versions EXCEPT ![v] =
       [content |-> IF new THEN v ELSE versions[last].content,
        hash |-> Inherited(versions[last].hash)]]
  /\ queued' = queued \cup IF new THEN {v} ELSE {}
  /\ past' = [past EXCEPT ![v] =
       (IF new THEN {"asked"} ELSE {}) \cup (past[last] \cap {"outrun"})
         \cup IF versions'[v].hash # 0 /\ (new \/ "inherited" \in past[last])
              THEN {"inherited"} ELSE {}]
  /\ UNCHANGED <<paywall, secret, uploads, worker, faults>>

\* Sending is not awaited, the server may stop before; or SQS gives it up.
LoseMessage(v) ==
  /\ v \in queued /\ faults < MaxFaults
  /\ \A w \in Worker : worker[w].version # v
  /\ faults' = faults + 1
  /\ queued' = queued \ {v}
  /\ past' = [past EXCEPT ![v] = @ \cup {"lost"}]
  /\ UNCHANGED <<versions, last, paywall, secret, uploads, worker>>

-----------------------------------------------------------------------------
(* publish.  A message stays in the queue until the Lambda has answered, and may
   be handed to another one meanwhile. *)

Unpublished(v) == versions[v].hash = 0

Receive(w, v) ==
  /\ worker[w] = Idle /\ v \in queued
  /\ IF Unpublished(v)
     THEN /\ worker' = [worker EXCEPT ![w] = [step |-> "upload", version |-> v, upload |-> 0]]
          /\ UNCHANGED queued
     ELSE queued' = queued \ {v} /\ UNCHANGED worker
  /\ UNCHANGED <<versions, last, paywall, secret, uploads, faults, past>>

\* With assets at first, without them the second time; each with a key of its own.
UploadPage(w) ==
  LET u == NewUpload IN
  /\ worker[w].step \in {"upload", "retry"}
  /\ uploads' = [x \in Upload |->
       IF x = u THEN versions[worker[w].version].content
       ELSE IF x \in Referred THEN uploads[x] ELSE 0]
  /\ worker' = [worker EXCEPT ![w].step = "record", ![w].upload = u]
  /\ UNCHANGED <<versions, last, paywall, secret, queued, faults, past>>

\* The first upload takes too long; it may be at IPFS all the same, but its key
\* and its hash are lost.
TimeOut(w) ==
  /\ worker[w].step = "upload" /\ faults < MaxFaults
  /\ faults' = faults + 1
  /\ worker' = [worker EXCEPT ![w].step = "retry"]
  /\ UNCHANGED <<versions, last, paywall, secret, uploads, queued, past>>

KeyOf_FirstOnly(u) == IF secret = 0 THEN u ELSE secret

\* The secret of the circle is replaced whatever version it is for.
KeyOf(u) == u

RecordedFor_Latest(v) == last

RecordedFor(v) == v

\* One transaction.
Record(w) ==
  LET v == worker[w].version
      u == worker[w].upload
  IN /\ worker[w].step = "record"
     /\ versions' = [versions EXCEPT ![RecordedFor(v)].hash = u]
     /\ secret' = IF paywall THEN KeyOf(u) ELSE secret
     /\ queued' = queued \ {v}
     /\ worker' = [worker EXCEPT ![w] = Idle]
     /\ past' = [x \in Version |->
          IF x > v /\ x <= last /\ versions[x].hash # 0 THEN past[x] \cup {"outrun"}
          ELSE IF x = v THEN past[x] \ {"inherited", "outrun"} ELSE past[x]]
     /\ UNCHANGED <<last, paywall, uploads, faults>>

Failed_Dropped(q, v) == q \ {v}

\* batchItemFailures: what failed stays in the queue.
Failed(q, v) == q

\* It throws, or does not answer in time: the message is handed out again.
Fail(w) ==
  /\ worker[w] # Idle /\ faults < MaxFaults
  /\ faults' = faults + 1
  /\ queued' = Failed(queued, worker[w].version)
  /\ worker' = [worker EXCEPT ![w] = Idle]
  /\ UNCHANGED <<versions, last, paywall, secret, uploads, past>>

Next ==
  \/ \E new \in BOOLEAN : Revise(new)
  \/ \E v \in Version : LoseMessage(v)
  \/ \E w \in Worker : \/ \E v \in Version : Receive(w, v)
                       \/ UploadPage(w) \/ TimeOut(w) \/ Record(w) \/ Fail(w)

Spec == Init /\ [][Next]_ipfsVars

\* SQS hands out what is queued; an invocation goes on until it answers or fails.
Fairness ==
  \A w \in Worker : /\ WF_ipfsVars(UploadPage(w)) /\ WF_ipfsVars(Record(w))
                    /\ \A v \in Version : WF_ipfsVars(Receive(w, v))

-----------------------------------------------------------------------------
(* Versions and steps are those of the code. *)
TypeOK ==
  /\ \A v \in Version : versions[v].content \in 0..MaxVersions
                        /\ versions[v].hash \in 0..Cardinality(Upload)
  /\ last \in Version /\ secret \in 0..Cardinality(Upload) /\ queued \subseteq Version
  /\ \A w \in Worker : worker[w].step \in {"idle", "upload", "retry", "record"}
  /\ \A v \in Version : past[v] \subseteq {"asked", "inherited", "lost", "outrun"}

(* The hash a version has is that of its own content (ipfsPublicationService.ts:
   258-364), unless it was inherited from a version with other content
   (publicationService.ts:444-448): then it is never uploaded, as its hash says it
   was. *)
HashIsOfContent ==
  \A v \in 1..last :
    versions[v].hash # 0 =>
      (uploads[versions[v].hash] # versions[v].content) = ("inherited" \in past[v])

(* The key that readers of the circle are handed opens the page of the latest
   version, however often its message was delivered (ipfsPublicationService.ts:
   357-368), unless an older version was uploaded after it. *)
KeyOpensLatest ==
  paywall /\ versions[last].hash # 0 /\ "outrun" \notin past[last] =>
    secret = versions[last].hash

(* New content gets a hash in the end (ipfsPublication.ts:14-45), unless its message
   was lost. *)
VersionsGetHash ==
  \A v \in Version :
    "asked" \in past[v] ~> versions[v].hash # 0 \/ "lost" \in past[v]
=============================================================================
