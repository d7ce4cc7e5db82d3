---------------------------- MODULE QueryService ----------------------------
(***************************************************************************)
(* One server process, from the request to the response                    *)
(* (tesseract-api/src/http.rs, grpc.rs, main.rs), over the executor and    *)
(* the insert path of the storage engine.                                  *)
(*                                                                         *)
(* A client has one request at a time.  The handlers of concurrent         *)
(* requests interleave where they await or take another lock.  A client    *)
(* can leave at any time: axum and tonic then drop the handler at the      *)
(* await it is in, and what it has done stays; only the task of a gRPC     *)
(* query is spawned and runs on.  The tiers behind the hot store are in    *)
(* module StorageEngine, the index and the Merkle tier in VectorIndex.     *)
(***************************************************************************)
EXTENDS QueryExecutor, RateLimiter, Authentication, Embedding

CONSTANTS HttpClients, GrpcClients,
          Configs,            \* merkle_enabled, topological, auth mode and embedder
          HeaderSets,         \* credentials a request may carry
          Texts,              \* the query texts, a sequence
          Entries,            \* the vectors to insert, a sequence: id, vector, length, metadata
          EmbeddedVector,     \* what the embedding service answers
          Clicks,             \* clicked and query vectors of a feedback call
          NoUser,
          ChannelCapacity,    \* mpsc::channel(4)
          MaxRequests, MaxClicks,  \* bounds
          MaxOverlapping      \* bound: the first so many requests may overlap others

\* A header is given once or not at all; the numbers of a query are unsigned;
\* clicked and query vectors are normalized.
ASSUME HeadersAssumption ==
  \A h \in HeaderSets : /\ h.key = <<>> \/ h.key = <<h.key[1]>>
                        /\ h.token = <<>> \/ h.token = <<h.token[1]>>
ASSUME TextsAssumption ==
  /\ Len(Texts) \in Nat /\ DOMAIN Texts = 1..Len(Texts)
  /\ \A t \in DOMAIN Texts : \A i \in DOMAIN Texts[t].clauses :
       ClauseOf(Texts[t].clauses[i].keyword) \in {"LIMIT", "OFFSET", "WITHIN"}
         => Texts[t].clauses[i].arg \in Nat
ASSUME ClicksAssumption == \A k \in Clicks : k.clicked \in -1..1 /\ k.query \in -1..1
ASSUME EntriesAssumption ==
  \A e \in DOMAIN Entries :
    /\ Entries[e].vector \in Int /\ Entries[e].length \in Nat
    /\ \A f \in numerical_fields \cup DOMAIN numerical_buckets :
         HasNumber(Entries[e].metadata, f) => Entries[e].metadata[f][1].v \in Int
ASSUME ChannelAssumption == ChannelCapacity \in Nat \ {0}

Clients == HttpClients \cup GrpcClients

VARIABLES config,
          phase,      \* "serving", "draining" after the signal, "stopped"
          conn,       \* client -> its request
          log,        \* what the write-ahead log holds: entry, entitlement of the
                      \* insert, and how many trackers have counted it
          requests, clicks

storage == <<index, log, centroids, correlations, buckets, poisoned>>
limiter == <<windows, admitted>>
vars == <<config, phase, conn, storage, limiter, footprints, requests, clicks>>

\* calls: embedding calls made; entitled, answer and results: history, the right
\* to an answer, what the embedding service said before the back-off, and the
\* results being streamed.  A response, whatever it says, ends the request.
IdleConn == [stage |-> "idle", entitled |-> TRUE, entry |-> 0, pos |-> 0,
             text |-> 0, user |-> NoUser, vector |-> 0, calls |-> 0, answer |-> "none", scans |-> <<>>,
             results |-> <<>>, out |-> <<>>, channel |-> <<>>, received |-> <<>>, gone |-> FALSE]
\* A request past its middlewares.
Accepted(headers) == [IdleConn EXCEPT !.stage = "body", !.entitled = Entitled(config.auth, headers)]

Executing == {"embed", "backoff", "scan"}
Tracking == {"centroids", "correlations", "buckets"}

Init ==
  /\ config \in Configs
  /\ phase = "serving"
  /\ conn = [c \in Clients |-> IdleConn]
  /\ index = [i \in Ids |-> <<>>] /\ log = <<>>
  /\ BiasInit /\ LimiterInit /\ EpisodicInit
  /\ requests = 0 /\ clicks = 0

Put(c, r) == conn' = [conn EXCEPT ![c] = r]
MayStart == /\ requests < MaxRequests
            /\ requests < MaxOverlapping \/ \A c \in Clients : conn[c].stage = "idle"
At(c, stage) == phase # "stopped" /\ conn[c].stage = stage

-----------------------------------------------------------------------------
(* The front ends. *)

\* rate_limit_middleware: the server is started without connect info, so the
\* address is the forwarding header's, and every other client is localhost.
ip_of(forwarded) == IF forwarded = <<>> THEN Localhost ELSE forwarded[1]

\* The HTTP middlewares: the limit for every route, credentials for /query and
\* /insert only; the other routes report constants.
HttpRequest(c, forwarded, headers, protected) ==
  /\ phase = "serving" /\ conn[c].stage = "idle" /\ MayStart
  /\ requests' = requests + 1
  /\ check(ip_of(forwarded))
  /\ Put(c, IF Allowed(ip_of(forwarded)) /\ protected /\ authenticate(config.auth, headers) = Ok
            THEN Accepted(headers) ELSE IdleConn)
  /\ UNCHANGED <<config, phase, storage, footprints, clicks>>

\* The gRPC service has no limit, and takes requests until main returns.
GrpcRequest(c, headers) ==
  /\ At(c, "idle") /\ MayStart
  /\ requests' = requests + 1
  /\ Put(c, IF authenticate(config.auth, headers) = Ok THEN Accepted(headers) ELSE IdleConn)
  /\ UNCHANGED <<config, phase, storage, limiter, footprints, clicks>>

\* Only the HTTP body names a user.
UserOf(c, user) == IF c \in HttpClients THEN user ELSE NoUser

\* A body that does not decode; for gRPC metadata that is not JSON.
BadBody(c) ==
  /\ At(c, "body")
  /\ Put(c, IdleConn)
  /\ UNCHANGED <<config, phase, storage, limiter, footprints, requests, clicks>>

-----------------------------------------------------------------------------
(* insert_handler, TesseractQueryService::insert and StorageEngine::insert. *)

StartInsert(c, e) ==
  /\ At(c, "body")
  /\ Put(c, [conn[c] EXCEPT !.stage = "log", !.entry = e])
  /\ UNCHANGED <<config, phase, storage, limiter, footprints, requests, clicks>>

\* wal.append in durable mode.  An id drawn by the log orders the entries.
LogEntry(c) ==
  /\ At(c, "log")
  /\ log' = Append(log, [entry |-> conn[c].entry, entitled |-> conn[c].entitled, counted |-> 0])
  /\ Put(c, [conn[c] EXCEPT !.stage = IF config.topological THEN "centroids" ELSE "hot",
                            !.pos = Len(log) + 1])
  /\ UNCHANGED <<config, phase, index, centroids, correlations, buckets, poisoned, limiter,
                 footprints, requests, clicks>>

\* The three trackers, each under its own lock.
Track(c) ==
  LET e == Entries[conn[c].entry]
      To(stage) == Put(c, [conn[c] EXCEPT !.stage = stage])
  IN  /\ conn[c].stage \in Tracking \ poisoned /\ phase # "stopped"
      /\ \/ At(c, "centroids") /\ UpdateCentroids(e) /\ To("correlations")
            /\ UNCHANGED <<correlations, buckets, poisoned>>
         \/ At(c, "correlations") /\ ~CorrelationsPanic(e) /\ UpdateCorrelations(e) /\ To("buckets")
            /\ UNCHANGED <<centroids, buckets>>
         \/ At(c, "buckets") /\ UpdateBuckets(e) /\ To("hot")
            /\ UNCHANGED <<centroids, correlations, poisoned>>
      /\ log' = [log EXCEPT ![conn[c].pos].counted = @ + 1]
      /\ UNCHANGED <<config, phase, index, limiter, footprints, requests, clicks>>

\* The panic ends the task of the connection.
TrackPanics(c) ==
  LET e == Entries[conn[c].entry]
  IN  /\ At(c, "correlations") /\ "correlations" \notin poisoned
      /\ CorrelationsPanic(e) /\ UpdateCorrelations(e)
      /\ Put(c, IdleConn)
      /\ UNCHANGED <<config, phase, index, log, centroids, buckets, limiter, footprints, requests, clicks>>

\* Hot store, index and the acknowledgement; the index refuses another length
\* than its own, with the entry in the log and the hot store.
Apply(c) ==
  LET e == Entries[conn[c].entry]
  IN  /\ At(c, "hot")
      /\ index' = IF e.length = dim THEN [index EXCEPT ![e.id] = <<e.vector>>] ELSE index
      /\ Put(c, IdleConn)
      /\ UNCHANGED <<config, phase, log, centroids, correlations, buckets, poisoned, limiter,
                     footprints, requests, clicks>>

\* The append, the eviction or the index fails, or a tracker's lock is poisoned:
\* what was done stays.
InsertFails(c) ==
  /\ conn[c].stage \in {"log", "hot"} \cup (Tracking \cap poisoned) /\ phase # "stopped"
  /\ Put(c, IdleConn)
  /\ UNCHANGED <<config, phase, storage, limiter, footprints, requests, clicks>>

-----------------------------------------------------------------------------
(* query_handler, TesseractQueryService::query and QueryExecutor::execute. *)

\* What the parser and the planner make of every text, without and with Merge.
Parsed == Fixed([t \in DOMAIN Texts |-> parse(Texts[t])])
PlanFor(t, merkle) == IF Parsed[t].parsed THEN plan_to_tree(Parsed[t], merkle) ELSE PlanError
Plans == Fixed([t \in DOMAIN Texts |-> PlanFor(t, FALSE)])
MergePlans == Fixed([t \in DOMAIN Texts |-> PlanFor(t, TRUE)])
Plan(t) == IF config.merkle_enabled THEN MergePlans[t] ELSE Plans[t]
PlanOf(c) == Plan(conn[c].text)
\* execute up to its first await.
StartQuery(c, t, user) ==
  LET q == Parsed[t]
      started == [conn[c] EXCEPT !.text = t, !.user = UserOf(c, user)]
  IN  /\ At(c, "body")
      /\ Put(c, IF \/ ~q.parsed
                   \/ ~Plan(t).planned
                   \/ q.source = "text" /\ ~Embeds(config.embedder)
                THEN IdleConn
                ELSE IF q.source = "text" THEN [started EXCEPT !.stage = "embed", !.calls = 1]
                ELSE [started EXCEPT !.stage = "scan", !.vector = q.vector * VectorScale])
      /\ UNCHANGED <<config, phase, storage, limiter, footprints, requests, clicks>>

\* The embedding service answers, or the call fails.
EmbedReply(c, outcome) ==
  LET next == embed_next(conn[c].calls - 1, outcome)
  IN  /\ At(c, "embed")
      /\ Put(c, CASE next = "done" -> [conn[c] EXCEPT !.stage = "scan",
                                                     !.vector = EmbeddedVector * VectorScale]
                  [] next = "backoff" -> [conn[c] EXCEPT !.stage = "backoff", !.answer = outcome]
                  [] OTHER -> IdleConn)
      /\ UNCHANGED <<config, phase, storage, limiter, footprints, requests, clicks>>

\* The back-off ends and embed calls again.
EmbedRetry(c) ==
  /\ At(c, "backoff")
  /\ Put(c, [conn[c] EXCEPT !.stage = "embed", !.calls = @ + 1, !.answer = "none"])
  /\ UNCHANGED <<config, phase, storage, limiter, footprints, requests, clicks>>

ScansNeeded == IF config.merkle_enabled THEN 2 ELSE 1

\* engine_bias takes the three locks, and the query fails when one is poisoned.
BiasFails(plan) == config.topological /\ plan.nodes[1].bias_filters # <<>> /\ poisoned # {}

\* One AnnScan.  The two of a Merge run concurrently: inserts, clicks and other
\* requests come in between.
Scan(c) ==
  /\ At(c, "scan") /\ Len(conn[c].scans) < ScansNeeded
  /\ Put(c, IF BiasFails(PlanOf(c)) THEN IdleConn
            ELSE [conn[c] EXCEPT !.scans =
                    Append(@, ann_scan(PlanOf(c), conn[c].vector, conn[c].user, config.topological))])
  /\ UNCHANGED <<config, phase, storage, limiter, footprints, requests, clicks>>

\* The rest of the plan, and the response; gRPC streams it.
Finish(c, late) ==
  LET scans == conn[c].scans
      scanned == IF config.merkle_enabled THEN scans[1] \o scans[2] ELSE scans[1]
      rs == execute_plan(PlanOf(c), scanned, late)
  IN  /\ At(c, "scan") /\ Len(conn[c].scans) = ScansNeeded
      /\ late # <<>> => Has(PlanOf(c), "Deadline")
      /\ Put(c, CASE BiasUnknown(PlanOf(c)) -> IdleConn
                  [] c \in HttpClients -> IdleConn
                  [] OTHER -> [IdleConn EXCEPT !.stage = "stream", !.results = rs, !.out = rs,
                                               !.gone = conn[c].gone, !.entitled = conn[c].entitled])
      /\ UNCHANGED <<config, phase, storage, limiter, footprints, requests, clicks>>

\* Mutant of Timed: the vector is resolved outside the timeout.
Timed_SearchOnly == {"scan"}

\* The awaits inside tokio::time::timeout.
Timed == Executing

\* query_timeout passes: the query is dropped where it is.
QueryTimeout(c) ==
  /\ phase # "stopped" /\ conn[c].stage \in Timed
  /\ Put(c, IdleConn)
  /\ UNCHANGED <<config, phase, storage, limiter, footprints, requests, clicks>>

-----------------------------------------------------------------------------
(* The result stream of gRPC. *)

\* Mutant of Sent: a record that finds the channel full is dropped.
Sent_Drop(r) ==
  [r EXCEPT !.out = Tail(@), !.channel = IF Len(@) < ChannelCapacity THEN Append(@, Head(r.out)) ELSE @]

\* tx.send waits for room in the channel.
Sent(r) ==
  IF Len(r.channel) < ChannelCapacity
  THEN [r EXCEPT !.out = Tail(@), !.channel = Append(@, Head(r.out))]
  ELSE r

\* A send fails once the client is gone, and the task ends.
SendRecord(c) ==
  /\ At(c, "stream") /\ conn[c].out # <<>>
  /\ IF conn[c].gone THEN Put(c, IdleConn)
     ELSE Sent(conn[c]) # conn[c] /\ Put(c, Sent(conn[c]))
  /\ UNCHANGED <<config, phase, storage, limiter, footprints, requests, clicks>>

ReadRecord(c) ==
  /\ At(c, "stream") /\ conn[c].channel # <<>> /\ ~conn[c].gone
  /\ Put(c, [conn[c] EXCEPT !.channel = Tail(@), !.received = Append(@, Head(conn[c].channel))])
  /\ UNCHANGED <<config, phase, storage, limiter, footprints, requests, clicks>>

EndStream(c) ==
  /\ At(c, "stream") /\ conn[c].out = <<>> /\ (conn[c].channel = <<>> \/ conn[c].gone)
  /\ Put(c, IdleConn)
  /\ UNCHANGED <<config, phase, storage, limiter, footprints, requests, clicks>>

-----------------------------------------------------------------------------
\* The awaits of an insert are the log append and the locks and files of Apply;
\* between the trackers there is none.
ClientLeaves(c) ==
  /\ phase # "stopped" /\ conn[c].stage \notin {"idle"} \cup Tracking /\ ~conn[c].gone
  /\ Put(c, IF c \in GrpcClients /\ conn[c].stage \in Executing \cup {"stream"}
            THEN [conn[c] EXCEPT !.gone = TRUE, !.channel = <<>>] ELSE IdleConn)
  /\ UNCHANGED <<config, phase, storage, limiter, footprints, requests, clicks>>

\* update_footprint by the application.
Click(u, k) ==
  /\ phase # "stopped" /\ clicks < MaxClicks
  /\ clicks' = clicks + 1
  /\ UpdateFootprint(u, k.clicked, k.query)
  /\ UNCHANGED <<config, phase, conn, storage, limiter, requests>>

\* A signal: axum takes no new connections and waits for the open requests.
ShutdownSignal ==
  /\ phase = "serving" /\ phase' = "draining"
  /\ UNCHANGED <<config, conn, storage, limiter, footprints, requests, clicks>>

\* serve returns, the storage engine shuts down, main returns and takes the
\* gRPC tasks with it.
Exit ==
  /\ phase = "draining" /\ \A c \in HttpClients : conn[c].stage = "idle"
  /\ phase' = "stopped"
  /\ conn' = [c \in Clients |-> IdleConn]
  /\ UNCHANGED <<config, storage, limiter, footprints, requests, clicks>>

\* Only the next HTTP request looks at the clock.
TimePasses == Tick /\ phase = "serving" /\ (\A c \in HttpClients : conn[c].stage = "idle")
              /\ UNCHANGED <<config, phase, conn, storage, footprints, requests, clicks>>

-----------------------------------------------------------------------------
Lateness == {<<>>} \cup {<<n>> : n \in 1..Cardinality(Ids)}

Progress(c) ==
  Track(c) \/ TrackPanics(c) \/ LogEntry(c) \/ Apply(c) \/ EmbedRetry(c) \/ Scan(c)
  \/ (\E late \in Lateness : Finish(c, late)) \/ SendRecord(c) \/ EndStream(c)
ReadBody(c) ==
  \/ \E e \in DOMAIN Entries : StartInsert(c, e)
  \/ \E t \in DOMAIN Texts, u \in Users \cup {NoUser} : StartQuery(c, t, u)
  \/ BadBody(c)

Next ==
  \/ \E c \in HttpClients, f \in {<<>>} \cup {<<ip>> : ip \in Ips}, h \in HeaderSets, p \in BOOLEAN :
       HttpRequest(c, f, h, p)
  \/ \E c \in GrpcClients, h \in HeaderSets : GrpcRequest(c, h)
  \/ \E c \in Clients :
       \/ ReadBody(c) \/ Progress(c) \/ InsertFails(c) \/ QueryTimeout(c) \/ ReadRecord(c)
       \/ ClientLeaves(c) \/ \E o \in Outcomes : EmbedReply(c, o)
  \/ \E u \in Users, k \in Clicks : Click(u, k)
  \/ ShutdownSignal \/ Exit \/ TimePasses

\* Where a request moves without the embedding service and without its client.
Runnable(c) ==
  \/ conn[c].stage \in {"log", "hot", "backoff", "scan"} \cup Tracking
  \/ /\ conn[c].stage = "stream"
     /\ IF conn[c].out = <<>> THEN conn[c].channel = <<>> \/ conn[c].gone
        ELSE Len(conn[c].channel) < ChannelCapacity \/ conn[c].gone

\* Handlers are polled and timers fire.  The first conjunct is weak fairness of
\* the steps of a request, stated with the predicate that enables them.  Nothing
\* makes a client send the body of its request: no read has a timeout.
Fairness ==
  /\ \A c \in Clients : <>[]Runnable(c) => []<><<conn'[c] # conn[c]>>_vars
  /\ \A c \in Clients : WF_vars(QueryTimeout(c))
  /\ WF_vars(Exit)

Spec == Init /\ [][Next]_vars /\ Fairness

-----------------------------------------------------------------------------
\* Types and bounds: the channel, the calls, and one Window and one footprint
\* per key (http.rs, grpc.rs, rate_limiter.rs, episodic.rs).
TypeOK ==
  /\ config \in Configs /\ phase \in {"serving", "draining", "stopped"}
  /\ \A c \in Clients :
       /\ conn[c].stage \in {"idle", "body", "log", "hot", "stream"} \cup Executing \cup Tracking
       /\ Len(conn[c].channel) <= ChannelCapacity
       /\ conn[c].pos \in 0..Len(log) /\ Len(conn[c].scans) <= ScansNeeded
  /\ \A i \in DOMAIN log : log[i].entry \in DOMAIN Entries /\ log[i].counted \in 0..3
  /\ poisoned \subseteq {"correlations"}
  /\ \A u \in Users : footprints[u] = <<>> \/ footprints[u][1] \in -100..100
  /\ \A ip \in Ips : windows[ip] = <<>> \/ windows[ip][1].age \in 0..window_duration + 1

\* RateLimiter::check: in a period of one window length an address gets through
\* at most twice max_requests times: its windows are fixed, and two of them can
\* touch one period.
WindowBounded == \A ip \in Ips : Recent(ip) <= 2 * max_requests

\* rate_limiter.rs calls it a sliding window of max_requests: in no period of one
\* window length would an address get through more often.
SlidingWindow == \A ip \in Ips : Recent(ip) <= max_requests

\* auth_middleware, check_auth and MultiAuth: whatever reached the log, the
\* embedding service, the index or a result stream, on either front end, was
\* asked for with credentials the mode accepts.
OnlyEntitled ==
  /\ \A i \in DOMAIN log : log[i].entitled
  /\ \A c \in Clients : conn[c].entitled

\* The positions of the log whose entry the n-th tracker has counted.
Counted(n) == {i \in DOMAIN log : log[i].counted >= n}
EntryAt(i) == Entries[log[i].entry]
VectorsLogged == [i \in DOMAIN log |-> Component(EntryAt(i))]
GivenNumber(n, f) == {i \in Counted(n) : HasNumber(EntryAt(i).metadata, f)}
InCategory(f, cat) ==
  {i \in Counted(1) : HasString(EntryAt(i).metadata, f) /\ EntryAt(i).metadata[f][1].v = cat}
InBucket(f, b) ==
  LET bs == numerical_buckets[f]
      Within(v) == (b = 1 \/ v >= bs[b]) /\ (b = Len(bs) \/ v < bs[b + 1])
  IN  {i \in GivenNumber(3, f) : Within(EntryAt(i).metadata[f][1].v)}

\* CentroidTracker and NumericalBucketTracker: however inserts interleave, fail
\* or are dropped, every centroid is the exact sum and count over the entries
\* its tracker has counted that belong to it, a bucket's those from its
\* boundary up to the next; a vector too short for the dimension adds nothing to
\* the sum and is counted.
CentroidsExact ==
  /\ centroids.global = StatOver(Counted(1), VectorsLogged)
  /\ \A f \in categorical_fields, cat \in CategoryValues :
       centroids.categories[f][cat] = StatOver(InCategory(f, cat), VectorsLogged)
  /\ \A f \in DOMAIN numerical_buckets : \A b \in DOMAIN numerical_buckets[f] :
       buckets.fields[f][b] = StatOver(InBucket(f, b), VectorsLogged)

\* CorrelationTracker (Welford): until a panic has poisoned its lock, one pass,
\* entry by entry and in any order, gives the exact count, mean and variance of
\* every field, whatever the lengths of the vectors.  In a dimension that every
\* vector counted for the field has, it also gives the exact mean, variance and
\* covariance, and no correlation exceeds 1 before it is clamped.
WelfordExact ==
  \A f \in numerical_fields :
    LET S == GivenNumber(2, f)
        Number(i) == IF HasNumber(EntryAt(i).metadata, f) THEN EntryAt(i).metadata[f][1].v ELSE 0
        s == correlations[f]
        t == StatsOver(S, [i \in DOMAIN log |-> Number(i)], VectorsLogged)
    IN  /\ s.count = t.count /\ s.field_mean = t.field_mean /\ s.field_m2 = t.field_m2
        /\ (\A i \in S : Reaches(EntryAt(i))) =>
             /\ s.dim_mean = t.dim_mean /\ s.dim_m2 = t.dim_m2 /\ s.dim_cross = t.dim_cross
             /\ s.dim_cross * s.dim_cross <= s.field_m2 * s.dim_m2

\* The three trackers of StorageEngine::insert, each under its own lock, agree with
\* the entries each has counted.
TrackersExact == CentroidsExact /\ WelfordExact

\* The plans of the pages of a text: LIMIT l OFFSET o is PagePlans[t][l][o + 1].
PagePlans ==
  Fixed([t \in DOMAIN Texts |-> Fixed([l \in 1..4 |-> Fixed([o \in 1..3 |->
    IF Parsed[t].parsed
    THEN plan_to_tree([Parsed[t] EXCEPT !.limit = <<l>>, !.offset = <<o - 1>>], FALSE)
    ELSE PlanError])])])

\* plan_to_tree and execute_plan: without Merge the pages of a query put
\* together are the longer page, whatever its bias, order and filters.
PagesTile ==
  \A t \in DOMAIN Plans : Plans[t].planned =>
    LET found == ann_scan(Plans[t], Parsed[t].vector * VectorScale, NoUser, config.topological)
        Page(l, o) == execute_plan(PagePlans[t][l][o + 1], found, <<>>)
    IN  /\ Page(1, 0) \o Page(1, 1) = Page(2, 0)
        /\ Page(2, 0) \o Page(2, 2) = Page(4, 0)

\* TesseractQueryService::query: what the client has read, what waits in the
\* channel and what is still to be sent are the results, in order.
StreamFaithful ==
  \A c \in GrpcClients : conn[c].stage = "stream" /\ ~conn[c].gone =>
    conn[c].received \o conn[c].channel \o conn[c].out = conn[c].results

\* embed: a request costs at most max_retries + 1 calls, and after the first each
\* follows an answer that the service may give otherwise next time: 429 or 5xx.
CallsBounded ==
  [][\A c \in Clients :
       /\ conn'[c].calls <= max_retries + 1
       /\ conn'[c].calls > conn[c].calls =>
            conn[c].calls = 0 \/ conn[c].answer \in {"rate_limited", "server_error"}]_vars

\* main: after the signal the process ends, although the embedding service may
\* never answer and gRPC clients may neither send nor read: every HTTP request is
\* answered or dropped, once its client has sent the body or gone.  That much is
\* left to the clients: TESSERACT_SHUTDOWN_TIMEOUT_SECS bounds the drain with TLS only.
ShutdownCompletes ==
  (\A c \in HttpClients : []<>(conn[c].stage # "body")) => (phase = "draining" ~> phase = "stopped")
=============================================================================
