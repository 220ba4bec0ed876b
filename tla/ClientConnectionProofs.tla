----------------------- MODULE ClientConnectionProofs -----------------------
(***************************************************************************)
(* Proofs about ClientConnection, for any configurations and any bounds on *)
(* calls and events.                                                       *)
(***************************************************************************)
EXTENDS ClientConnection, SequenceTheorems, TLAPS

-----------------------------------------------------------------------------
(* The calls in flight, as every kind of step leaves them. *)

Calls == [kind: Operations \cup Rechecks,
          at: {"select", "queued", "served"} \cup Answers,
          current: BOOLEAN, config: Configs \cup {None}]

\* t holds the elements of s but the one at i, in the same order.
Without(t, s, n, i) == \A k \in 1..(n - 1) : t[k] = s[IF k < i THEN k ELSE k + 1]

\* A call leaves; the others keep their order.
Removed(i) ==
  /\ calls' \in Seq(Calls) /\ Len(calls') = Len(calls) - 1
  /\ \A k \in 1..Len(calls') :
       calls'[k] = calls[IF k < i THEN k ELSE k + 1]
  /\ \A j \in 1..Len(calls) :
       j # i => \E k \in 1..Len(calls') : calls'[k] = calls[j] /\ (k = j \/ k = j - 1)

LEMMA RemoveAtIs ==
  ASSUME NEW S, NEW s \in Seq(S), NEW i \in 1..Len(s)
  PROVE  /\ RemoveAt(s, i) \in Seq(S) /\ Len(RemoveAt(s, i)) = Len(s) - 1
         /\ \A k \in 1..(Len(s) - 1) : RemoveAt(s, i)[k] = s[IF k < i THEN k ELSE k + 1]
<1> DEFINE front == SubSeq(s, 1, i - 1)
           back  == SubSeq(s, i + 1, Len(s))
<1>1. Len(s) \in Nat /\ i \in Nat /\ i >= 1 /\ i <= Len(s)
  BY LenProperties
<1>2. front \in Seq(S) /\ Len(front) = i - 1 /\ \A k \in 1..(i - 1) : front[k] = s[k]
  BY <1>1, SubSeqProperties
<1>3. back \in Seq(S) /\ Len(back) = Len(s) - i /\ \A k \in 1..(Len(s) - i) : back[k] = s[i + k]
  BY <1>1, SubSeqProperties
<1>4. RemoveAt(s, i) = front \o back
  BY DEF RemoveAt
<1> HIDE DEF front, back
<1>5. /\ front \o back \in Seq(S) /\ Len(front \o back) = Len(s) - 1
      /\ \A k \in 1..(Len(s) - 1) :
           (front \o back)[k] = IF k <= i - 1 THEN front[k] ELSE back[k - (i - 1)]
  <2>1. /\ front \o back \in Seq(S) /\ Len(front \o back) = Len(front) + Len(back)
        /\ \A k \in 1..(Len(front) + Len(back)) :
             (front \o back)[k] = IF k <= Len(front) THEN front[k] ELSE back[k - Len(front)]
    BY <1>2, <1>3, ConcatProperties
  <2>2. Len(front) + Len(back) = Len(s) - 1
    BY <1>1, <1>2, <1>3
  <2> QED
    BY <1>2, <2>1, <2>2
<1>6. ASSUME NEW k \in 1..(Len(s) - 1)
      PROVE  (front \o back)[k] = s[IF k < i THEN k ELSE k + 1]
  BY <1>1, <1>2, <1>3, <1>5
<1> QED
  BY <1>4, <1>5, <1>6

\* Without its element at i, a sequence still has every other one.
LEMMA Shifted ==
  ASSUME NEW s, NEW t, NEW n \in Nat, NEW i \in 1..n,
         Without(t, s, n, i), NEW j \in 1..n, j # i
  PROVE  \E k \in 1..(n - 1) : t[k] = s[j] /\ (k = j \/ k = j - 1)
<1>1. CASE j < i
  <2>1. j \in 1..(n - 1) /\ t[j] = s[j]
    BY <1>1 DEF Without
  <2> QED
    BY <2>1
<1>2. CASE j > i
  <2>1. j - 1 \in 1..(n - 1) /\ t[j - 1] = s[j]
    BY <1>2 DEF Without
  <2> QED
    BY <2>1
<1> QED
  BY <1>1, <1>2

LEMMA RemovedIs ==
  ASSUME calls \in Seq(Calls), NEW i \in 1..Len(calls), calls' = RemoveAt(calls, i)
  PROVE  Removed(i)
<1>1. /\ calls' \in Seq(Calls) /\ Len(calls') = Len(calls) - 1
      /\ \A k \in 1..Len(calls') : calls'[k] = calls[IF k < i THEN k ELSE k + 1]
  BY RemoveAtIs
<1>2. Len(calls) \in Nat
  BY LenProperties
<1>3. \A j \in 1..Len(calls) :
        j # i => \E k \in 1..(Len(calls) - 1) : calls'[k] = calls[j] /\ (k = j \/ k = j - 1)
  <2>1. Without(calls', calls, Len(calls), i)
    BY <1>1, <1>2 DEF Without
  <2>2. ASSUME NEW j \in 1..Len(calls), j # i
        PROVE  \E k \in 1..(Len(calls) - 1) : calls'[k] = calls[j] /\ (k = j \/ k = j - 1)
    BY <1>2, <2>1, <2>2, Shifted
  <2> QED
    BY <2>2
<1> QED
  BY <1>1, <1>2, <1>3 DEF Removed

\* Earlier calls are outdated; a new one, if there is one, is the last.
Outdating ==
  /\ timer' = FALSE /\ poll' = NoPoll
  /\ calls' \in Seq(Calls)
  /\ \A k \in 1..Len(calls) :
       /\ ~calls'[k].current
       /\ calls'[k].kind = calls[k].kind /\ calls'[k].at = calls[k].at
       /\ calls'[k].config = calls[k].config

LEMMA OutdatedIs ==
  ASSUME calls \in Seq(Calls)
  PROVE  /\ Outdated \in Seq(Calls) /\ Len(Outdated) = Len(calls)
         /\ \A k \in 1..Len(calls) :
              /\ ~Outdated[k].current
              /\ Outdated[k].kind = calls[k].kind /\ Outdated[k].at = calls[k].at
              /\ Outdated[k].config = calls[k].config
<1>1. DOMAIN calls = 1..Len(calls) /\ Len(calls) \in Nat
      /\ \A k \in 1..Len(calls) : calls[k] \in Calls
  BY LenProperties, ElementOfSeq
<1>2. \A k \in 1..Len(calls) : [calls[k] EXCEPT !.current = FALSE] \in Calls
  BY <1>1 DEF Calls
<1>3. Outdated \in [1..Len(calls) -> Calls]
  BY <1>1, <1>2 DEF Outdated
<1>4. Outdated \in Seq(Calls) /\ Len(Outdated) = Len(calls)
  BY <1>1, <1>3, IsASeq, LenProperties DEF Outdated
<1>5. \A k \in 1..Len(calls) :
              /\ ~Outdated[k].current
              /\ Outdated[k].kind = calls[k].kind /\ Outdated[k].at = calls[k].at
              /\ Outdated[k].config = calls[k].config
  BY <1>1 DEF Outdated, Calls
<1> QED
  BY <1>4, <1>5

LEMMA BeginsNothing ==
  ASSUME calls \in Seq(Calls), Begin(<<>>)
  PROVE  Outdating /\ Len(calls') = Len(calls)
<1>1. calls' = Outdated
  BY OutdatedIs, ConcatEmptySeq DEF Begin
<1> QED
  BY <1>1, OutdatedIs DEF Begin, Outdating

LEMMA BeginsCall ==
  ASSUME calls \in Seq(Calls), NEW c \in Calls, Begin(<<c>>)
  PROVE  Outdating /\ Len(calls') = Len(calls) + 1 /\ calls'[Len(calls) + 1] = c
<1>1. <<c>> \in Seq(Calls) /\ Len(<<c>>) = 1 /\ <<c>>[1] = c
  OBVIOUS
<1>2. calls' = Outdated \o <<c>>
  BY DEF Begin
<1>3. Len(calls) \in Nat
  BY LenProperties
<1>4. /\ calls' \in Seq(Calls) /\ Len(calls') = Len(calls) + 1
      /\ \A k \in 1..(Len(calls) + 1) :
           calls'[k] = IF k <= Len(calls) THEN Outdated[k] ELSE <<c>>[k - Len(calls)]
  BY <1>1, <1>2, OutdatedIs, ConcatProperties
<1>5. calls'[Len(calls) + 1] = c
  <2>1. Len(calls) + 1 \in 1..(Len(calls) + 1) /\ ~(Len(calls) + 1 <= Len(calls))
        /\ (Len(calls) + 1) - Len(calls) = 1
    BY <1>3
  <2>2. calls'[Len(calls) + 1] = <<c>>[1]
    BY <1>4, <2>1
  <2> QED
    BY <1>1, <2>2
<1>6. ASSUME NEW k \in 1..Len(calls) PROVE calls'[k] = Outdated[k]
  <2>1. k \in 1..(Len(calls) + 1) /\ k <= Len(calls)
    BY <1>3
  <2> QED
    BY <1>4, <2>1
<1> QED
  BY <1>4, <1>5, <1>6, OutdatedIs DEF Begin, Outdating

\* A call moves to the end of the queue, its location compiled.
Requeued(i) ==
  /\ calls' \in Seq(Calls) /\ Len(calls') = Len(calls)
  /\ \A k \in 1..(Len(calls) - 1) : calls'[k] = calls[IF k < i THEN k ELSE k + 1]
  /\ \A j \in 1..Len(calls) :
       j # i => \E k \in 1..(Len(calls) - 1) : calls'[k] = calls[j] /\ (k = j \/ k = j - 1)
  /\ LET c == calls'[Len(calls)]
     IN  /\ c.at = "queued" /\ c.kind = calls[i].kind
         /\ c.current = calls[i].current /\ c.config = calls[i].config

LEMMA RequeuedIs ==
  ASSUME calls \in Seq(Calls), NEW i \in 1..Len(calls),
         calls' = Append(RemoveAt(calls, i), [calls[i] EXCEPT !.at = "queued"])
  PROVE  Requeued(i)
<1> DEFINE c    == [calls[i] EXCEPT !.at = "queued"]
           rest == RemoveAt(calls, i)
<1>1. Len(calls) \in Nat /\ calls[i] \in Calls
  BY LenProperties, ElementOfSeq
<1>2. /\ c \in Calls /\ c.at = "queued" /\ c.kind = calls[i].kind
      /\ c.current = calls[i].current /\ c.config = calls[i].config
  BY <1>1 DEF Calls
<1>3. /\ rest \in Seq(Calls) /\ Len(rest) = Len(calls) - 1
      /\ \A k \in 1..(Len(calls) - 1) : rest[k] = calls[IF k < i THEN k ELSE k + 1]
  BY RemoveAtIs
<1> HIDE DEF c, rest
<1>4. /\ calls' \in Seq(Calls) /\ Len(calls') = Len(calls)
      /\ \A k \in 1..(Len(calls) - 1) : calls'[k] = rest[k]
      /\ calls'[Len(calls)] = c
  <2>1. calls' = Append(rest, c)
    BY DEF rest, c
  <2> QED
    <3>1. /\ Append(rest, c) \in Seq(Calls) /\ Len(Append(rest, c)) = Len(rest) + 1
          /\ \A k \in 1..Len(rest) : Append(rest, c)[k] = rest[k]
          /\ Append(rest, c)[Len(rest) + 1] = c
      BY <1>2, <1>3, AppendProperties
    <3>2. Len(rest) + 1 = Len(calls)
      BY <1>1, <1>3
    <3> QED
      BY <1>3, <2>1, <3>1, <3>2
<1>5. \A k \in 1..(Len(calls) - 1) : calls'[k] = calls[IF k < i THEN k ELSE k + 1]
  BY <1>3, <1>4
<1>6. \A j \in 1..Len(calls) :
        j # i => \E k \in 1..(Len(calls) - 1) : calls'[k] = calls[j] /\ (k = j \/ k = j - 1)
  <2>1. Without(calls', calls, Len(calls), i)
    BY <1>5 DEF Without
  <2>2. ASSUME NEW j \in 1..Len(calls), j # i
        PROVE  \E k \in 1..(Len(calls) - 1) : calls'[k] = calls[j] /\ (k = j \/ k = j - 1)
    BY <1>1, <2>1, <2>2, Shifted
  <2> QED
    BY <2>2
<1>7. LET last == calls'[Len(calls)]
      IN  /\ last.at = "queued" /\ last.kind = calls[i].kind
          /\ last.current = calls[i].current /\ last.config = calls[i].config
  BY <1>2, <1>4
<1>8. calls' \in Seq(Calls) /\ Len(calls') = Len(calls)
  BY <1>4
<1> QED
  BY <1>5, <1>6, <1>7, <1>8 DEF Requeued

\* One call changes where it is; kind, at and config are given.
Changed(i, kind, at) ==
  /\ calls' \in Seq(Calls) /\ Len(calls') = Len(calls)
  /\ \A k \in 1..Len(calls) : k # i => calls'[k] = calls[k]
  /\ calls'[i].kind = kind /\ calls'[i].at = at /\ calls'[i].current = calls[i].current

LEMMA AnswerIs ==
  ASSUME calls \in Seq(Calls), NEW i \in 1..Len(calls), NEW a \in {"served"} \cup Answers,
         Answer(i, a)
  PROVE  Changed(i, calls[i].kind, a) /\ calls'[i].config = None
<1>1. DOMAIN calls = 1..Len(calls) /\ Len(calls) \in Nat /\ calls[i] \in Calls
  BY LenProperties, ElementOfSeq
<1> DEFINE c == [[calls[i] EXCEPT !.at = a] EXCEPT !.config = None]
<1>2. /\ c \in Calls /\ c.at = a /\ c.kind = calls[i].kind
      /\ c.current = calls[i].current /\ c.config = None
  BY <1>1 DEF Calls
<1>3. calls' = [calls EXCEPT ![i] = c]
  BY <1>1 DEF Answer, Calls
<1> HIDE DEF c
<1>4. calls' \in Seq(Calls) /\ Len(calls') = Len(calls)
      /\ calls'[i] = c /\ \A k \in 1..Len(calls) : k # i => calls'[k] = calls[k]
  BY <1>1, <1>2, <1>3, ExceptSeq
<1> QED
  BY <1>2, <1>4 DEF Changed

\* What an awaited operation that failed goes on with.
RecheckOf(kind) == IF kind = "connect" THEN "recheckConnect" ELSE "recheckDisconnect"

LEMMA FailedIs ==
  ASSUME calls \in Seq(Calls), NEW i \in 1..Len(calls), Failed(i)
  PROVE  IF calls[i].current THEN Changed(i, RecheckOf(calls[i].kind), "queued")
                             ELSE Removed(i)
<1>1. DOMAIN calls = 1..Len(calls) /\ Len(calls) \in Nat /\ calls[i] \in Calls
  BY LenProperties, ElementOfSeq
<1>2. CASE ~calls[i].current
  BY <1>2, RemovedIs DEF Failed
<1>3. CASE calls[i].current
  <2> DEFINE r == RecheckOf(calls[i].kind)
             c == [[calls[i] EXCEPT !.at = "queued"] EXCEPT !.kind = r]
  <2>1. /\ c \in Calls /\ c.at = "queued" /\ c.kind = r /\ c.current = calls[i].current
    BY <1>1 DEF Calls, RecheckOf, Rechecks
  <2>2. calls' = [calls EXCEPT ![i] = c]
    BY <1>1, <1>3 DEF Failed, RecheckOf, Calls
  <2> HIDE DEF c, r
  <2>3. calls' \in Seq(Calls) /\ Len(calls') = Len(calls)
        /\ calls'[i] = c /\ \A k \in 1..Len(calls) : k # i => calls'[k] = calls[k]
    BY <1>1, <2>1, <2>2, ExceptSeq
  <2>4. Changed(i, r, "queued")
    BY <2>1, <2>3 DEF Changed
  <2> QED
    BY <1>3, <2>4 DEF r
<1> QED
  BY <1>2, <1>3

\* Every call that is being served is given the same answer.
AllServed(a) ==
  /\ calls' \in Seq(Calls) /\ Len(calls') = Len(calls)
  /\ \A k \in 1..Len(calls) :
       IF calls[k].at = "served"
       THEN /\ calls'[k].at = a /\ calls'[k].kind = calls[k].kind
            /\ calls'[k].current = calls[k].current
       ELSE calls'[k] = calls[k]

LEMMA AllServedIs ==
  ASSUME calls \in Seq(Calls), NEW a \in Answers,
         calls' = [i \in DOMAIN calls |->
                     IF i \in Served THEN [calls[i] EXCEPT !.at = a] ELSE calls[i]]
  PROVE  AllServed(a)
<1>1. DOMAIN calls = 1..Len(calls) /\ Len(calls) \in Nat
      /\ \A k \in 1..Len(calls) : calls[k] \in Calls
  BY LenProperties, ElementOfSeq
<1>2. \A k \in 1..Len(calls) :
        LET c == [calls[k] EXCEPT !.at = a]
        IN  c \in Calls /\ c.at = a /\ c.kind = calls[k].kind /\ c.current = calls[k].current
  BY <1>1 DEF Calls
<1>3. /\ calls' \in [1..Len(calls) -> Calls]
      /\ \A k \in 1..Len(calls) :
           calls'[k] = IF calls[k].at = "served" THEN [calls[k] EXCEPT !.at = a] ELSE calls[k]
  BY <1>1, <1>2 DEF Served
<1>4. calls' \in Seq(Calls) /\ Len(calls') = Len(calls)
  BY <1>1, <1>3, IsASeq, LenProperties
<1> QED
  BY <1>2, <1>3, <1>4 DEF AllServed

\* connect(): either a call is last and current, or nothing but the error is new.
LEMMA StartsConnect ==
  ASSUME calls \in Seq(Calls), config \in Configs, StartConnect
  PROVE  /\ Outdating /\ UNCHANGED <<config, grace, orphans, promised>>
         /\ \/ /\ Len(calls') = Len(calls) + 1
               /\ LET c == calls'[Len(calls) + 1]
                  IN  /\ c.kind = "connect" /\ c.at \in {"queued", "select"} /\ c.current
                      /\ c.config = config
               /\ status' \in {status, "connecting"} /\ error' = FALSE /\ raced' = raced
               /\ status' = "connecting" \/ calls'[Len(calls) + 1].at = "select"
            \/ /\ Len(calls') = Len(calls)
               /\ status' = status /\ error' = TRUE
               /\ raced' = raced \cup {k \in {"refuse"} : status = "connecting"}
<1>1. \A at \in {"queued", "select"} :
        LET c == Call("connect", at, config)
        IN  c \in Calls /\ c.kind = "connect" /\ c.at = at /\ c.current /\ c.config = config
  BY DEF Call, Calls, Operations
<1>2. CASE ConnectNow
  <2>1. Begin(<<Call("connect", "queued", config)>>)
    BY <1>2 DEF ConnectNow
  <2> QED
    BY <1>1, <1>2, <2>1, BeginsCall DEF StartConnect, ConnectNow
<1>3. CASE ConnectLater
  <2>1. Begin(<<Call("connect", "select", config)>>)
    BY <1>3 DEF ConnectLater
  <2> QED
    BY <1>1, <1>3, <2>1, BeginsCall DEF StartConnect, ConnectLater
<1>4. CASE ConnectRefused
  BY <1>4, BeginsNothing DEF StartConnect, ConnectRefused, Raced
<1> QED
  BY <1>2, <1>3, <1>4 DEF StartConnect

\* disconnect(): a call that is last and current.
LEMMA StartsDisconnect ==
  ASSUME calls \in Seq(Calls), StartDisconnect
  PROVE  /\ Outdating /\ Len(calls') = Len(calls) + 1
         /\ LET c == calls'[Len(calls) + 1]
            IN  c.kind = "disconnect" /\ c.at = "queued" /\ c.current
         /\ word' = "off"
         /\ UNCHANGED <<status, error, config, grace, orphans, promised, raced>>
<1>1. LET c == Call("disconnect", "queued", None)
      IN  c \in Calls /\ c.kind = "disconnect" /\ c.at = "queued" /\ c.current
  BY DEF Call, Calls, Operations
<1> QED
  BY <1>1, BeginsCall DEF StartDisconnect

-----------------------------------------------------------------------------
(* The service, as every kind of step leaves it. *)

Jobs == [kind: {"none", "connect", "established", "clear", "recover"},
         target: Configs \cup {None}, keep: BOOLEAN]

ServiceOK ==
  /\ service \in {"Down", "Busy", "Disconnected", "Connected", "Blocked", "BlockedError"}
  /\ tunnel \in Configs \cup {None}
  /\ job \in Jobs

LEMMA NoJobIs ==
  Service!NoJob \in Jobs /\ Service!NoJob.kind = "none" /\ Service!NoJob.target = None
BY DEF Service!NoJob, Service!Job, Jobs

LEMMA ServiceConnects ==
  ASSUME ServiceOK, NEW c \in Configs, Service!Connect(c)
  PROVE  /\ ServiceOK' /\ UNCHANGED <<service, tunnel>>
         /\ job = Service!NoJob /\ service \notin {"Down", "Busy"}
         /\ job'.kind = "connect" /\ job'.target = c
<1>1. job' \in Jobs /\ job'.kind = "connect" /\ job'.target = c
  BY DEF Service!Connect, Service!Job, Jobs
<1> QED
  BY <1>1 DEF ServiceOK, Service!Connect, Service!Listening

LEMMA ServiceDisconnects ==
  ASSUME ServiceOK, Service!Disconnect(FALSE)
  PROVE  /\ ServiceOK' /\ service' = "Busy" /\ UNCHANGED tunnel
         /\ job = Service!NoJob /\ service \notin {"Down", "Busy"}
         /\ job'.kind = "clear" /\ job'.keep = FALSE /\ job'.target = None
<1>1. job' \in Jobs /\ job'.kind = "clear" /\ job'.keep = FALSE /\ job'.target = None
  BY DEF Service!Disconnect, Service!Job, Jobs
<1> QED
  BY <1>1 DEF ServiceOK, Service!Disconnect, Service!Listening

LEMMA ServiceIsLosing ==
  ASSUME ServiceOK, Service!Lose
  PROVE  /\ ServiceOK' /\ service' = "Busy" /\ UNCHANGED tunnel
         /\ job = Service!NoJob /\ service = "Connected"
         /\ job'.kind = "clear" /\ job'.target = None
<1>1. job' \in Jobs /\ job'.kind = "clear" /\ job'.target = None
  BY DEF Service!Lose, Service!Job, Jobs
<1> QED
  BY <1>1 DEF ServiceOK, Service!Lose, Service!Listening

LEMMA ServiceRecovers ==
  ASSUME ServiceOK, Service!Recover
  PROVE  /\ ServiceOK' /\ service = "Down" /\ service' = "Busy" /\ UNCHANGED tunnel
         /\ job'.kind = "recover" /\ job'.target \in {tunnel, None}
<1>1. job' \in Jobs /\ job'.kind = "recover" /\ job'.target \in {tunnel, None}
  BY DEF Service!Recover, Service!Job, Jobs, ServiceOK
<1> QED
  BY <1>1 DEF ServiceOK, Service!Recover

LEMMA ServiceIsCrashing ==
  ASSUME ServiceOK, Service!Crash
  PROVE  ServiceOK' /\ service' = "Down" /\ UNCHANGED tunnel /\ job' = Service!NoJob
BY NoJobIs DEF ServiceOK, Service!Crash

\* The ends of a job.
LEMMA ServiceEnds ==
  ASSUME ServiceOK,
         \/ Service!Succeed \/ Service!Clear \/ Service!Settle
         \/ Service!Reject \/ Service!Fall \/ Service!Break
  PROVE  /\ ServiceOK' /\ UNCHANGED tunnel /\ job' = Service!NoJob
         /\ Service!Succeed => job.kind = "established"
         /\ Service!Clear => /\ job.kind = "clear" /\ tunnel = None
                             /\ service' \in {"Blocked", "Disconnected"}
                             /\ ~job.keep => service' = "Disconnected"
         /\ Service!Settle => job.kind = "recover" /\ service' \in {"Blocked", "Disconnected"}
         /\ Service!Reject \/ Service!Fall \/ Service!Break
              => job.kind \in {"connect", "established", "clear"}
<1>1. job.keep \in BOOLEAN
  BY DEF ServiceOK, Jobs
<1>2. \A k \in BOOLEAN : /\ Service!Closed(k) \in {"Blocked", "Disconnected"}
                         /\ ~k => Service!Closed(k) = "Disconnected"
  BY DEF Service!Closed
<1>3. \A c : Service!Closed(c \in KillSwitchConfigs) \in {"Blocked", "Disconnected"}
  BY DEF Service!Closed
<1>4. CASE Service!Succeed
  BY <1>4, NoJobIs
  DEF ServiceOK, Service!Succeed, Service!Clear, Service!Settle, Service!Reject, Service!Fall,
      Service!Break, Service!End
<1>5. CASE Service!Clear
  BY <1>1, <1>2, <1>5, NoJobIs
  DEF ServiceOK, Service!Succeed, Service!Clear, Service!Settle, Service!Reject, Service!Fall,
      Service!Break, Service!End
<1>6. CASE Service!Settle
  BY <1>6, NoJobIs
  DEF ServiceOK, Service!Succeed, Service!Clear, Service!Settle, Service!Reject, Service!Fall,
      Service!Break, Service!End
<1>7. CASE Service!Reject \/ Service!Fall \/ Service!Break
  <2>1. service' \in {service, "Blocked", "Disconnected", "BlockedError"}
        /\ UNCHANGED tunnel /\ job' = Service!NoJob
    BY <1>3, <1>7 DEF Service!Reject, Service!Fall, Service!Break, Service!End
  <2>2. job.kind \in {"connect", "established", "clear"}
    BY <1>7 DEF Service!Reject, Service!Fall, Service!Break
  <2>3. Service!Clear => job.kind = "clear" /\ tunnel = None
                         /\ service' = Service!Closed(job.keep)
    BY DEF Service!Clear, Service!End
  <2> QED
    BY <1>1, <1>2, <2>1, <2>2, <2>3, NoJobIs DEF ServiceOK, Service!Succeed, Service!Settle
<1> QED
  BY <1>4, <1>5, <1>6, <1>7

\* The steps of a job.
LEMMA ServiceProgresses ==
  ASSUME ServiceOK, Service!Establish \/ Service!Drop \/ Service!GiveUpRecovery
  PROVE  /\ ServiceOK' /\ UNCHANGED service
         /\ \/ /\ job.kind \in {"connect", "recover"} /\ job.target # None
               /\ job'.kind = "established" /\ tunnel' = job.target
               /\ job'.target = job.target
            \/ tunnel' = None /\ job' = job
            \/ /\ job.kind \in {"recover", "established"} /\ service = "Busy"
               /\ job'.kind = "recover" /\ job'.target = None /\ tunnel' = tunnel
<1>1. CASE Service!Establish
  <2>1. job' \in Jobs /\ job'.kind = "established" /\ job'.target = job.target
    BY <1>1 DEF Service!Establish, ServiceOK, Jobs
  <2> QED
    BY <1>1, <2>1 DEF Service!Establish, ServiceOK, Jobs
<1>2. CASE Service!Drop
  BY <1>2 DEF Service!Drop, ServiceOK
<1>3. CASE Service!GiveUpRecovery
  <2>1. job' \in Jobs /\ job'.kind = "recover" /\ job'.target = None
    BY <1>3 DEF Service!GiveUpRecovery, Service!Job, Jobs
  <2> QED
    BY <1>3, <2>1 DEF Service!GiveUpRecovery, ServiceOK
<1> QED
  BY <1>1, <1>2, <1>3

-----------------------------------------------------------------------------
(* Types, and which job the service works on for a call that is being served. *)

StoreOK ==
  /\ status \in Shows \cup {"connecting"}
  /\ error \in BOOLEAN /\ timer \in BOOLEAN /\ grace \in BOOLEAN
  /\ config \in Configs
  /\ poll \in {"none", "queued"} \cup Shows
  /\ orphans \subseteq Configs \cup {None}
  /\ word \in {"none", "on", "off", "done"} /\ raced \subseteq Overlaps
  /\ events \in 0..MaxEvents

\* j is the service's job, s its phase.
CallOK(c, j, s) ==
  /\ c.at = "select" => c.kind = "connect"
  /\ c.at \in {"select", "queued"} /\ c.kind = "connect" => c.config \in Configs
  /\ c.at = "served" =>
       \/ c.kind = "disconnect" /\ j.kind = "clear" /\ j.keep = FALSE /\ s = "Busy"
       \/ c.kind = "connect" /\ j.kind \in {"connect", "established"} /\ s \notin {"Busy", "Down"}

ServedInv ==
  /\ \A i \in 1..Len(calls) : CallOK(calls[i], job, service)
  /\ \A i, j \in 1..Len(calls) :
       i # j /\ calls[i].at = "served" => calls[j].at # "served"

TypeInv == StoreOK /\ calls \in Seq(Calls) /\ ServiceOK /\ ServedInv

LEMMA TypeInvGivesTypeOK == TypeInv => TypeOK
<1> SUFFICES ASSUME TypeInv PROVE TypeOK
  OBVIOUS
<1>1. DOMAIN calls = 1..Len(calls)
  BY LenProperties DEF TypeInv
<1>2. \A i, j \in DOMAIN calls : calls[i].at = "served" =>
        job # Service!NoJob /\ (i # j => calls[j].at # "served")
  BY <1>1, NoJobIs DEF TypeInv, ServedInv, CallOK
<1> QED
  BY <1>2 DEF TypeInv, StoreOK, TypeOK, Calls

LEMMA NoneServed ==
  ASSUME ServedInv, job = Service!NoJob \/ job.kind \in {"none", "recover"} \/ service = "Down"
  PROVE  \A k \in 1..Len(calls) : calls[k].at # "served"
BY NoJobIs DEF ServedInv, CallOK

LEMMA StaysServed ==
  ASSUME ServedInv, UNCHANGED <<calls, promised>>
  PROVE  ServedInv'
BY DEF ServedInv, promised

\* Where no call is served, the job does not matter.
LEMMA StaysUnserved ==
  ASSUME ServedInv, UNCHANGED calls, \A k \in 1..Len(calls) : calls[k].at # "served"
  PROVE  ServedInv'
BY DEF ServedInv, CallOK

LEMMA OutdatingServed ==
  ASSUME calls \in Seq(Calls), ServedInv, Outdating, UNCHANGED promised,
         \/ Len(calls') = Len(calls)
         \/ /\ Len(calls') = Len(calls) + 1
            /\ calls'[Len(calls) + 1].at \in {"queued", "select"}
            /\ calls'[Len(calls) + 1].at = "select" => calls'[Len(calls) + 1].kind = "connect"
            /\ calls'[Len(calls) + 1].kind = "connect" => calls'[Len(calls) + 1].config \in Configs
  PROVE  ServedInv'
<1>1. Len(calls) \in Nat
  BY LenProperties
<1>2. ASSUME NEW k \in 1..Len(calls) PROVE CallOK(calls'[k], job', service')
  BY DEF ServedInv, CallOK, Outdating, promised
<1>3. \A k \in 1..Len(calls) : calls'[k].at = calls[k].at
  BY DEF Outdating
<1>4. CASE Len(calls') = Len(calls)
  BY <1>2, <1>3, <1>4 DEF ServedInv
<1>5. CASE Len(calls') = Len(calls) + 1
  <2>1. CallOK(calls'[Len(calls) + 1], job', service')
        /\ calls'[Len(calls) + 1].at # "served"
    BY <1>1, <1>5 DEF CallOK
  <2>2. \A k \in 1..Len(calls') : k \in 1..Len(calls) \/ k = Len(calls) + 1
    BY <1>1, <1>5
  <2>3. \A k \in 1..Len(calls') : CallOK(calls'[k], job', service')
    BY <1>2, <2>1, <2>2
  <2>4. \A k, l \in 1..Len(calls') :
          k # l /\ calls'[k].at = "served" => calls'[l].at # "served"
    BY <1>3, <2>1, <2>2 DEF ServedInv
  <2> QED
    BY <2>3, <2>4 DEF ServedInv
<1> QED
  BY <1>4, <1>5

LEMMA RemovedServed ==
  ASSUME calls \in Seq(Calls), ServedInv, NEW i \in 1..Len(calls), Removed(i), UNCHANGED promised
  PROVE  ServedInv'
<1>1. Len(calls) \in Nat
  BY LenProperties
<1> DEFINE from(k) == IF k < i THEN k ELSE k + 1
<1>2. \A k \in 1..Len(calls') : from(k) \in 1..Len(calls) /\ calls'[k] = calls[from(k)]
  BY <1>1 DEF Removed
<1>3. \A k, l \in 1..Len(calls') : k # l => from(k) # from(l)
  BY <1>1 DEF Removed
<1> HIDE DEF from
<1> QED
  BY <1>2, <1>3 DEF ServedInv, promised

LEMMA RequeuedServed ==
  ASSUME calls \in Seq(Calls), ServedInv, NEW i \in 1..Len(calls), Requeued(i), UNCHANGED promised,
         calls[i].at = "select"
  PROVE  ServedInv'
<1>0. calls[i].kind = "connect" => calls[i].config \in Configs
  BY DEF ServedInv, CallOK
<1>1. Len(calls) \in Nat /\ Len(calls') = Len(calls)
  BY LenProperties DEF Requeued
<1> DEFINE from(k) == IF k < i THEN k ELSE k + 1
<1>2. \A k \in 1..(Len(calls) - 1) : from(k) \in 1..Len(calls) /\ calls'[k] = calls[from(k)]
  BY <1>1 DEF Requeued
<1>3. \A k, l \in 1..(Len(calls) - 1) : k # l => from(k) # from(l)
  BY <1>1
<1> HIDE DEF from
<1>4. /\ calls'[Len(calls)].at = "queued"
      /\ calls'[Len(calls)].kind = "connect" => calls'[Len(calls)].config \in Configs
  BY <1>0 DEF Requeued, ServedInv, CallOK
<1>5. \A k \in 1..Len(calls') : k \in 1..(Len(calls) - 1) \/ k = Len(calls)
  BY <1>1
<1>6. ASSUME NEW k \in 1..Len(calls') PROVE CallOK(calls'[k], job', service')
  <2>1. CASE k \in 1..(Len(calls) - 1)
    BY <1>2, <2>1 DEF ServedInv, promised
  <2>2. CASE k = Len(calls)
    BY <1>4, <2>2 DEF CallOK
  <2> QED
    BY <1>5, <2>1, <2>2
<1>7. ASSUME NEW k \in 1..Len(calls'), NEW l \in 1..Len(calls'), k # l, calls'[k].at = "served"
      PROVE  calls'[l].at # "served"
  <2>1. k \in 1..(Len(calls) - 1)
    BY <1>4, <1>5, <1>7
  <2>2. CASE l \in 1..(Len(calls) - 1)
    <3>1. /\ from(k) \in 1..Len(calls) /\ from(l) \in 1..Len(calls) /\ from(k) # from(l)
          /\ calls'[k] = calls[from(k)] /\ calls'[l] = calls[from(l)]
      BY <1>2, <1>3, <1>7, <2>1, <2>2
    <3> QED
      BY <1>7, <3>1 DEF ServedInv
  <2>3. CASE l = Len(calls)
    BY <1>4, <2>3
  <2> QED
    BY <1>5, <2>2, <2>3
<1> QED
  BY <1>6, <1>7 DEF ServedInv

LEMMA ChangedServed ==
  ASSUME ServedInv, NEW i \in 1..Len(calls), NEW kind, NEW at, Changed(i, kind, at),
         at \notin {"select", "served"}, kind = "connect" => at # "queued", UNCHANGED promised
  PROVE  ServedInv'
<1>1. CallOK(calls'[i], job', service') /\ calls'[i].at # "served"
  BY DEF Changed, CallOK
<1> QED
  BY <1>1 DEF Changed, ServedInv, promised

\* After an answer to all that were served, the service works for nobody.
LEMMA AllServedServed ==
  ASSUME ServedInv, NEW a \in Answers, AllServed(a)
  PROVE  ServedInv'
<1>1. a \notin {"select", "queued", "served"}
  BY DEF Answers, Shows
<1>2. \A k \in 1..Len(calls) : calls'[k].at # "served" /\ CallOK(calls'[k], job', service')
  BY <1>1 DEF AllServed, ServedInv, CallOK
<1> QED
  BY <1>2 DEF ServedInv, AllServed

\* The one call that begins to be served.
LEMMA ServeServed ==
  ASSUME ServedInv, NEW i \in 1..Len(calls), Changed(i, calls[i].kind, "served"),
         job = Service!NoJob, CallOK(calls'[i], job', service')
  PROVE  ServedInv'
<1>1. \A k \in 1..Len(calls) : calls[k].at # "served"
  BY NoneServed
<1>2. \A k \in 1..Len(calls) : k # i => CallOK(calls'[k], job', service') /\ calls'[k].at # "served"
  BY <1>1 DEF Changed, ServedInv, CallOK
<1> QED
  BY <1>2 DEF Changed, ServedInv

\* What most steps leave alone.
LEMMA Uses ==
  ASSUME StoreOK, Spend
  PROVE  events' \in 0..MaxEvents
BY ClientAssumption DEF StoreOK, Spend

\* What is shown for a phase is one of three words.
LEMMA ShownIs ==
  ASSUME NEW p
  PROVE  Shown(p) \in Shows /\ (p # "Connected" => Shown(p) # "connected")
BY DEF Shown, Shows

LEMMA StartConnectKeeps ==
  ASSUME TypeInv, StartConnect, word' \in {word, "on"}, events' \in 0..MaxEvents
  PROVE  TypeInv'
<1>1. calls \in Seq(Calls) /\ config \in Configs
  BY DEF TypeInv, StoreOK
<1>2. calls' \in Seq(Calls) /\ ServiceOK'
  BY <1>1, StartsConnect DEF Outdating, TypeInv, ServiceOK, promised
<1>3. ServedInv'
  BY <1>1, StartsConnect, OutdatingServed DEF TypeInv
<1>4. StoreOK'
  BY <1>1, StartsConnect DEF TypeInv, StoreOK, Outdating, NoPoll, Overlaps
<1> QED
  BY <1>2, <1>3, <1>4 DEF TypeInv

LEMMA StartDisconnectKeeps ==
  ASSUME TypeInv, StartDisconnect, Spend
  PROVE  TypeInv'
<1>1. calls \in Seq(Calls)
  BY DEF TypeInv
<1>2. calls' \in Seq(Calls) /\ ServiceOK'
  BY <1>1, StartsDisconnect DEF Outdating, TypeInv, ServiceOK, promised
<1>3. ServedInv'
  BY <1>1, StartsDisconnect, OutdatingServed DEF TypeInv
<1>4. StoreOK'
  BY <1>1, StartsDisconnect, Uses DEF TypeInv, StoreOK, Outdating, NoPoll
<1> QED
  BY <1>2, <1>3, <1>4 DEF TypeInv

\* The steps that begin nothing and answer nothing.
LEMMA StoreStepKeeps ==
  ASSUME TypeInv, UNCHANGED <<calls, promised>>, StoreOK'
  PROVE  TypeInv'
BY StaysServed DEF TypeInv, ServiceOK, promised

LEMMA RemovedKeeps ==
  ASSUME TypeInv, NEW i \in 1..Len(calls), Removed(i), UNCHANGED promised, StoreOK'
  PROVE  TypeInv'
BY RemovedServed DEF TypeInv, ServiceOK, promised, Removed

LEMMA ChangedKeeps ==
  ASSUME TypeInv, NEW i \in 1..Len(calls), NEW kind, NEW at, Changed(i, kind, at),
         at \notin {"select", "served"}, kind = "connect" => at # "queued",
         UNCHANGED promised, StoreOK'
  PROVE  TypeInv'
BY ChangedServed DEF TypeInv, ServiceOK, promised, Changed

LEMMA RequestKeeps ==
  ASSUME TypeInv, NEW i \in 1..Len(calls), Request(i)
  PROVE  TypeInv'
<1>1. calls \in Seq(Calls) /\ StoreOK /\ ServiceOK /\ ServedInv /\ calls[i] \in Calls
  BY ElementOfSeq DEF TypeInv
<1>2. CASE PrepareErr(i)
  <2>1. StoreOK'
    BY <1>1, <1>2, Uses DEF PrepareErr, StoreOK, store, history
  <2>2. Changed(i, calls[i].kind, "error") /\ UNCHANGED promised
    BY <1>1, <1>2, AnswerIs DEF PrepareErr, Answers
  <2> QED
    BY <2>1, <2>2, ChangedKeeps
<1>3. CASE Serve(i)
  <2>1. StoreOK'
    BY <1>1, <1>3 DEF Serve, StoreOK, store, history
  <2>2. Changed(i, calls[i].kind, "served")
    BY <1>1, <1>3, AnswerIs DEF Serve
  <2>3. CASE calls[i].kind = "connect"
    <3>1. calls[i].config \in Configs
      BY <1>1, <1>3, <2>3 DEF Serve, Sent, ServedInv, CallOK
    <3>2. Service!Connect(calls[i].config)
      BY <1>3, <2>3 DEF Serve
    <3>3. /\ ServiceOK' /\ job = Service!NoJob /\ job'.kind = "connect"
          /\ service' \notin {"Busy", "Down"}
      BY <1>1, <3>1, <3>2, ServiceConnects
    <3>4. CallOK(calls'[i], job', service')
      BY <2>2, <2>3, <3>3 DEF Changed, CallOK
    <3> QED
      BY <1>1, <2>1, <2>2, <3>3, <3>4, ServeServed DEF TypeInv, Changed
  <2>4. CASE calls[i].kind # "connect"
    <3>1. calls[i].kind = "disconnect" /\ Service!Disconnect(FALSE)
      BY <1>3, <2>4 DEF Serve, Operations
    <3>2. /\ ServiceOK' /\ job = Service!NoJob /\ job'.kind = "clear" /\ job'.keep = FALSE
          /\ service' = "Busy"
      BY <1>1, <3>1, ServiceDisconnects
    <3>3. CallOK(calls'[i], job', service')
      BY <2>2, <3>1, <3>2 DEF Changed, CallOK
    <3> QED
      BY <1>1, <2>1, <2>2, <3>2, <3>3, ServeServed DEF TypeInv, Changed
  <2> QED
    BY <2>3, <2>4
<1>4. CASE RecheckServed(i)
  <2>1. StoreOK'
    BY <1>1, <1>4 DEF RecheckServed, StoreOK, store, history
  <2>2. Shown(service) \in Answers /\ Shown(service) \notin {"select", "served", "queued"}
    BY ShownIs DEF Answers, Shows
  <2>3. Changed(i, calls[i].kind, Shown(service)) /\ UNCHANGED promised
    BY <1>1, <1>4, <2>2, AnswerIs DEF RecheckServed
  <2> QED
    BY <2>1, <2>2, <2>3, ChangedKeeps
<1>5. CASE Unreachable(i)
  <2>1. StoreOK'
    BY <1>1, <1>5 DEF Unreachable, StoreOK, store, history
  <2>2. Changed(i, calls[i].kind, "error") /\ UNCHANGED promised
    BY <1>1, <1>5, AnswerIs DEF Unreachable, Answers
  <2> QED
    BY <2>1, <2>2, ChangedKeeps
<1>6. CASE TimeOut(i)
  <2>1. orphans' \subseteq Configs \cup {None}
    BY <1>1, <1>6 DEF TimeOut, StoreOK, Calls
  <2>2. StoreOK'
    BY <1>1, <1>6, <2>1, Uses DEF TimeOut, StoreOK, store, history
  <2>3. Changed(i, calls[i].kind, "error") /\ UNCHANGED promised
    BY <1>1, <1>6, AnswerIs DEF TimeOut, Answers
  <2> QED
    BY <2>2, <2>3, ChangedKeeps
<1> QED
  BY <1>2, <1>3, <1>4, <1>5, <1>6 DEF Request

LEMMA ContinueKeeps ==
  ASSUME TypeInv, NEW i \in 1..Len(calls), Continue(i)
  PROVE  TypeInv'
<1>1. calls \in Seq(Calls) /\ StoreOK /\ ServiceOK /\ ServedInv /\ calls[i] \in Calls
  BY ElementOfSeq DEF TypeInv
<1>2. calls[i].current \in BOOLEAN
  BY <1>1 DEF Calls
<1>3. CASE Selected(i)
  <2>1. StoreOK'
    BY <1>1, <1>3 DEF Selected, StoreOK, Raced, Overlaps
  <2>2. Requeued(i) /\ UNCHANGED promised
    BY <1>1, <1>3, RequeuedIs DEF Selected
  <2>3. ServedInv'
    BY <1>1, <1>3, <2>2, RequeuedServed DEF Selected
  <2> QED
    BY <1>1, <2>1, <2>2, <2>3 DEF TypeInv, Requeued, ServiceOK, promised
<1>4. CASE SelectErr(i)
  <2>1. StoreOK'
    BY <1>1, <1>2, <1>4, Uses DEF SelectErr, StoreOK, Raced, Overlaps
  <2>2. Removed(i) /\ UNCHANGED promised
    BY <1>1, <1>4, RemovedIs DEF SelectErr
  <2> QED
    BY <2>1, <2>2, RemovedKeeps
<1>5. CASE Completed(i)
  <2>1. StoreOK'
    BY <1>1, <1>2, <1>5 DEF Completed, Finish, Ignore, Apply, StoreOK
  <2>2. Removed(i) /\ UNCHANGED promised
    BY <1>1, <1>5, RemovedIs DEF Completed, Finish
  <2> QED
    BY <2>1, <2>2, RemovedKeeps
<1>6. CASE Failed(i)
  <2>1. StoreOK' /\ UNCHANGED promised
    BY <1>1, <1>2, <1>6 DEF Failed, StoreOK, history
  <2>2. CASE calls[i].current
    <3>1. Changed(i, RecheckOf(calls[i].kind), "queued")
      BY <1>1, <1>6, <2>2, FailedIs
    <3>2. RecheckOf(calls[i].kind) # "connect"
      BY DEF RecheckOf
    <3> QED
      BY <2>1, <3>1, <3>2, ChangedKeeps
  <2>3. CASE ~calls[i].current
    <3>1. Removed(i)
      BY <1>1, <1>6, <2>3, FailedIs
    <3> QED
      BY <2>1, <3>1, RemovedKeeps
  <2> QED
    BY <2>2, <2>3
<1>7. CASE Rechecked(i)
  <2>1. StoreOK'
    BY <1>1, <1>2, <1>7 DEF Rechecked, Finish, Ignore, Apply, StoreOK
  <2>2. Removed(i) /\ UNCHANGED promised
    BY <1>1, <1>7, RemovedIs DEF Rechecked, Finish
  <2> QED
    BY <2>1, <2>2, RemovedKeeps
<1>8. CASE RecheckErr(i)
  <2>1. StoreOK'
    BY <1>1, <1>8 DEF RecheckErr, Finish, Shows, StoreOK, Raced, Overlaps
  <2>2. Removed(i) /\ UNCHANGED promised
    BY <1>1, <1>8, RemovedIs DEF RecheckErr, Finish
  <2> QED
    BY <2>1, <2>2, RemovedKeeps
<1> QED
  BY <1>3, <1>4, <1>5, <1>6, <1>7, <1>8 DEF Continue

\* The end of a job, and what the calls learn of it.
LEMMA JobOkIs ==
  ASSUME TypeInv, JobOk
  PROVE  /\ AllServed(Shown(service')) /\ ServiceOK' /\ UNCHANGED tunnel
         /\ job' = Service!NoJob
         /\ \E r \in BOOLEAN : raced' = raced \cup {k \in {"poll"} : r}
         /\ UNCHANGED <<store, orphans, poll, events>>
<1>1. UNCHANGED tunnel /\ ServiceOK' /\ job' = Service!NoJob
  BY ServiceEnds DEF TypeInv, JobOk
<1>2. Shown(service') \in Answers
  BY ShownIs DEF Answers
<1>3. AllServed(Shown(service'))
  BY <1>2, AllServedIs DEF JobOk, JobDone, TypeInv
<1>4. \E r \in BOOLEAN : raced' = raced \cup {k \in {"poll"} : r}
  <2>1. raced = raced \cup {k \in {"poll"} : FALSE}
    OBVIOUS
  <2> QED
    BY <2>1 DEF JobOk, JobDone, Overtake, Raced
<1> QED
  BY <1>1, <1>3, <1>4 DEF JobOk, JobDone

LEMMA JobErrIs ==
  ASSUME TypeInv, JobErr
  PROVE  /\ AllServed("error") /\ ServiceOK' /\ UNCHANGED tunnel
         /\ job' = Service!NoJob
         /\ \E r \in BOOLEAN : raced' = raced \cup {k \in {"poll"} : r}
         /\ UNCHANGED <<store, orphans, poll, word>>
<1>1. UNCHANGED tunnel /\ ServiceOK' /\ job' = Service!NoJob
  BY ServiceEnds DEF TypeInv, JobErr
<1>2. AllServed("error")
  BY AllServedIs DEF JobErr, JobDone, TypeInv, Answers
<1>3. \E r \in BOOLEAN : raced' = raced \cup {k \in {"poll"} : r}
  <2>1. raced = raced \cup {k \in {"poll"} : FALSE}
    OBVIOUS
  <2> QED
    BY <2>1 DEF JobErr, JobDone, Overtake, Raced
<1> QED
  BY <1>1, <1>2, <1>3 DEF JobErr, JobDone

LEMMA JobKeeps ==
  ASSUME TypeInv, JobOk \/ JobErr \/ JobProgress
  PROVE  TypeInv'
<1>1. StoreOK /\ ServiceOK /\ ServedInv
  BY DEF TypeInv
<1>2. CASE JobOk
  <2>1. word' \in {word, "done"}
    BY <1>2 DEF JobOk
  <2>2. StoreOK'
    BY <1>1, <1>2, <2>1, JobOkIs DEF StoreOK, store, Overlaps
  <2>3. ServedInv'
    <3>1. Shown(service') \in Answers
      BY ShownIs DEF Answers
    <3> QED
      BY <1>1, <1>2, <3>1, JobOkIs, AllServedServed
  <2> QED
    BY <1>2, <2>2, <2>3, JobOkIs DEF TypeInv, AllServed
<1>3. CASE JobErr
  <2>1. events' \in 0..MaxEvents
    BY <1>1, <1>3, Uses DEF JobErr
  <2>2. StoreOK'
    BY <1>1, <1>3, <2>1, JobErrIs DEF StoreOK, store, Overlaps
  <2>3. ServedInv'
    <3>1. "error" \in Answers
      BY DEF Answers
    <3> QED
      BY <1>1, <1>3, <3>1, JobErrIs, AllServedServed
  <2> QED
    BY <1>3, <2>2, <2>3, JobErrIs DEF TypeInv, AllServed
<1>4. CASE JobProgress
  <2>1. StoreOK' /\ UNCHANGED calls
    BY <1>1, <1>4 DEF JobProgress, StoreOK, store, history
  <2>2. ServiceOK' /\ UNCHANGED service
        /\ \/ job.kind \in {"connect", "recover"} /\ job'.kind = "established"
           \/ job' = job
           \/ service = "Busy" /\ job.kind \in {"recover", "established"}
    BY <1>1, <1>4, ServiceProgresses DEF JobProgress
  <2>3. ServedInv'
    BY <1>1, <2>1, <2>2 DEF ServedInv, CallOK
  <2> QED
    BY <2>1, <2>2, <2>3 DEF TypeInv
<1> QED
  BY <1>2, <1>3, <1>4

LEMMA ServiceKeeps ==
  ASSUME TypeInv,
         ServiceLoses \/ ServiceCrashes \/ ServiceStarts
           \/ \E o \in Configs \cup {None} : ServeOrphan(o)
  PROVE  TypeInv'
<1>1. calls \in Seq(Calls) /\ StoreOK /\ ServiceOK /\ ServedInv
  BY DEF TypeInv
<1>2. CASE ServiceLoses
  <2>1. StoreOK' /\ UNCHANGED calls
    BY <1>1, <1>2, Uses DEF ServiceLoses, StoreOK, store, history
  <2>2. ServiceOK' /\ job = Service!NoJob
    BY <1>1, <1>2, ServiceIsLosing DEF ServiceLoses
  <2> QED
    BY <1>1, <2>1, <2>2, NoneServed, StaysUnserved DEF TypeInv
<1>3. CASE ServiceCrashes
  <2>1. StoreOK'
    BY <1>1, <1>3, Uses DEF ServiceCrashes, StoreOK, store, history
  <2>2. ServiceOK'
    BY <1>1, <1>3, ServiceIsCrashing DEF ServiceCrashes
  <2>3. AllServed("error") /\ "error" \in Answers
    BY <1>1, <1>3, AllServedIs DEF ServiceCrashes, Answers
  <2> QED
    BY <1>1, <2>1, <2>2, <2>3, AllServedServed DEF TypeInv, AllServed
<1>4. CASE ServiceStarts
  <2>1. StoreOK' /\ UNCHANGED calls
    BY <1>1, <1>4 DEF ServiceStarts, StoreOK, store, history
  <2>2. ServiceOK' /\ service = "Down"
    BY <1>1, <1>4, ServiceRecovers DEF ServiceStarts
  <2> QED
    BY <1>1, <2>1, <2>2, NoneServed, StaysUnserved DEF TypeInv
<1>5. ASSUME NEW o \in Configs \cup {None}, ServeOrphan(o)
      PROVE  TypeInv'
  <2>1. StoreOK' /\ UNCHANGED calls
    BY <1>1, <1>5 DEF ServeOrphan, StoreOK, store, history
  <2>2. ServiceOK' /\ job = Service!NoJob
    BY <1>1, <1>5, ServiceConnects, ServiceDisconnects DEF ServeOrphan
  <2> QED
    BY <1>1, <2>1, <2>2, NoneServed, StaysUnserved DEF TypeInv
<1> QED
  BY <1>2, <1>3, <1>4, <1>5

LEMMA TypeInvInit == Init => TypeInv
<1> SUFFICES ASSUME Init PROVE TypeInv
  OBVIOUS
<1>1. calls \in Seq(Calls) /\ Len(calls) = 0
  BY DEF Init
<1>2. ServiceOK
  BY NoJobIs DEF Init, ServiceOK
<1>3. ServedInv
  BY <1>1 DEF ServedInv
<1>4. events \in 0..MaxEvents
  BY ClientAssumption DEF Init
<1>5. StoreOK
  BY <1>4 DEF Init, StoreOK, Shows, NoPoll
<1> QED
  BY <1>1, <1>2, <1>3, <1>5 DEF TypeInv

LEMMA TypeInvStep == TypeInv /\ [Next]_vars => TypeInv'
<1> SUFFICES ASSUME TypeInv, [Next]_vars PROVE TypeInv'
  OBVIOUS
<1>1. StoreOK /\ DOMAIN calls = 1..Len(calls)
  BY LenProperties DEF TypeInv
<1>2. CASE ToggleOn
  BY <1>1, <1>2, Uses, StartConnectKeeps DEF ToggleOn
<1>3. CASE TimerFires
  BY <1>1, <1>3, StartConnectKeeps DEF TimerFires, StoreOK
<1>4. CASE ToggleOff \/ ClearDrop
  BY <1>4, StartDisconnectKeeps DEF ToggleOff, ClearDrop
<1>5. CASE GraceEnds
  <2>1. StoreOK' /\ UNCHANGED <<calls, promised>>
    BY <1>1, <1>5 DEF GraceEnds, StoreOK, history
  <2> QED
    BY <2>1, StoreStepKeeps
<1>6. CASE Poll \/ Visible
  <2>1. events' \in 0..MaxEvents
    BY <1>1, <1>6, Uses DEF Poll, Visible, StoreOK
  <2>2. StoreOK' /\ UNCHANGED <<calls, promised>>
    BY <1>1, <1>6, <2>1 DEF Poll, Visible, StartRefresh, StoreOK, store, history
  <2> QED
    BY <2>2, StoreStepKeeps
<1>7. CASE PollServed
  <2>1. StoreOK' /\ UNCHANGED <<calls, promised>>
    BY <1>1, <1>7, ShownIs DEF PollServed, StoreOK, store, history
  <2> QED
    BY <2>1, StoreStepKeeps
<1>8. CASE PollErr
  <2>1. StoreOK' /\ UNCHANGED <<calls, promised>>
    BY <1>1, <1>8 DEF PollErr, NoPoll, StoreOK, store, history
  <2> QED
    BY <2>1, StoreStepKeeps
<1>9. CASE Refreshed
  <2>1. StoreOK' /\ UNCHANGED <<calls, promised>>
    BY <1>1, <1>9
    DEF Refreshed, FinishRefresh, Apply, Ignore, NoPoll, StoreOK, Raced, Overlaps
  <2> QED
    BY <2>1, StoreStepKeeps
<1>10. ASSUME NEW c \in Configs, Edit(c) PROVE TypeInv'
  <2>1. events' \in 0..MaxEvents
    BY <1>1, <1>10, Uses DEF Edit
  <2>2. StoreOK' /\ UNCHANGED <<calls, promised>>
    BY <1>1, <1>10, <2>1 DEF Edit, StoreOK, Raced, Overlaps
  <2> QED
    BY <2>2, StoreStepKeeps
<1>11. CASE \E i \in DOMAIN calls : Request(i) \/ Continue(i)
  BY <1>1, <1>11, RequestKeeps, ContinueKeeps
<1>12. CASE UNCHANGED vars
  <2>1. StoreOK' /\ UNCHANGED <<calls, promised>>
    BY <1>1, <1>12 DEF vars, StoreOK, store, history
  <2> QED
    BY <2>1, StoreStepKeeps
<1> QED
  BY <1>2, <1>3, <1>4, <1>5, <1>6, <1>7, <1>8, <1>9, <1>10, <1>11, <1>12,
     JobKeeps, ServiceKeeps DEF Next

\* What is kept has its type, whatever the order of answers, timeouts, crashes
\* and changes; and the service works for at most one call at a time, the one
\* that holds vpn_op_lock.
THEOREM ClientTypes == Spec => []TypeOK
<1>1. Spec => []TypeInv
  BY TypeInvInit, TypeInvStep, PTL DEF Spec
<1> QED
  BY <1>1, TypeInvGivesTypeOK, PTL

-----------------------------------------------------------------------------
(* The call that may still change what is shown. *)

Owner == \E i \in 1..Len(calls) : calls[i].current

LEMMA RacedGrows ==
  ASSUME NEW kind, NEW when, Raced(kind, when)
  PROVE  raced \subseteq raced' /\ (when => kind \in raced')
BY DEF Raced

LEMMA OwnerIs ==
  ASSUME calls \in Seq(Calls)
  PROVE  Owner <=> \E i \in DOMAIN calls : calls[i].current
BY LenProperties DEF Owner

LEMMA ChangedOwner ==
  ASSUME NEW i \in 1..Len(calls), NEW kind, NEW at, Changed(i, kind, at)
  PROVE  Owner => Owner'
BY DEF Changed, Owner

LEMMA AllServedOwner ==
  ASSUME NEW a, AllServed(a)
  PROVE  Owner => Owner'
BY DEF AllServed, Owner

LEMMA RemovedOwner ==
  ASSUME NEW i \in 1..Len(calls), Removed(i), ~calls[i].current
  PROVE  Owner => Owner'
<1> SUFFICES ASSUME NEW j \in 1..Len(calls), calls[j].current PROVE Owner'
  BY DEF Owner
<1>1. j # i
  OBVIOUS
<1>2. \E k \in 1..Len(calls') : calls'[k] = calls[j]
  BY <1>1 DEF Removed
<1> QED
  BY <1>2 DEF Owner

\* A call that begins is current.
LEMMA BegunOwner ==
  ASSUME calls \in Seq(Calls), Len(calls') = Len(calls) + 1, calls'[Len(calls) + 1].current
  PROVE  Owner'
<1>1. Len(calls) + 1 \in 1..Len(calls')
  BY LenProperties
<1> QED
  BY <1>1 DEF Owner

LEMMA RequestChanges ==
  ASSUME calls \in Seq(Calls), NEW i \in 1..Len(calls), Request(i)
  PROVE  /\ \E a \in {"served"} \cup Answers : Changed(i, calls[i].kind, a)
         /\ UNCHANGED <<store, poll, history>>
<1>1. CASE PrepareErr(i)
  BY <1>1, AnswerIs DEF PrepareErr, Answers
<1>2. CASE Serve(i)
  BY <1>2, AnswerIs DEF Serve
<1>3. CASE RecheckServed(i)
  BY <1>3, AnswerIs, ShownIs DEF RecheckServed, Answers
<1>4. CASE Unreachable(i)
  BY <1>4, AnswerIs DEF Unreachable, Answers
<1>5. CASE TimeOut(i)
  BY <1>5, AnswerIs DEF TimeOut, Answers
<1> QED
  BY <1>1, <1>2, <1>3, <1>4, <1>5 DEF Request

OwnedOK ==
  status = "connecting" /\ raced \cap {"refuse", "draft"} = {} => timer \/ Owner

LEMMA OwnedIs ==
  ASSUME calls \in Seq(Calls)
  PROVE  OwnedOK <=> ConnectingIsOwned
BY OwnerIs DEF OwnedOK, ConnectingIsOwned

LEMMA OwnedKept ==
  ASSUME OwnedOK, status' = status \/ status' # "connecting", raced \subseteq raced',
         timer => timer', Owner => Owner'
  PROVE  OwnedOK'
BY DEF OwnedOK

LEMMA OwnedConnects ==
  ASSUME calls \in Seq(Calls), config \in Configs, OwnedOK, StartConnect
  PROVE  OwnedOK'
<1>1. CASE /\ Len(calls') = Len(calls) + 1
           /\ calls'[Len(calls) + 1].current
  BY <1>1, BegunOwner DEF OwnedOK
<1>2. CASE /\ status' = status
           /\ raced' = raced \cup {k \in {"refuse"} : status = "connecting"}
  BY <1>2 DEF OwnedOK
<1> QED
  BY <1>1, <1>2, StartsConnect

LEMMA OwnedContinues ==
  ASSUME calls \in Seq(Calls), OwnedOK, NEW i \in 1..Len(calls), Continue(i)
  PROVE  OwnedOK'
<1>1. CASE Selected(i)
  <2>1. CASE calls[i].current
    <3>1. Requeued(i)
      BY <1>1, RequeuedIs DEF Selected
    <3>2. Len(calls') = Len(calls) /\ calls'[Len(calls)].current
      BY <2>1, <3>1 DEF Requeued
    <3>3. Len(calls) \in 1..Len(calls')
      BY <3>2, LenProperties
    <3> QED
      BY <3>2, <3>3 DEF OwnedOK, Owner
  <2>2. CASE ~calls[i].current
    <3>1. "draft" \in raced'
      BY <1>1, <2>2, RacedGrows DEF Selected
    <3> QED
      BY <3>1 DEF OwnedOK
  <2> QED
    BY <2>1, <2>2
<1>2. CASE SelectErr(i)
  <2>1. Removed(i) /\ UNCHANGED <<status, timer>> /\ raced \subseteq raced'
    BY <1>2, RemovedIs, RacedGrows DEF SelectErr
  <2>2. CASE calls[i].current
    <3>1. status = "connecting" => "refuse" \in raced'
      BY <1>2, <2>2, RacedGrows DEF SelectErr
    <3> QED
      BY <2>1, <3>1 DEF OwnedOK
  <2>3. CASE ~calls[i].current
    BY <2>1, <2>3, RemovedOwner, OwnedKept
  <2> QED
    BY <2>2, <2>3
<1>3. CASE Completed(i)
  <2>1. Removed(i) /\ UNCHANGED <<timer, raced>>
    BY <1>3, RemovedIs DEF Completed, Finish
  <2>2. CASE calls[i].current
    BY <1>3, <2>2 DEF Completed, Apply, Shows, OwnedOK
  <2>3. CASE ~calls[i].current
    <3>1. UNCHANGED status
      BY <1>3, <2>3 DEF Completed, Ignore
    <3> QED
      BY <2>1, <2>3, <3>1, RemovedOwner, OwnedKept
  <2> QED
    BY <2>2, <2>3
<1>4. CASE Failed(i)
  <2>1. UNCHANGED <<status, timer, raced>>
    BY <1>4 DEF Failed, history
  <2>2. CASE calls[i].current
    <3>1. Changed(i, RecheckOf(calls[i].kind), "queued")
      BY <1>4, <2>2, FailedIs
    <3> QED
      BY <2>1, <3>1, ChangedOwner, OwnedKept
  <2>3. CASE ~calls[i].current
    <3>1. Removed(i)
      BY <1>4, <2>3, FailedIs
    <3> QED
      BY <2>1, <2>3, <3>1, RemovedOwner, OwnedKept
  <2> QED
    BY <2>2, <2>3
<1>5. CASE Rechecked(i)
  <2>1. Removed(i) /\ UNCHANGED <<timer, raced>>
    BY <1>5, RemovedIs DEF Rechecked, Finish
  <2>2. CASE calls[i].current
    BY <1>5, <2>2 DEF Rechecked, Apply, Shows, OwnedOK
  <2>3. CASE ~calls[i].current
    <3>1. UNCHANGED status
      BY <1>5, <2>3 DEF Rechecked, Ignore
    <3> QED
      BY <2>1, <2>3, <3>1, RemovedOwner, OwnedKept
  <2> QED
    BY <2>2, <2>3
<1>6. CASE RecheckErr(i)
  BY <1>6 DEF RecheckErr, OwnedOK
<1> QED
  BY <1>1, <1>2, <1>3, <1>4, <1>5, <1>6 DEF Continue

\* A step of the service, for the clients or of its own accord.
ServiceStep ==
  \/ JobOk \/ JobErr \/ JobProgress \/ ServiceLoses \/ ServiceCrashes \/ ServiceStarts
  \/ \E o \in Configs \cup {None} : ServeOrphan(o)

\* What a step of the service leaves of the store.
LEMMA ServiceStepIs ==
  ASSUME TypeInv, ServiceStep
  PROVE  /\ UNCHANGED <<store, poll>> /\ raced \subseteq raced'
         /\ UNCHANGED calls \/ \E a \in Answers : AllServed(a)
<1>1. CASE JobOk
  <2>1. Shown(service') \in Answers
    BY ShownIs DEF Answers
  <2> QED
    BY <1>1, <2>1, JobOkIs
<1>2. CASE JobErr
  <2>1. "error" \in Answers
    BY DEF Answers
  <2> QED
    BY <1>2, <2>1, JobErrIs
<1>3. CASE ServiceCrashes
  <2>1. "error" \in Answers
    BY DEF Answers
  <2>2. AllServed("error")
    BY <1>3, <2>1, AllServedIs DEF ServiceCrashes, TypeInv
  <2> QED
    BY <1>3, <2>1, <2>2 DEF ServiceCrashes, history
<1>4. CASE JobProgress \/ ServiceLoses \/ ServiceStarts
  BY <1>4 DEF JobProgress, ServiceLoses, ServiceStarts, history
<1>5. CASE \E o \in Configs \cup {None} : ServeOrphan(o)
  BY <1>5 DEF ServeOrphan, history
<1> QED
  BY <1>1, <1>2, <1>3, <1>4, <1>5 DEF ServiceStep

LEMMA OwnedStep == TypeInv /\ OwnedOK /\ [Next]_vars => OwnedOK'
<1> SUFFICES ASSUME TypeInv, OwnedOK, [Next]_vars PROVE OwnedOK'
  OBVIOUS
<1>1. calls \in Seq(Calls) /\ config \in Configs /\ DOMAIN calls = 1..Len(calls)
  BY LenProperties DEF TypeInv, StoreOK
<1>2. CASE ToggleOn \/ TimerFires
  BY <1>1, <1>2, OwnedConnects DEF ToggleOn, TimerFires
<1>3. CASE ToggleOff \/ ClearDrop
  BY <1>1, <1>3, StartsDisconnect, BegunOwner DEF ToggleOff, ClearDrop, OwnedOK
<1>4. CASE GraceEnds
  BY <1>4, OwnedKept DEF GraceEnds, Owner, history
<1>5. CASE Poll \/ Visible \/ PollServed \/ PollErr
  BY <1>5, OwnedKept
  DEF Poll, Visible, StartRefresh, PollServed, PollErr, Owner, store, history
<1>6. CASE Refreshed
  <2>1. status' = status \/ status' # "connecting"
    BY <1>6 DEF Refreshed, Apply, Ignore, Shows
  <2>2. UNCHANGED <<timer, calls>> /\ raced \subseteq raced'
    BY <1>6, RacedGrows DEF Refreshed, FinishRefresh
  <2> QED
    BY <2>1, <2>2, OwnedKept DEF Owner
<1>7. ASSUME NEW c \in Configs, Edit(c) PROVE OwnedOK'
  <2>1. UNCHANGED <<status, calls>> /\ raced \subseteq raced' /\ (timer => timer')
    BY <1>7, RacedGrows DEF Edit
  <2> QED
    BY <2>1, OwnedKept DEF Owner
<1>8. ASSUME NEW i \in DOMAIN calls, Request(i) PROVE OwnedOK'
  BY <1>1, <1>8, RequestChanges, ChangedOwner, OwnedKept DEF store, history
<1>9. ASSUME NEW i \in DOMAIN calls, Continue(i) PROVE OwnedOK'
  BY <1>1, <1>9, OwnedContinues
<1>10. CASE ServiceStep
  <2>1. Owner => Owner'
    BY <1>10, ServiceStepIs, AllServedOwner DEF Owner
  <2> QED
    BY <1>10, <2>1, ServiceStepIs, OwnedKept DEF store
<1>11. CASE UNCHANGED vars
  BY <1>11, OwnedKept DEF vars, Owner, store, history
<1> QED
  BY <1>2, <1>3, <1>4, <1>5, <1>6, <1>7, <1>8, <1>9, <1>10, <1>11
  DEF Next, ServiceStep

\* Whenever "connecting" is shown, a current call or the scheduled reconnect is
\* there to end it, as long as no connect() was refused or compiled too late:
\* isCurrent drops the answers of outdated calls, and the call that outdated
\* them answers instead.
THEOREM SpinnerEnds == Spec => []ConnectingIsOwned
<1>1. Init => OwnedOK
  BY DEF Init, OwnedOK
<1>2. TypeInv /\ OwnedOK => ConnectingIsOwned
  BY OwnedIs DEF TypeInv
<1> QED
  BY <1>1, <1>2, TypeInvInit, TypeInvStep, OwnedStep, PTL DEF Spec

-----------------------------------------------------------------------------
(* Only the last call in the queue is current. *)

CurrentIsLast ==
  "draft" \notin raced => \A k \in 1..Len(calls) : calls[k].current => k = Len(calls)

LEMMA LastBegun ==
  ASSUME calls \in Seq(Calls), Outdating, Len(calls') \in {Len(calls), Len(calls) + 1}
  PROVE  CurrentIsLast'
<1>1. Len(calls) \in Nat
  BY LenProperties
<1> QED
  BY <1>1 DEF Outdating, CurrentIsLast

LEMMA LastChanged ==
  ASSUME CurrentIsLast, NEW i \in 1..Len(calls), NEW kind, NEW at, Changed(i, kind, at),
         raced \subseteq raced'
  PROVE  CurrentIsLast'
BY DEF Changed, CurrentIsLast

LEMMA LastAllServed ==
  ASSUME CurrentIsLast, NEW a, AllServed(a), raced \subseteq raced'
  PROVE  CurrentIsLast'
BY DEF AllServed, CurrentIsLast

LEMMA LastRemoved ==
  ASSUME calls \in Seq(Calls), CurrentIsLast, NEW i \in 1..Len(calls), Removed(i),
         raced \subseteq raced'
  PROVE  CurrentIsLast'
<1>1. Len(calls) \in Nat /\ Len(calls') = Len(calls) - 1
  BY LenProperties DEF Removed
<1> SUFFICES ASSUME "draft" \notin raced', NEW k \in 1..Len(calls'), calls'[k].current
             PROVE  k = Len(calls')
  BY DEF CurrentIsLast
<1>2. calls'[k] = calls[IF k < i THEN k ELSE k + 1]
  BY DEF Removed
<1>3. \A l \in 1..Len(calls) : calls[l].current => l = Len(calls)
  BY DEF CurrentIsLast
<1> QED
  BY <1>1, <1>2, <1>3

LEMMA LastRequeued ==
  ASSUME calls \in Seq(Calls), CurrentIsLast, NEW i \in 1..Len(calls), Requeued(i),
         raced \subseteq raced', ~calls[i].current => "draft" \in raced'
  PROVE  CurrentIsLast'
<1>1. Len(calls) \in Nat /\ Len(calls') = Len(calls)
  BY LenProperties DEF Requeued
<1> SUFFICES ASSUME "draft" \notin raced', NEW k \in 1..Len(calls'), k # Len(calls'),
                    calls'[k].current
             PROVE  FALSE
  BY DEF CurrentIsLast
<1>2. k \in 1..(Len(calls) - 1) /\ calls'[k] = calls[IF k < i THEN k ELSE k + 1]
  BY <1>1 DEF Requeued
<1>3. \A l \in 1..Len(calls) : calls[l].current => l = Len(calls)
  BY DEF CurrentIsLast
<1>4. i = Len(calls)
  BY <1>3
<1> QED
  BY <1>1, <1>2, <1>3, <1>4

\* The continuations, by what becomes of the call.
LEMMA ContinueChanges ==
  ASSUME calls \in Seq(Calls), NEW i \in 1..Len(calls), Continue(i)
  PROVE  /\ raced \subseteq raced' /\ UNCHANGED <<timer, poll, orphans, promised, word>>
         /\ \/ /\ Requeued(i) /\ calls[i].at = "select"
               /\ ~calls[i].current => "draft" \in raced'
            \/ Removed(i)
            \/ /\ Changed(i, RecheckOf(calls[i].kind), "queued")
               /\ calls[i].kind \in Operations /\ calls[i].at = "error" /\ calls[i].current
<1>1. CASE Selected(i)
  BY <1>1, RequeuedIs, RacedGrows DEF Selected
<1>2. CASE SelectErr(i)
  BY <1>2, RemovedIs, RacedGrows DEF SelectErr
<1>3. CASE Completed(i)
  BY <1>3, RemovedIs DEF Completed, Finish
<1>4. CASE Failed(i)
  <2>1. /\ raced \subseteq raced' /\ UNCHANGED <<timer, poll, orphans, promised, word>>
        /\ calls[i].kind \in Operations /\ calls[i].at = "error"
    BY <1>4 DEF Failed, history
  <2> QED
    BY <1>4, <2>1, FailedIs
<1>5. CASE Rechecked(i)
  BY <1>5, RemovedIs DEF Rechecked, Finish
<1>6. CASE RecheckErr(i)
  BY <1>6, RemovedIs, RacedGrows DEF RecheckErr, Finish
<1> QED
  BY <1>1, <1>2, <1>3, <1>4, <1>5, <1>6 DEF Continue

\* What begins an operation, by what becomes of the calls.
LEMMA BeginsIs ==
  ASSUME TypeInv, ToggleOn \/ TimerFires \/ ToggleOff \/ ClearDrop
  PROVE  /\ Outdating /\ UNCHANGED <<orphans, promised>> /\ raced \subseteq raced'
         /\ Len(calls') \in {Len(calls), Len(calls) + 1}
         /\ Len(calls') = Len(calls) + 1 =>
              /\ calls'[Len(calls) + 1].current
              /\ calls'[Len(calls) + 1].kind \in Operations
              /\ calls'[Len(calls) + 1].at \in {"queued", "select"}
         /\ word' # "done" \/ (TimerFires /\ word' = word)
<1>1. calls \in Seq(Calls) /\ config \in Configs
  BY DEF TypeInv, StoreOK
<1>2. CASE ToggleOn \/ TimerFires
  <2>1. StartConnect
    BY <1>2 DEF ToggleOn, TimerFires
  <2>2. word' # "done" \/ (TimerFires /\ word' = word)
    BY <1>2 DEF ToggleOn, TimerFires
  <2>3. raced \subseteq raced'
    BY <1>1, <2>1, StartsConnect
  <2>4. Len(calls) \in Nat
    BY <1>1, LenProperties
  <2>5. Outdating /\ UNCHANGED <<orphans, promised>>
    BY <1>1, <2>1, StartsConnect
  <2>6. CASE Len(calls') = Len(calls)
    BY <2>2, <2>3, <2>4, <2>5, <2>6
  <2>7. CASE Len(calls') # Len(calls)
    <3>1. /\ Len(calls') = Len(calls) + 1
          /\ calls'[Len(calls) + 1].current
          /\ calls'[Len(calls) + 1].kind \in Operations
          /\ calls'[Len(calls) + 1].at \in {"queued", "select"}
      BY <1>1, <2>1, <2>7, StartsConnect DEF Operations
    <3> QED
      BY <2>2, <2>3, <2>5, <3>1
  <2> QED
    BY <2>6, <2>7
<1>3. CASE ToggleOff \/ ClearDrop
  <2>1. StartDisconnect
    BY <1>3 DEF ToggleOff, ClearDrop
  <2> QED
    BY <1>1, <2>1, StartsDisconnect DEF Operations
<1> QED
  BY <1>2, <1>3

\* What neither begins an operation nor touches a call.
StoreStep == GraceEnds \/ Poll \/ Visible \/ PollServed \/ PollErr \/ Refreshed

LEMMA StoreStepIs ==
  ASSUME StoreStep
  PROVE  UNCHANGED <<timer, calls, orphans, promised, word>> /\ raced \subseteq raced'
<1>1. CASE GraceEnds \/ Poll \/ Visible \/ PollServed \/ PollErr
  BY <1>1 DEF GraceEnds, Poll, Visible, StartRefresh, PollServed, PollErr, store, history
<1>2. CASE Refreshed
  BY <1>2, RacedGrows DEF Refreshed, FinishRefresh
<1> QED
  BY <1>1, <1>2 DEF StoreStep

LEMMA EditIs ==
  ASSUME NEW c \in Configs, Edit(c)
  PROVE  /\ UNCHANGED <<status, calls, poll, orphans, promised, word>> /\ raced \subseteq raced'
         /\ timer' => "edit" \in raced' \/ ~InFlight({"disconnect", "recheckDisconnect"})
         /\ timer' => timer \/ status \in {"connected", "connecting"}
BY RacedGrows DEF Edit

LEMMA LastStep == TypeInv /\ CurrentIsLast /\ [Next]_vars => CurrentIsLast'
<1> SUFFICES ASSUME TypeInv, CurrentIsLast, [Next]_vars PROVE CurrentIsLast'
  OBVIOUS
<1>1. calls \in Seq(Calls) /\ DOMAIN calls = 1..Len(calls)
  BY LenProperties DEF TypeInv
<1>2. CASE ToggleOn \/ TimerFires \/ ToggleOff \/ ClearDrop
  BY <1>1, <1>2, BeginsIs, LastBegun
<1>3. CASE StoreStep
  BY <1>3, StoreStepIs DEF CurrentIsLast
<1>4. ASSUME NEW c \in Configs, Edit(c) PROVE CurrentIsLast'
  BY <1>4, EditIs DEF CurrentIsLast
<1>5. ASSUME NEW i \in DOMAIN calls, Request(i) PROVE CurrentIsLast'
  BY <1>1, <1>5, RequestChanges, LastChanged DEF history
<1>6. ASSUME NEW i \in DOMAIN calls, Continue(i) PROVE CurrentIsLast'
  BY <1>1, <1>6, ContinueChanges, LastRequeued, LastRemoved, LastChanged
<1>7. CASE ServiceStep
  <2>1. CASE UNCHANGED calls
    BY <1>7, <2>1, ServiceStepIs DEF CurrentIsLast
  <2> QED
    BY <1>7, <2>1, ServiceStepIs, LastAllServed
<1>8. CASE UNCHANGED vars
  BY <1>8 DEF CurrentIsLast, vars, history
<1> QED
  BY <1>2, <1>3, <1>4, <1>5, <1>6, <1>7, <1>8 DEF Next, StoreStep, ServiceStep

-----------------------------------------------------------------------------
(* A disconnect in flight: no reconnect is scheduled, and while it is being    *)
(* served no other request is under way.                                       *)

Ending  == {"disconnect", "recheckDisconnect"}
Waiting == Answers \cup {"select"}

\* None of the overlaps that a disconnect does not survive.
Guarded == raced \cap {"edit", "draft", "poll"} = {}

Ends == \E k \in 1..Len(calls) : calls[k].current /\ calls[k].kind \in Ending

TimerHolds == Guarded /\ Ends => ~timer

Alone(i) ==
  /\ orphans = {}
  /\ \A k \in 1..Len(calls) : k # i /\ calls[k].kind \in Operations => calls[k].at \in Waiting

ServedAlone ==
  Guarded => \A i \in 1..Len(calls) :
    calls[i].current /\ calls[i].kind \in Ending /\ calls[i].at = "served" => Alone(i)

LEMMA GuardedBefore ==
  ASSUME raced \subseteq raced', Guarded'
  PROVE  Guarded /\ "draft" \notin raced' /\ "draft" \notin raced
BY DEF Guarded

LEMMA EndsBefore ==
  ASSUME calls \in Seq(Calls), Ends', NEW i \in 1..Len(calls), NEW a,
         \/ Requeued(i) \/ Removed(i) \/ Changed(i, calls[i].kind, a)
         \/ calls[i].kind \in Operations /\ Changed(i, RecheckOf(calls[i].kind), "queued")
  PROVE  Ends
<1>1. Len(calls) \in Nat
  BY LenProperties
<1>2. PICK k \in 1..Len(calls') : calls'[k].current /\ calls'[k].kind \in Ending
  BY DEF Ends
<1>3. CASE Requeued(i)
  <2>1. CASE k = Len(calls)
    BY <1>2, <1>3, <2>1 DEF Requeued, Ends
  <2>2. CASE k # Len(calls)
    <3>1. k \in 1..(Len(calls) - 1)
      BY <1>1, <1>3, <2>2 DEF Requeued
    <3>2. calls'[k] = calls[IF k < i THEN k ELSE k + 1]
      BY <1>3, <3>1 DEF Requeued
    <3>3. (IF k < i THEN k ELSE k + 1) \in 1..Len(calls)
      BY <1>1, <3>1
    <3> QED
      BY <1>2, <3>2, <3>3 DEF Ends
  <2> QED
    BY <2>1, <2>2
<1>4. CASE Removed(i)
  <2>1. calls'[k] = calls[IF k < i THEN k ELSE k + 1]
    BY <1>4 DEF Removed
  <2>2. (IF k < i THEN k ELSE k + 1) \in 1..Len(calls)
    BY <1>1, <1>4 DEF Removed
  <2> QED
    BY <1>2, <2>1, <2>2 DEF Ends
<1>5. CASE Changed(i, calls[i].kind, a)
  BY <1>2, <1>5 DEF Changed, Ends
<1>6. CASE calls[i].kind \in Operations /\ Changed(i, RecheckOf(calls[i].kind), "queued")
  BY <1>2, <1>6 DEF Changed, Ends, RecheckOf, Operations, Ending
<1> QED
  BY <1>3, <1>4, <1>5, <1>6

LEMMA EndsInFlight ==
  ASSUME calls \in Seq(Calls), Ends
  PROVE  InFlight({"disconnect", "recheckDisconnect"})
BY LenProperties DEF Ends, InFlight, Ending

LEMMA TimerStep == TypeInv /\ TimerHolds /\ [Next]_vars => TimerHolds'
<1> SUFFICES ASSUME TypeInv, TimerHolds, [Next]_vars, Guarded', Ends' PROVE ~timer'
  BY DEF TimerHolds
<1>1. calls \in Seq(Calls) /\ DOMAIN calls = 1..Len(calls)
  BY LenProperties DEF TypeInv
<1>2. CASE ToggleOn \/ TimerFires \/ ToggleOff \/ ClearDrop
  BY <1>2, BeginsIs DEF Outdating
<1>3. CASE StoreStep
  BY <1>3, StoreStepIs, GuardedBefore DEF TimerHolds, Ends
<1>4. ASSUME NEW c \in Configs, Edit(c) PROVE ~timer'
  <2>1. InFlight({"disconnect", "recheckDisconnect"})
    BY <1>1, <1>4, EditIs, EndsInFlight DEF Ends
  <2> QED
    BY <1>4, <2>1, EditIs DEF Guarded
<1>5. ASSUME NEW i \in DOMAIN calls, Request(i) PROVE ~timer'
  <2>1. PICK a \in {"served"} \cup Answers : Changed(i, calls[i].kind, a)
    BY <1>1, <1>5, RequestChanges
  <2>2. Ends
    BY <1>1, <2>1, EndsBefore
  <2> QED
    BY <1>1, <1>5, <2>2, RequestChanges DEF TimerHolds, Guarded, store, history
<1>6. ASSUME NEW i \in DOMAIN calls, Continue(i) PROVE ~timer'
  <2>1. Ends
    BY <1>1, <1>6, ContinueChanges, EndsBefore
  <2> QED
    BY <1>1, <1>6, <2>1, ContinueChanges, GuardedBefore DEF TimerHolds
<1>7. CASE ServiceStep
  <2>1. Ends
    <3>1. CASE UNCHANGED calls
      BY <3>1 DEF Ends
    <3>2. CASE \E a \in Answers : AllServed(a)
      BY <3>2 DEF Ends, AllServed
    <3> QED
      BY <1>7, <3>1, <3>2, ServiceStepIs
  <2> QED
    BY <1>7, <2>1, ServiceStepIs, GuardedBefore DEF TimerHolds, store
<1>8. CASE UNCHANGED vars
  BY <1>8 DEF TimerHolds, Ends, Guarded, vars, store, history
<1> QED
  BY <1>2, <1>3, <1>4, <1>5, <1>6, <1>7, <1>8 DEF Next, StoreStep, ServiceStep

\* Where no call is current and being served, there is nothing to show.
LEMMA AloneTrivial ==
  ASSUME \A k \in 1..Len(calls') : ~(calls'[k].current /\ calls'[k].at = "served")
  PROVE  ServedAlone'
BY DEF ServedAlone

LEMMA AloneRequest ==
  ASSUME TypeInv, CurrentIsLast, ServedAlone, NEW i \in 1..Len(calls), Request(i)
  PROVE  ServedAlone'
<1>1. calls \in Seq(Calls) /\ ServedInv /\ Len(calls) \in Nat
  BY LenProperties DEF TypeInv
<1>2. CASE Serve(i)
  <2>1. Changed(i, calls[i].kind, "served") /\ UNCHANGED <<orphans, raced>> /\ orphans = {}
    BY <1>1, <1>2, AnswerIs DEF Serve, history
  <2>2. HoldsLock(i)
    BY <1>2 DEF Serve, Sent, Operations, Rechecks
  <2>3. job = Service!NoJob
    BY <1>2 DEF Serve, Service!Connect, Service!Disconnect, Service!Listening
  <2>4. \A k \in 1..Len(calls) : calls[k].at # "served"
    BY <1>1, <2>3, NoneServed
  <2> SUFFICES ASSUME Guarded', NEW l \in 1..Len(calls'), calls'[l].current,
                      calls'[l].at = "served"
               PROVE  Alone(l)'
    BY DEF ServedAlone
  <2>5. l = i /\ calls[i].current
    BY <2>1, <2>4 DEF Changed
  <2>6. i = Len(calls)
    BY <2>1, <2>5 DEF CurrentIsLast, Guarded
  <2>7. \A k \in 1..Len(calls) :
          k # i /\ calls[k].kind \in Operations => calls[k].at \in Waiting
    BY <1>1, <2>2, <2>6 DEF HoldsLock, Waiting
  <2> QED
    BY <2>1, <2>5, <2>7 DEF Alone, Changed
<1>3. CASE PrepareErr(i) \/ RecheckServed(i) \/ Unreachable(i) \/ TimeOut(i)
  <2>1. PICK a \in Answers : Changed(i, calls[i].kind, a)
    BY <1>1, <1>3, AnswerIs, ShownIs
    DEF PrepareErr, RecheckServed, Unreachable, TimeOut, Answers
  <2>2. UNCHANGED raced /\ a # "served" /\ a \in Waiting
    BY <1>3 DEF PrepareErr, RecheckServed, Unreachable, TimeOut, history, Answers, Shows, Waiting
  <2>3. \/ UNCHANGED orphans
        \/ calls[i].kind \in Operations /\ calls[i].at = "queued"
    BY <1>3 DEF PrepareErr, RecheckServed, Unreachable, TimeOut, Sent
  <2> SUFFICES ASSUME Guarded', NEW l \in 1..Len(calls'), calls'[l].current,
                      calls'[l].kind \in Ending, calls'[l].at = "served"
               PROVE  Alone(l)'
    BY DEF ServedAlone
  <2>4. l # i /\ l \in 1..Len(calls) /\ calls'[l] = calls[l]
    BY <2>1, <2>2 DEF Changed
  <2>5. Alone(l)
    BY <2>2, <2>4 DEF ServedAlone, Guarded
  <2>6. UNCHANGED orphans
    BY <2>3, <2>4, <2>5 DEF Alone, Waiting, Answers, Shows
  <2> QED
    BY <2>1, <2>2, <2>5, <2>6 DEF Alone, Changed
<1> QED
  BY <1>2, <1>3 DEF Request

LEMMA AloneContinue ==
  ASSUME TypeInv, CurrentIsLast, ServedAlone, NEW i \in 1..Len(calls), Continue(i)
  PROVE  ServedAlone'
<1>1. calls \in Seq(Calls) /\ Len(calls) \in Nat
  BY LenProperties DEF TypeInv
<1>2. raced \subseteq raced' /\ UNCHANGED orphans
  BY <1>1, ContinueChanges
<1> SUFFICES ASSUME Guarded', NEW l \in 1..Len(calls'), calls'[l].current,
                    calls'[l].kind \in Ending, calls'[l].at = "served"
             PROVE  Alone(l)'
  BY DEF ServedAlone
<1>3. Guarded /\ "draft" \notin raced' /\ "draft" \notin raced
  BY <1>2, GuardedBefore
<1>4. CASE Requeued(i) /\ calls[i].at = "select" /\ (~calls[i].current => "draft" \in raced')
  <2>1. i = Len(calls) /\ Len(calls') = Len(calls)
    BY <1>3, <1>4 DEF CurrentIsLast, Requeued
  <2>2. l # Len(calls)
    BY <1>4 DEF Requeued
  <2>3. l \in 1..(Len(calls) - 1)
    BY <1>1, <2>1, <2>2
  <2>4. calls'[l] = calls[l] /\ l \in 1..Len(calls)
    BY <1>1, <1>4, <2>1, <2>3 DEF Requeued
  <2> QED
    BY <1>3, <2>1, <2>2, <2>4 DEF CurrentIsLast
<1>5. CASE Removed(i)
  <2> DEFINE from(k) == IF k < i THEN k ELSE k + 1
  <2>0. Len(calls') = Len(calls) - 1
    BY <1>5 DEF Removed
  <2>1. \A k \in 1..Len(calls') : from(k) \in 1..Len(calls) /\ calls'[k] = calls[from(k)]
    <3>1. \A k \in 1..Len(calls') : calls'[k] = calls[from(k)]
      BY <1>5 DEF Removed
    <3>2. \A k \in 1..Len(calls') : from(k) \in 1..Len(calls)
      BY <1>1, <2>0
    <3> QED
      BY <3>1, <3>2
  <2>2. \A k \in 1..Len(calls') : k # l => from(k) # from(l)
    BY <1>1, <2>0
  <2> HIDE DEF from
  <2>3. Alone(from(l))
    BY <1>3, <2>1 DEF ServedAlone
  <2> QED
    BY <1>2, <2>1, <2>2, <2>3 DEF Alone
<1>6. CASE Changed(i, RecheckOf(calls[i].kind), "queued") /\ calls[i].kind \in Operations
  <2>1. l # i /\ l \in 1..Len(calls) /\ calls'[l] = calls[l]
    BY <1>6 DEF Changed
  <2>2. Alone(l)
    BY <1>3, <2>1 DEF ServedAlone
  <2>3. calls'[i].kind \notin Operations
    BY <1>6 DEF Changed, RecheckOf, Operations
  <2> QED
    BY <1>2, <1>6, <2>1, <2>2, <2>3 DEF Alone, Changed
<1> QED
  BY <1>1, <1>4, <1>5, <1>6, ContinueChanges

LEMMA AloneStep == TypeInv /\ CurrentIsLast /\ ServedAlone /\ [Next]_vars => ServedAlone'
<1> SUFFICES ASSUME TypeInv, CurrentIsLast, ServedAlone, [Next]_vars PROVE ServedAlone'
  OBVIOUS
<1>1. calls \in Seq(Calls) /\ DOMAIN calls = 1..Len(calls) /\ Len(calls) \in Nat
  BY LenProperties DEF TypeInv
<1>2. CASE ToggleOn \/ TimerFires \/ ToggleOff \/ ClearDrop
  <2>1. \A k \in 1..Len(calls') : ~(calls'[k].current /\ calls'[k].at = "served")
    <3>1. \A k \in 1..Len(calls) : ~calls'[k].current
      BY <1>2, BeginsIs DEF Outdating
    <3>2. \A k \in 1..Len(calls') : k \in 1..Len(calls) \/ k = Len(calls) + 1
      BY <1>1, <1>2, BeginsIs
    <3>3. ASSUME Len(calls) + 1 \in 1..Len(calls')
          PROVE  calls'[Len(calls) + 1].at # "served"
      <4>1. Len(calls') = Len(calls) + 1
        BY <1>1, <1>2, <3>3, BeginsIs
      <4> QED
        BY <1>2, <4>1, BeginsIs
    <3> QED
      BY <3>1, <3>2, <3>3
  <2> QED
    BY <2>1, AloneTrivial
<1>3. CASE StoreStep
  BY <1>3, StoreStepIs, GuardedBefore DEF ServedAlone, Alone
<1>4. ASSUME NEW c \in Configs, Edit(c) PROVE ServedAlone'
  BY <1>4, EditIs, GuardedBefore DEF ServedAlone, Alone
<1>5. ASSUME NEW i \in DOMAIN calls, Request(i) PROVE ServedAlone'
  BY <1>1, <1>5, AloneRequest
<1>6. ASSUME NEW i \in DOMAIN calls, Continue(i) PROVE ServedAlone'
  BY <1>1, <1>6, AloneContinue
<1>7. CASE ServiceStep
  <2>1. CASE \E a \in Answers : AllServed(a)
    <3>1. \A k \in 1..Len(calls') : calls'[k].at # "served"
      BY <2>1 DEF AllServed, Answers, Shows
    <3> QED
      BY <3>1, AloneTrivial
  <2>2. CASE UNCHANGED calls
    <3>1. orphans = {} => orphans' = {}
      BY <1>7, JobOkIs, JobErrIs
      DEF ServiceStep, JobProgress, ServiceLoses, ServiceCrashes, ServiceStarts, ServeOrphan
    <3>2. Guarded' => Guarded
      BY <1>7, ServiceStepIs, GuardedBefore
    <3> QED
      BY <2>2, <3>1, <3>2 DEF ServedAlone, Alone
  <2> QED
    BY <1>7, <2>1, <2>2, ServiceStepIs
<1>8. CASE UNCHANGED vars
  BY <1>8 DEF ServedAlone, Alone, Guarded, vars, history
<1> QED
  BY <1>2, <1>3, <1>4, <1>5, <1>6, <1>7, <1>8 DEF Next, StoreStep, ServiceStep

-----------------------------------------------------------------------------
(* After a disconnect that was carried out. *)

\* No call can still ask for a connection, or show one.
CallDone(c) ==
  /\ c.kind \in Operations => c.at \in Waiting
  /\ c.current => c.kind = "disconnect" /\ c.at \in {"disconnected", "dropped"}

CallsDone == \A k \in 1..Len(calls) : CallDone(calls[k])

StoreDone ==
  /\ timer = FALSE /\ poll # "connected"
  /\ status \in {"disconnected", "dropped"} \/ Owner

ServiceDone ==
  /\ orphans = {} /\ tunnel = None /\ service # "Connected"
  /\ job.kind \in {"none", "recover"} /\ job.target = None

Done == word = "done" /\ Guarded => CallsDone /\ StoreDone /\ ServiceDone

DoneInv == TypeInv /\ CurrentIsLast /\ TimerHolds /\ ServedAlone /\ Done

LEMMA DoneRemoved ==
  ASSUME calls \in Seq(Calls), CallsDone, NEW i \in 1..Len(calls), Removed(i)
  PROVE  CallsDone'
<1>1. Len(calls) \in Nat /\ Len(calls') = Len(calls) - 1
  BY LenProperties DEF Removed
<1>2. \A k \in 1..Len(calls') : (IF k < i THEN k ELSE k + 1) \in 1..Len(calls)
  BY <1>1
<1>3. \A k \in 1..Len(calls') : calls'[k] = calls[IF k < i THEN k ELSE k + 1]
  BY DEF Removed
<1> QED
  BY <1>2, <1>3 DEF CallsDone

LEMMA DoneChanged ==
  ASSUME CallsDone, NEW i \in 1..Len(calls), NEW kind, NEW at, Changed(i, kind, at),
         kind \notin Operations, ~calls[i].current
  PROVE  CallsDone'
<1>1. CallDone(calls'[i])
  BY DEF Changed, CallDone
<1> QED
  BY <1>1 DEF Changed, CallsDone

\* Answers to requests reach nobody.
LEMMA DoneAllServed ==
  ASSUME TypeInv, CallsDone, NEW a, AllServed(a)
  PROVE  CallsDone' /\ (Owner => Owner')
<1>1. \A k \in 1..Len(calls) : calls[k].at # "served"
  BY DEF TypeInv, ServedInv, CallOK, CallsDone, CallDone, Waiting, Answers, Shows, Operations
<1>2. \A k \in 1..Len(calls) : calls'[k] = calls[k]
  BY <1>1 DEF AllServed
<1> QED
  BY <1>2 DEF AllServed, CallsDone, Owner

LEMMA DoneStoreStep ==
  ASSUME StoreDone, ServiceDone, StoreStep
  PROVE  StoreDone'
<1>1. UNCHANGED <<timer, calls>>
  BY StoreStepIs
<1>2. Owner => Owner'
  BY <1>1 DEF Owner
<1>3. CASE GraceEnds
  BY <1>1, <1>2, <1>3 DEF GraceEnds, StoreDone
<1>4. CASE Poll \/ Visible \/ PollErr
  BY <1>1, <1>2, <1>4 DEF Poll, Visible, PollErr, StartRefresh, NoPoll, StoreDone, store
<1>5. CASE PollServed
  BY <1>1, <1>2, <1>5, ShownIs DEF PollServed, StoreDone, ServiceDone, store
<1>6. CASE Refreshed
  <2>1. poll' # "connected"
    BY <1>6 DEF Refreshed, FinishRefresh, NoPoll
  <2>2. status' \in {status, "disconnected", "dropped"}
    BY <1>6 DEF Refreshed, Apply, Ignore, Shows, StoreDone
  <2> QED
    BY <1>1, <1>2, <2>1, <2>2 DEF StoreDone
<1> QED
  BY <1>3, <1>4, <1>5, <1>6 DEF StoreStep

LEMMA DoneEdit ==
  ASSUME TypeInv, CallsDone, StoreDone, NEW c \in Configs, Edit(c), Guarded'
  PROVE  StoreDone'
<1>1. Owner => Ends
  BY DEF Owner, Ends, CallsDone, CallDone, Ending
<1>2. Owner => InFlight({"disconnect", "recheckDisconnect"})
  BY <1>1, EndsInFlight DEF TypeInv
<1>3. timer' \in BOOLEAN
  BY DEF Edit, TypeInv, StoreOK
<1>4. ~timer'
  BY <1>2, EditIs DEF StoreDone, Guarded
<1>5. Owner => Owner'
  BY EditIs DEF Owner
<1> QED
  BY <1>3, <1>4, <1>5, EditIs DEF StoreDone

LEMMA DoneRequest ==
  ASSUME TypeInv, CallsDone, StoreDone, ServiceDone, NEW i \in 1..Len(calls), Request(i)
  PROVE  CallsDone' /\ StoreDone' /\ ServiceDone'
<1>1. calls \in Seq(Calls) /\ CallDone(calls[i]) /\ CallOK(calls[i], job, service)
  BY DEF TypeInv, CallsDone, ServedInv
<1>2. calls[i].at \in {"queued", "served"}
  BY DEF Request, PrepareErr, Serve, RecheckServed, Unreachable, TimeOut, Sent
<1>3. calls[i].at \notin Waiting
  BY <1>2 DEF Waiting, Answers, Shows
<1>4. calls[i].kind \notin Operations /\ ~calls[i].current /\ calls[i].at # "served"
  BY <1>1, <1>2, <1>3 DEF CallDone, CallOK, Operations
<1>5. PICK a \in {"served"} \cup Answers : Changed(i, calls[i].kind, a)
  BY <1>1, RequestChanges
<1>6. CallsDone' /\ (Owner => Owner')
  BY <1>4, <1>5, DoneChanged, ChangedOwner
<1>7. UNCHANGED <<orphans, promised>>
  BY <1>4 DEF Request, PrepareErr, Serve, RecheckServed, Unreachable, TimeOut, Operations
<1>8. UNCHANGED <<store, poll>>
  BY <1>1, RequestChanges
<1> QED
  BY <1>6, <1>7, <1>8 DEF StoreDone, ServiceDone, store, promised

LEMMA DoneContinue ==
  ASSUME TypeInv, CallsDone, StoreDone, ServiceDone, NEW i \in 1..Len(calls), Continue(i), Guarded'
  PROVE  CallsDone' /\ StoreDone' /\ ServiceDone'
<1>1. calls \in Seq(Calls) /\ CallDone(calls[i]) /\ CallOK(calls[i], job, service)
  BY DEF TypeInv, CallsDone, ServedInv
<1>2. UNCHANGED <<timer, poll, orphans, promised>>
  BY <1>1, ContinueChanges
<1>3. ServiceDone'
  BY <1>2 DEF ServiceDone, promised
<1>4. CASE Selected(i)
  <2>1. ~calls[i].current
    BY <1>1, <1>4 DEF Selected, CallOK, CallDone
  <2>2. "draft" \in raced'
    BY <1>4, <2>1, RacedGrows DEF Selected
  <2> QED
    BY <2>2 DEF Guarded
<1>5. CASE ~Selected(i)
  <2>1. calls[i].kind \in Operations /\ calls[i].at = "error" => ~calls[i].current
    BY <1>1 DEF CallDone
  <2>2. ~(Requeued(i) /\ calls[i].at = "select") \/ Removed(i)
    <3>1. CASE Failed(i)
      BY <3>1 DEF Failed
    <3>2. CASE ~Failed(i)
      BY <1>1, <1>5, <3>2, RemovedIs
      DEF Continue, SelectErr, Completed, Rechecked, RecheckErr, Finish
    <3> QED
      BY <3>1, <3>2
  <2>3. Removed(i)
    BY <1>1, <2>1, <2>2, ContinueChanges
  <2>4. CallsDone'
    BY <1>1, <2>3, DoneRemoved
  <2>5. CASE calls[i].current
    <3>1. calls[i].kind = "disconnect" /\ calls[i].at \in {"disconnected", "dropped"}
      BY <1>1, <2>5 DEF CallDone
    <3>2. Completed(i)
      BY <1>5, <3>1 DEF Continue, SelectErr, Failed, Rechecked, RecheckErr, Rechecks
    <3>3. status' \in {"disconnected", "dropped"}
      BY <2>5, <3>1, <3>2 DEF Completed, Apply
    <3> QED
      BY <1>2, <1>3, <2>4, <3>3 DEF StoreDone
  <2>6. CASE ~calls[i].current
    <3>1. Owner => Owner'
      BY <2>3, <2>6, RemovedOwner
    <3>2. status' \in {status, "disconnected", "dropped"}
      BY <1>5, <2>6 DEF Continue, SelectErr, Completed, Failed, Rechecked, RecheckErr, Ignore
    <3> QED
      BY <1>2, <1>3, <2>4, <3>1, <3>2 DEF StoreDone
  <2> QED
    BY <2>5, <2>6
<1> QED
  BY <1>4, <1>5

\* The service goes on with nothing that leads to a tunnel.
LEMMA ServiceStaysDone ==
  ASSUME TypeInv, ServiceDone, ServiceStep
  PROVE  ServiceDone'
<1>1. ServiceOK
  BY DEF TypeInv
<1>2. CASE JobOk
  <2>1. ~Service!Succeed /\ ~Service!Clear
    BY <1>1, ServiceEnds DEF ServiceDone
  <2>2. service' \in {"Blocked", "Disconnected"}
    BY <1>1, <1>2, <2>1, ServiceEnds DEF JobOk
  <2> QED
    BY <1>2, <2>2, JobOkIs, NoJobIs DEF ServiceDone
<1>3. CASE JobErr
  BY <1>1, <1>3, ServiceEnds DEF JobErr, ServiceDone
<1>4. CASE JobProgress
  BY <1>1, <1>4, ServiceProgresses DEF JobProgress, ServiceDone
<1>5. CASE ServiceLoses
  BY <1>1, <1>5, ServiceIsLosing DEF ServiceLoses, ServiceDone
<1>6. CASE ServiceCrashes
  BY <1>1, <1>6, ServiceIsCrashing, NoJobIs DEF ServiceCrashes, ServiceDone
<1>7. CASE ServiceStarts
  BY <1>1, <1>7, ServiceRecovers DEF ServiceStarts, ServiceDone
<1>8. CASE \E o \in Configs \cup {None} : ServeOrphan(o)
  BY <1>8 DEF ServeOrphan, ServiceDone
<1> QED
  BY <1>2, <1>3, <1>4, <1>5, <1>6, <1>7, <1>8 DEF ServiceStep

LEMMA DoneService ==
  ASSUME TypeInv, CallsDone, StoreDone, ServiceDone, ServiceStep
  PROVE  CallsDone' /\ StoreDone' /\ ServiceDone'
<1>1. CallsDone' /\ (Owner => Owner')
  <2>1. CASE UNCHANGED calls
    BY <2>1 DEF CallsDone, Owner
  <2> QED
    BY <2>1, ServiceStepIs, DoneAllServed
<1>2. StoreDone'
  BY <1>1, ServiceStepIs DEF StoreDone, store
<1> QED
  BY <1>1, <1>2, ServiceStaysDone

\* The step that carries out the user's word.
LEMMA BecomesDone ==
  ASSUME TypeInv, CurrentIsLast, TimerHolds, ServedAlone, JobOk, word # "done", word' = "done",
         Guarded'
  PROVE  CallsDone' /\ StoreDone' /\ ServiceDone'
<1>1. calls \in Seq(Calls) /\ ServiceOK /\ ServedInv /\ DOMAIN calls = 1..Len(calls)
      /\ timer \in BOOLEAN
  BY LenProperties DEF TypeInv, StoreOK
<1>2. Guarded /\ "draft" \notin raced
  BY JobOkIs DEF Guarded
<1>3. job.kind = "clear" /\ \E i \in Served : calls[i].current
  BY DEF JobOk
<1>4. PICK i \in 1..Len(calls) : calls[i].at = "served" /\ calls[i].current
  BY <1>1, <1>3 DEF Served
<1>5. calls[i].kind = "disconnect" /\ job.keep = FALSE
  BY <1>1, <1>3, <1>4 DEF ServedInv, CallOK
<1>6. ~timer /\ Alone(i)
  BY <1>2, <1>4, <1>5 DEF TimerHolds, Ends, Ending, ServedAlone
<1>7. ~Service!Succeed /\ ~Service!Settle
  BY <1>1, <1>3, ServiceEnds
<1>8. tunnel = None /\ service' = "Disconnected"
  BY <1>1, <1>5, <1>7, ServiceEnds DEF JobOk
<1>9. Shown(service') = "disconnected"
  BY <1>8 DEF Shown
<1>10. /\ AllServed("disconnected") /\ UNCHANGED <<tunnel, store, orphans, poll>>
       /\ job' = Service!NoJob
  BY <1>9, JobOkIs
<1>11. poll # "connected"
  <2>1. Served # {}
    BY <1>3
  <2>2. Overtake
    BY <2>1 DEF JobOk, JobDone
  <2>3. poll \in Shows => "poll" \in raced'
    BY <2>2, RacedGrows DEF Overtake
  <2> QED
    BY <2>3 DEF Guarded, Shows
<1>12. ASSUME NEW k \in 1..Len(calls) PROVE CallDone(calls'[k])
  <2>1. CASE k = i
    BY <1>4, <1>5, <1>10, <2>1 DEF AllServed, CallDone, Waiting, Answers, Shows
  <2>2. CASE k # i
    <3>1. ~calls[k].current
      BY <1>2, <1>4, <2>2 DEF CurrentIsLast
    <3>2. calls[k].at # "served"
      BY <1>1, <1>4, <2>2 DEF ServedInv
    <3>3. calls'[k] = calls[k]
      BY <1>10, <3>2 DEF AllServed
    <3> QED
      BY <1>6, <2>2, <3>1, <3>3 DEF Alone, CallDone
  <2> QED
    BY <2>1, <2>2
<1>13. CallsDone'
  BY <1>10, <1>12 DEF CallsDone, AllServed
<1>14. Owner'
  BY <1>4, <1>10, AllServedOwner DEF Owner
<1>15. StoreDone'
  BY <1>1, <1>6, <1>10, <1>11, <1>14 DEF StoreDone, store
<1>16. ServiceDone'
  BY <1>6, <1>8, <1>10, NoJobIs DEF ServiceDone, Alone
<1> QED
  BY <1>13, <1>15, <1>16

LEMMA DoneStep == DoneInv /\ [Next]_vars => Done'
<1> SUFFICES ASSUME DoneInv, [Next]_vars, word' = "done", Guarded'
             PROVE  CallsDone' /\ StoreDone' /\ ServiceDone'
  BY DEF Done
<1> USE DEF DoneInv
<1>1. calls \in Seq(Calls) /\ DOMAIN calls = 1..Len(calls)
  BY LenProperties DEF TypeInv
<1>2. CASE ToggleOn \/ TimerFires \/ ToggleOff \/ ClearDrop
  <2>1. TimerFires /\ word = "done" /\ Guarded
    BY <1>2, BeginsIs, GuardedBefore
  <2> QED
    BY <2>1 DEF TimerFires, Done, StoreDone
<1>3. CASE StoreStep
  <2>1. word = "done" /\ Guarded /\ UNCHANGED <<calls, orphans, promised>>
    BY <1>3, StoreStepIs, GuardedBefore
  <2> QED
    BY <1>3, <2>1, DoneStoreStep DEF Done, CallsDone, ServiceDone, promised
<1>4. ASSUME NEW c \in Configs, Edit(c)
      PROVE  CallsDone' /\ StoreDone' /\ ServiceDone'
  <2>1. word = "done" /\ Guarded /\ UNCHANGED <<calls, orphans, promised>>
    BY <1>4, EditIs, GuardedBefore
  <2> QED
    BY <1>4, <2>1, DoneEdit DEF Done, CallsDone, ServiceDone, promised
<1>5. ASSUME NEW i \in DOMAIN calls, Request(i)
      PROVE  CallsDone' /\ StoreDone' /\ ServiceDone'
  <2>1. word = "done" /\ Guarded
    BY <1>1, <1>5, RequestChanges DEF history, Guarded
  <2> QED
    BY <1>1, <1>5, <2>1, DoneRequest DEF Done
<1>6. ASSUME NEW i \in DOMAIN calls, Continue(i)
      PROVE  CallsDone' /\ StoreDone' /\ ServiceDone'
  <2>1. word = "done" /\ Guarded
    BY <1>1, <1>6, ContinueChanges, GuardedBefore
  <2> QED
    BY <1>1, <1>6, <2>1, DoneContinue DEF Done
<1>7. CASE ServiceStep
  <2>1. Guarded
    BY <1>7, ServiceStepIs, GuardedBefore
  <2>2. CASE word = "done"
    BY <1>7, <2>1, <2>2, DoneService DEF Done
  <2>3. CASE word # "done"
    <3>1. JobOk
      BY <1>7, <2>3
      DEF ServiceStep, JobErr, JobProgress, ServiceLoses, ServiceCrashes, ServiceStarts, ServeOrphan, history
    <3> QED
      BY <2>3, <3>1, BecomesDone
  <2> QED
    BY <2>2, <2>3
<1>8. CASE UNCHANGED vars
  BY <1>8
  DEF Done, CallsDone, StoreDone, ServiceDone, Owner, Guarded, vars, store, promised, history
<1> QED
  BY <1>2, <1>3, <1>4, <1>5, <1>6, <1>7, <1>8 DEF Next, StoreStep, ServiceStep

LEMMA DoneInit == Init => DoneInv
<1> SUFFICES ASSUME Init PROVE DoneInv
  OBVIOUS
<1>1. Len(calls) = 0 /\ timer = FALSE /\ word = "none"
  BY DEF Init
<1> QED
  BY <1>1, TypeInvInit DEF DoneInv, CurrentIsLast, TimerHolds, ServedAlone, Done

\* After a disconnect the service carried out, nothing but the user's own word
\* brings a tunnel back, whatever is delivered late, times out, crashes or is
\* changed in the meantime: nothing that could still ask for one has survived
\* the gate, and the service is left with no work that leads to one.
THEOREM DisconnectStays == Spec => []DisconnectIsFinal
<1>1. DoneInv /\ [Next]_vars => DoneInv'
  BY TypeInvStep, LastStep, TimerStep, AloneStep, DoneStep DEF DoneInv
<1>2. DoneInv => DisconnectIsFinal
  BY DEF DoneInv, Done, DisconnectIsFinal, Guarded, ServiceDone
<1> QED
  BY <1>1, <1>2, DoneInit, PTL DEF Spec

-----------------------------------------------------------------------------
(* The tunnel behind each phase of the service. *)

WorkInv ==
  /\ job.kind = "none" => job = Service!NoJob
  /\ job.kind = "established" => tunnel = job.target /\ tunnel # None
  /\ job.kind \in {"recover", "clear"} => service = "Busy"
  /\ service = "Connected" => tunnel # None
  /\ service = "Disconnected" /\ job.kind # "established" => tunnel = None

\* Only these steps reach the service.
LEMMA ServiceIsAsked ==
  ASSUME TypeInv, [Next]_vars
  PROVE  \/ UNCHANGED promised
         \/ \E c \in Configs : Service!Connect(c)
         \/ Service!Disconnect(FALSE)
         \/ JobOk \/ JobErr \/ JobProgress \/ Service!Lose \/ Service!Crash \/ Service!Recover
<1>1. calls \in Seq(Calls) /\ DOMAIN calls = 1..Len(calls) /\ ServedInv
  BY LenProperties DEF TypeInv
<1>2. CASE ToggleOn \/ TimerFires \/ ToggleOff \/ ClearDrop
  BY <1>2, BeginsIs
<1>3. CASE StoreStep
  BY <1>3, StoreStepIs
<1>4. ASSUME NEW c \in Configs, Edit(c) PROVE UNCHANGED promised
  BY <1>4, EditIs
<1>5. ASSUME NEW i \in 1..Len(calls), Request(i)
      PROVE  \/ UNCHANGED promised \/ Service!Disconnect(FALSE)
             \/ \E c \in Configs : Service!Connect(c)
  <2>1. CASE Serve(i)
    <3>1. CASE calls[i].kind = "connect"
      <4>1. calls[i].config \in Configs
        BY <1>1, <2>1, <3>1 DEF Serve, Sent, ServedInv, CallOK
      <4> QED
        BY <2>1, <3>1, <4>1 DEF Serve
    <3> QED
      BY <2>1, <3>1 DEF Serve
  <2> QED
    BY <1>5, <2>1 DEF Request, PrepareErr, RecheckServed, Unreachable, TimeOut
<1>6. ASSUME NEW i \in 1..Len(calls), Continue(i) PROVE UNCHANGED promised
  BY <1>1, <1>6, ContinueChanges
<1>7. ASSUME NEW o \in Configs \cup {None}, ServeOrphan(o)
      PROVE  Service!Disconnect(FALSE) \/ \E c \in Configs : Service!Connect(c)
  BY <1>7 DEF ServeOrphan
<1>8. CASE UNCHANGED vars
  BY <1>8 DEF vars, promised
<1> QED
  BY <1>1, <1>2, <1>3, <1>4, <1>5, <1>6, <1>7, <1>8
  DEF Next, StoreStep, ServiceLoses, ServiceCrashes, ServiceStarts

LEMMA WorkStep == TypeInv /\ WorkInv /\ [Next]_vars => WorkInv'
<1> SUFFICES ASSUME TypeInv, WorkInv, [Next]_vars PROVE WorkInv'
  OBVIOUS
<1>1. ServiceOK
  BY DEF TypeInv
<1>2. CASE UNCHANGED promised
  BY <1>2 DEF WorkInv, promised
<1>3. ASSUME NEW c \in Configs, Service!Connect(c) PROVE WorkInv'
  <2>1. /\ UNCHANGED <<service, tunnel>> /\ service \notin {"Down", "Busy"}
        /\ job = Service!NoJob /\ job'.kind = "connect"
    BY <1>1, <1>3, ServiceConnects
  <2> QED
    BY <2>1, NoJobIs DEF WorkInv
<1>4. CASE Service!Disconnect(FALSE)
  <2>1. service' = "Busy" /\ job'.kind = "clear"
    BY <1>1, <1>4, ServiceDisconnects
  <2> QED
    BY <2>1 DEF WorkInv
<1>5. CASE Service!Lose
  <2>1. service' = "Busy" /\ job'.kind = "clear"
    BY <1>1, <1>5, ServiceIsLosing
  <2> QED
    BY <2>1 DEF WorkInv
<1>6. CASE Service!Crash
  <2>1. service' = "Down" /\ job' = Service!NoJob
    BY <1>1, <1>6, ServiceIsCrashing
  <2> QED
    BY <2>1, NoJobIs DEF WorkInv
<1>7. CASE Service!Recover
  <2>1. service' = "Busy" /\ job'.kind = "recover"
    BY <1>1, <1>7, ServiceRecovers
  <2> QED
    BY <2>1 DEF WorkInv
<1>8. CASE JobProgress
  <2>1. CASE Service!Establish
    <3>1. /\ UNCHANGED service /\ job.target # None /\ tunnel' = job.target
          /\ job.kind \in {"connect", "recover"} /\ job'.kind = "established"
          /\ job'.target = job.target
      BY <1>1, <2>1 DEF Service!Establish, ServiceOK, Jobs
    <3> QED
      BY <3>1 DEF WorkInv
  <2>2. CASE Service!Drop
    <3>1. /\ UNCHANGED <<service, job>> /\ tunnel' = None /\ job # Service!NoJob
          /\ job.kind # "established" /\ ~(job.kind = "connect" /\ service = "Connected")
      BY <2>2 DEF Service!Drop, Service!Switching
    <3>2. job.kind \in {"connect", "clear", "recover"}
      BY <1>1, <3>1 DEF WorkInv, ServiceOK, Jobs
    <3> QED
      BY <3>1, <3>2 DEF WorkInv
  <2>3. CASE Service!GiveUpRecovery
    <3>1. UNCHANGED <<service, tunnel>> /\ service = "Busy" /\ job'.kind = "recover"
      BY <2>3 DEF Service!GiveUpRecovery, Service!Job
    <3> QED
      BY <3>1 DEF WorkInv
  <2> QED
    BY <1>8, <2>1, <2>2, <2>3 DEF JobProgress
<1>9. CASE JobOk \/ JobErr
  <2>1. job' = Service!NoJob /\ UNCHANGED tunnel
    BY <1>9, JobOkIs, JobErrIs
  <2>2. service' = "Connected" => tunnel # None
    <3>1. CASE Service!Succeed
      BY <3>1 DEF Service!Succeed, WorkInv
    <3>2. CASE Service!Clear \/ Service!Settle \/ Service!Fall \/ Service!Break
      BY <3>2 DEF Service!Clear, Service!Settle, Service!Fall, Service!Break, Service!End,
                  Service!Closed
    <3>3. CASE Service!Reject
      BY <3>3 DEF Service!Reject, Service!End, WorkInv
    <3> QED
      BY <1>9, <3>1, <3>2, <3>3 DEF JobOk, JobErr
  <2>3. service' = "Disconnected" => tunnel = None
    <3>1. CASE Service!Succeed \/ Service!Break
      BY <3>1 DEF Service!Succeed, Service!Break, Service!End
    <3>2. CASE Service!Clear \/ Service!Settle \/ Service!Fall
      BY <3>2 DEF Service!Clear, Service!Settle, Service!Fall, Service!End
    <3>3. CASE Service!Reject
      BY <3>3 DEF Service!Reject, Service!End, WorkInv
    <3> QED
      BY <1>9, <3>1, <3>2, <3>3 DEF JobOk, JobErr
  <2> QED
    BY <2>1, <2>2, <2>3, NoJobIs DEF WorkInv
<1> QED
  BY <1>2, <1>3, <1>4, <1>5, <1>6, <1>7, <1>8, <1>9, ServiceIsAsked

-----------------------------------------------------------------------------
(* What is shown against what runs. *)

\* The overlaps a shown "connected" does not survive.
Faithful == raced \cap {"draft", "poll", "stale"} = {}

Gone == ServiceDone /\ poll # "connected"

\* No tunnel, or that of a configuration with the signature of what is configured.
Alike(c) == c = None \/ SameSignature(c, config)

\* The service has such a tunnel, and goes on to no other.
Settled ==
  /\ orphans = {}
  /\ Alike(tunnel) /\ Alike(job.target)
  /\ poll = "disconnected" => Gone

\* What is known of a current call.
ConnectTracked(i) ==
  /\ calls[i].at # "select" => status = "connecting"
  /\ calls[i].at = "queued" => timer \/ Alike(calls[i].config)
  /\ calls[i].at = "served" => Alone(i) /\ (timer \/ Alike(job.target))
  /\ calls[i].at \in Shows => Alone(i) /\ calls[i].at = "connected" /\ (timer \/ Settled)

DisconnectTracked(i) ==
  /\ calls[i].at = "served" => Alone(i)
  /\ calls[i].at \in Shows => Alone(i) /\ calls[i].at = "disconnected" /\ Gone

Tracked(i) ==
  /\ calls[i].kind \in Rechecks => error
  /\ calls[i].kind = "connect" => ConnectTracked(i)
  /\ calls[i].kind = "disconnect" => DisconnectTracked(i)

TrackedInv == Faithful => \A i \in 1..Len(calls) : calls[i].current => Tracked(i)

\* What is known when nothing is left to change what is shown: there is no
\* call 0.
ShownOK ==
  /\ Alone(0)
  /\ \/ status = "connected" /\ Settled
     \/ status = "disconnected" /\ Gone

ShownInv == Faithful /\ ~error /\ ~timer /\ ~Owner => ShownOK

FaithfulInv == TypeInv /\ CurrentIsLast /\ WorkInv /\ TrackedInv /\ ShownInv

LEMMA FaithfulBefore ==
  ASSUME raced \subseteq raced', Faithful'
  PROVE  Faithful /\ "draft" \notin raced' /\ "draft" \notin raced
BY DEF Faithful

LEMMA FaithfulShows == FaithfulInv => ShownIsRunning
<1> SUFFICES ASSUME FaithfulInv, Quiet, status = "connected", service = "Connected", ~error,
                    Faithful
             PROVE  tunnel # None /\ SameSignature(tunnel, config)
  BY DEF ShownIsRunning, Faithful
<1>1. ~timer /\ ~Owner
  BY DEF Quiet, Owner
<1>2. Settled
  BY <1>1 DEF FaithfulInv, ShownInv, ShownOK
<1> QED
  BY <1>2 DEF Settled, Alike, FaithfulInv, WorkInv

\* A status read now is what Gone and Settled say of one.
LEMMA GoneIsRead ==
  ASSUME Gone, StoreStep
  PROVE  Gone'
<1>1. ServiceDone'
  BY StoreStepIs DEF Gone, ServiceDone, promised
<1>2. poll' # "connected"
  BY ShownIs
  DEF StoreStep, GraceEnds, Poll, Visible, StartRefresh, PollServed, PollErr, Refreshed,
      FinishRefresh, NoPoll, Gone, ServiceDone
<1> QED
  BY <1>1, <1>2 DEF Gone

LEMMA SettledIsRead ==
  ASSUME TypeInv, WorkInv, Settled, StoreStep
  PROVE  Settled'
<1>1. UNCHANGED <<orphans, promised, config>>
  BY StoreStepIs
  DEF StoreStep, GraceEnds, Poll, Visible, StartRefresh, PollServed, PollErr, Refreshed,
      FinishRefresh, store
<1>2. ASSUME poll' = "disconnected" PROVE Gone'
  <2>1. CASE PollServed
    <3>1. job = Service!NoJob /\ service = "Disconnected"
      BY <1>2, <2>1 DEF PollServed, Shown, Service!Listening, TypeInv, ServiceOK
    <3>2. tunnel = None
      BY <3>1, NoJobIs DEF WorkInv
    <3>3. ServiceDone
      BY <3>1, <3>2, NoJobIs DEF ServiceDone, Settled
    <3> QED
      BY <1>1, <1>2, <3>3 DEF Gone, ServiceDone, promised
  <2>2. CASE ~PollServed
    <3>1. poll = "disconnected"
      BY <1>2, <2>2
      DEF StoreStep, GraceEnds, Poll, Visible, StartRefresh, PollErr, Refreshed, FinishRefresh,
          NoPoll
    <3> QED
      BY <3>1, GoneIsRead DEF Settled
  <2> QED
    BY <2>1, <2>2
<1> QED
  BY <1>1, <1>2 DEF Settled, Alike, promised

\* What the service does of its own accord does not unsettle it.
LEMMA GoneStays ==
  ASSUME TypeInv, Gone, ServiceStep
  PROVE  Gone'
BY ServiceStaysDone, ServiceStepIs DEF Gone

LEMMA SettledStays ==
  ASSUME TypeInv, Settled, ServiceStep
  PROVE  Settled'
<1>1. ServiceOK /\ UNCHANGED <<config, poll>>
  BY ServiceStepIs DEF TypeInv, store
<1>0. ASSUME tunnel' \in {tunnel, job.target, None}, job'.target \in {job.target, None}
      PROVE  Alike(tunnel)' /\ Alike(job.target)'
  <2>1. \A c \in {tunnel, job.target, None} : c = None \/ SameSignature(c, config)
    BY DEF Settled, Alike
  <2>2. /\ tunnel' = None \/ SameSignature(tunnel', config)
        /\ job'.target = None \/ SameSignature(job'.target, config)
    BY <1>0, <2>1
  <2> QED
    BY <1>1, <2>2 DEF Alike, SameSignature
<1>2. orphans' = {} /\ Alike(tunnel)' /\ Alike(job.target)'
  <2>0. orphans = {}
    BY DEF Settled
  <2>1. CASE JobOk \/ JobErr
    <3>1. UNCHANGED <<tunnel, orphans>> /\ job' = Service!NoJob
      BY <2>1, JobOkIs, JobErrIs
    <3>2. tunnel' \in {tunnel, job.target, None} /\ job'.target \in {job.target, None}
      BY <3>1, NoJobIs
    <3> QED
      BY <1>0, <2>0, <3>1, <3>2
  <2>2. CASE JobProgress
    <3>1. UNCHANGED orphans
      BY <2>2 DEF JobProgress
    <3>2. tunnel' \in {tunnel, job.target, None} /\ job'.target \in {job.target, None}
      BY <1>1, <2>2, ServiceProgresses DEF JobProgress
    <3> QED
      BY <1>0, <2>0, <3>1, <3>2
  <2>3. CASE ServiceLoses
    BY <1>1, <2>3, ServiceIsLosing DEF Alike, SameSignature, ServiceLoses, Settled
  <2>4. CASE ServiceCrashes
    BY <1>1, <2>4, ServiceIsCrashing, NoJobIs DEF Alike, SameSignature, ServiceCrashes, Settled
  <2>5. CASE ServiceStarts
    BY <1>1, <2>5, ServiceRecovers DEF Alike, SameSignature, ServiceStarts, Settled
  <2>6. CASE \E o \in Configs \cup {None} : ServeOrphan(o)
    BY <2>0, <2>6 DEF ServeOrphan
  <2> QED
    BY <2>1, <2>2, <2>3, <2>4, <2>5, <2>6 DEF ServiceStep
<1>3. poll' = "disconnected" => Gone'
  BY <1>1, GoneStays DEF Settled
<1> QED
  BY <1>1, <1>2, <1>3 DEF Settled

\* A call in another place is as it was.
LEMMA AloneRemoved ==
  ASSUME calls \in Seq(Calls), NEW i \in 1..Len(calls), Removed(i), UNCHANGED orphans,
         NEW l \in 1..Len(calls'), Alone(IF l < i THEN l ELSE l + 1) \/ Alone(0)
  PROVE  Alone(l)'
<1> DEFINE from(k) == IF k < i THEN k ELSE k + 1
<1>1. Len(calls) \in Nat /\ Len(calls') = Len(calls) - 1
  BY LenProperties DEF Removed
<1>2. \A k \in 1..Len(calls') : calls'[k] = calls[from(k)]
  BY DEF Removed
<1>3. \A k \in 1..Len(calls') : from(k) \in 1..Len(calls) /\ from(k) # 0
  BY <1>1
<1>4. \A k \in 1..Len(calls') : k # l => from(k) # from(l)
  BY <1>1
<1>5. Alone(from(l)) \/ Alone(0)
  OBVIOUS
<1> HIDE DEF from
<1> QED
  BY <1>2, <1>3, <1>4, <1>5 DEF Alone

LEMMA NobodyRemoved ==
  ASSUME calls \in Seq(Calls), NEW i \in 1..Len(calls), Removed(i), UNCHANGED orphans,
         Alone(0) \/ Alone(i)
  PROVE  Alone(0)'
<1> DEFINE from(k) == IF k < i THEN k ELSE k + 1
<1>1. Len(calls) \in Nat /\ Len(calls') = Len(calls) - 1
  BY LenProperties DEF Removed
<1>2. \A k \in 1..Len(calls') : calls'[k] = calls[from(k)]
  BY DEF Removed
<1>3. \A k \in 1..Len(calls') : from(k) \in 1..Len(calls) /\ from(k) # 0 /\ from(k) # i
  BY <1>1
<1> HIDE DEF from
<1> QED
  BY <1>2, <1>3 DEF Alone

\* Where no request is under way, nobody is being served.
LEMMA AloneAnswered ==
  ASSUME TypeInv, NEW i, Alone(i), i = 0 \/ (i \in 1..Len(calls) /\ calls[i].at # "served"),
         NEW a \in Answers, AllServed(a), orphans' = {}
  PROVE  Alone(i)' /\ \A k \in 1..Len(calls) : calls'[k] = calls[k]
<1>1. \A k \in 1..Len(calls) : calls[k].at # "served"
  BY DEF TypeInv, ServedInv, CallOK, Alone, Waiting, Answers, Shows, Operations
<1>2. \A k \in 1..Len(calls) : calls'[k] = calls[k]
  BY <1>1 DEF AllServed
<1> QED
  BY <1>2 DEF AllServed, Alone

LEMMA TrackedBegins ==
  ASSUME FaithfulInv, ToggleOn \/ TimerFires \/ ToggleOff \/ ClearDrop
  PROVE  TrackedInv' /\ ShownInv'
<1>1. calls \in Seq(Calls) /\ config \in Configs /\ Len(calls) \in Nat
  BY LenProperties DEF FaithfulInv, TypeInv, StoreOK
<1>2. \A k \in 1..Len(calls) : ~calls'[k].current
  BY BeginsIs DEF Outdating, FaithfulInv
<1>0. PICK last : last = Len(calls) + 1
  OBVIOUS
<1>3. CASE StartConnect /\ Len(calls') = Len(calls)
  <2>0. Len(calls') # Len(calls) + 1
    BY <1>1, <1>3
  <2>1. error' = TRUE
    BY <1>1, <1>3, <2>0, StartsConnect
  <2> QED
    BY <1>2, <1>3, <2>1 DEF TrackedInv, ShownInv
<1>4. CASE Len(calls') = Len(calls) + 1 /\ calls'[last].current
           /\ Tracked(last)'
  <2>1. Owner'
    BY <1>0, <1>1, <1>4, BegunOwner
  <2>2. \A k \in 1..Len(calls') : k \in 1..Len(calls) \/ k = last
    BY <1>0, <1>1, <1>4
  <2> QED
    BY <1>2, <1>4, <2>1, <2>2 DEF TrackedInv, ShownInv
<1>5. CASE StartConnect /\ Len(calls') # Len(calls)
  <2>1. /\ Len(calls') = Len(calls) + 1 /\ calls'[last].current
        /\ calls'[last].kind = "connect"
        /\ calls'[last].at \in {"queued", "select"}
        /\ calls'[last].config = config /\ config' = config
        /\ Alike(calls[last].config)'
        /\ status' = "connecting" \/ calls'[last].at = "select"
    BY <1>0, <1>1, <1>5, StartsConnect DEF Alike, SameSignature
  <2>2. Tracked(last)'
    BY <2>1 DEF Tracked, ConnectTracked, Rechecks, Shows
  <2> QED
    BY <1>4, <2>1, <2>2
<1>6. CASE StartDisconnect
  <2>1. /\ Len(calls') = Len(calls) + 1 /\ calls'[last].current
        /\ calls'[last].kind = "disconnect"
        /\ calls'[last].at = "queued"
    BY <1>0, <1>1, <1>6, StartsDisconnect
  <2>2. Tracked(last)'
    BY <2>1 DEF Tracked, DisconnectTracked, Rechecks, Shows
  <2> QED
    BY <1>4, <2>1, <2>2
<1> QED
  BY <1>3, <1>5, <1>6 DEF ToggleOn, TimerFires, ToggleOff, ClearDrop

LEMMA ErrorGrows ==
  ASSUME StoreStep
  PROVE  error => error'
BY DEF StoreStep, GraceEnds, Poll, Visible, StartRefresh, PollServed, PollErr, Refreshed, Ignore,
       store

LEMMA ConfigStays ==
  ASSUME StoreStep
  PROVE  UNCHANGED config
BY DEF StoreStep, GraceEnds, Poll, Visible, StartRefresh, PollServed, PollErr, Refreshed,
       FinishRefresh, store

\* A status that is believed while an operation is in flight is an overlap.
LEMMA StatusRead ==
  ASSUME StoreStep, Faithful', calls # <<>>
  PROVE  UNCHANGED status
<1>1. CASE Refreshed
  <2>1. status' # status => "poll" \in raced'
    BY <1>1, RacedGrows DEF Refreshed, FinishRefresh
  <2> QED
    BY <2>1 DEF Faithful
<1> QED
  BY <1>1 DEF StoreStep, GraceEnds, Poll, Visible, StartRefresh, PollServed, PollErr, store

LEMMA TrackedStoreStep ==
  ASSUME FaithfulInv, StoreStep
  PROVE  TrackedInv'
<1>1. calls \in Seq(Calls) /\ TypeInv /\ WorkInv
  BY DEF FaithfulInv, TypeInv
<1> SUFFICES ASSUME Faithful', NEW k \in 1..Len(calls), calls[k].current
             PROVE  Tracked(k)'
  BY StoreStepIs DEF TrackedInv
<1>2. UNCHANGED <<timer, calls, orphans, promised, config>> /\ raced \subseteq raced'
  BY StoreStepIs, ConfigStays
<1>3. Faithful /\ Tracked(k)
  BY <1>2, FaithfulBefore DEF FaithfulInv, TrackedInv
<1>4. UNCHANGED status
  <2>1. calls # <<>>
    BY <1>1
  <2> QED
    BY <2>1, StatusRead
<1>5. Alone(k) => Alone(k)'
  BY <1>2 DEF Alone
<1>6. Settled => Settled'
  BY <1>1, SettledIsRead
<1>7. Gone => Gone'
  BY GoneIsRead
<1>8. calls[k].kind = "connect" => ConnectTracked(k)'
  BY <1>2, <1>3, <1>4, <1>5, <1>6 DEF Alike, SameSignature, Tracked, ConnectTracked, promised
<1>9. calls[k].kind = "disconnect" => DisconnectTracked(k)'
  BY <1>2, <1>3, <1>5, <1>7 DEF Tracked, DisconnectTracked
<1>10. calls[k].kind \in Rechecks => error'
  BY <1>3, ErrorGrows DEF Tracked
<1> QED
  BY <1>2, <1>8, <1>9, <1>10 DEF Tracked

LEMMA ShownStoreStep ==
  ASSUME FaithfulInv, StoreStep
  PROVE  ShownInv'
<1>1. TypeInv /\ WorkInv
  BY DEF FaithfulInv
<1> SUFFICES ASSUME Faithful', ~error', ~timer', ~Owner'
             PROVE  ShownOK'
  BY DEF ShownInv
<1>2. UNCHANGED <<timer, calls, orphans, promised>> /\ raced \subseteq raced'
  BY StoreStepIs
<1>3. Faithful /\ ~error /\ ~timer /\ ~Owner
  BY <1>2, FaithfulBefore, ErrorGrows DEF Owner
<1>4. ShownOK
  BY <1>3 DEF FaithfulInv, ShownInv
<1>5. Alone(0)'
  BY <1>2, <1>4 DEF ShownOK, Alone
<1>6. CASE Refreshed
  <2>1. poll # "dropped" \/ UNCHANGED status
    BY <1>6 DEF Refreshed, Ignore
  <2>2. UNCHANGED status \/ (status' = poll /\ poll \in {"connected", "disconnected"})
    BY <1>6, <2>1 DEF Refreshed, Apply, Ignore, Shows
  <2>3. CASE status = "connected" /\ Settled
    <3>1. Settled' /\ (poll = "disconnected" => Gone')
      BY <1>1, <2>3, SettledIsRead, GoneIsRead DEF Settled
    <3>2. status' = "connected" \/ (status' = "disconnected" /\ poll = "disconnected")
      BY <2>2, <2>3
    <3> QED
      BY <1>5, <3>1, <3>2 DEF ShownOK
  <2>4. CASE status = "disconnected" /\ Gone
    <3>1. Gone' /\ poll # "connected"
      BY <2>4, GoneIsRead DEF Gone
    <3> QED
      BY <1>5, <2>2, <2>4, <3>1 DEF ShownOK
  <2> QED
    BY <1>4, <2>3, <2>4 DEF ShownOK
<1>7. CASE ~Refreshed
  <2>1. UNCHANGED status
    BY <1>7 DEF StoreStep, GraceEnds, Poll, Visible, StartRefresh, PollServed, PollErr, store
  <2>2. (Settled => Settled') /\ (Gone => Gone')
    BY <1>1, SettledIsRead, GoneIsRead
  <2> QED
    BY <1>4, <1>5, <2>1, <2>2 DEF ShownOK
<1> QED
  BY <1>6, <1>7

LEMMA TrackedEdit ==
  ASSUME FaithfulInv, NEW c \in Configs, Edit(c)
  PROVE  TrackedInv' /\ ShownInv'
<1>1. UNCHANGED <<status, error, calls, poll, orphans, promised>> /\ raced \subseteq raced'
  BY EditIs DEF Edit
<1>2. /\ timer => timer'
      /\ status \in {"connected", "connecting"} => timer' \/ SameSignature(c, config)
      /\ config' = c
  BY DEF Edit
<1>0. SameSignature(c, config) =>
        /\ \A d : Alike(d) => Alike(d)'
        /\ Alike(tunnel) => Alike(tunnel)'
        /\ Alike(job.target) => Alike(job.target)'
        /\ \A i \in 1..Len(calls) : Alike(calls[i].config) => Alike(calls[i].config)'
  BY <1>1, <1>2 DEF Alike, SameSignature, promised
<1>5. Gone => Gone'
  BY <1>1 DEF Gone, ServiceDone, promised
<1>6. SameSignature(c, config) /\ Settled => Settled'
  BY <1>0, <1>1, <1>5 DEF Settled
<1>3. ASSUME Faithful', NEW k \in 1..Len(calls), calls[k].current
      PROVE  Tracked(k)'
  <2>1. Tracked(k)
    BY <1>1, <1>3, FaithfulBefore DEF FaithfulInv, TrackedInv
  <2>2. (Alone(k) => Alone(k)') /\ (Gone => Gone')
    BY <1>1, <1>5 DEF Alone
  <2>3. calls[k].kind = "connect" => ConnectTracked(k)'
    <3>1. ASSUME calls[k].kind = "connect" PROVE ConnectTracked(k)
      BY <2>1, <3>1 DEF Tracked
    <3>2. CASE timer'
      BY <1>1, <2>2, <3>1, <3>2 DEF ConnectTracked
    <3>3. CASE ~timer' /\ SameSignature(c, config)
      BY <1>0, <1>1, <1>2, <1>6, <2>2, <3>1, <3>3 DEF ConnectTracked
    <3>4. CASE ~timer' /\ ~SameSignature(c, config)
      <4>1. calls[k].kind = "connect" => calls[k].at = "select"
        BY <1>2, <3>1, <3>4 DEF ConnectTracked
      <4> QED
        BY <1>1, <4>1 DEF ConnectTracked, Shows
    <3> QED
      BY <3>2, <3>3, <3>4
  <2>4. calls[k].kind = "disconnect" => DisconnectTracked(k)'
    BY <1>1, <2>1, <2>2 DEF Tracked, DisconnectTracked
  <2> QED
    BY <1>1, <2>1, <2>3, <2>4 DEF Tracked
<1>4. ASSUME Faithful', ~error', ~timer', ~Owner'
      PROVE  ShownOK'
  <2>1. ~timer /\ (status = "connected" => SameSignature(c, config))
    BY <1>2, <1>4
  <2>2. ShownOK
    BY <1>1, <1>4, <2>1, FaithfulBefore DEF FaithfulInv, ShownInv, Owner
  <2>3. Alone(0)' /\ status' = status
    BY <1>1, <2>2 DEF ShownOK, Alone
  <2> QED
    BY <1>5, <1>6, <2>1, <2>2, <2>3 DEF ShownOK
<1> QED
  BY <1>1, <1>3, <1>4 DEF TrackedInv, ShownInv

\* A request of another call than the one that is answered is no request at all.
LEMMA RequestAside ==
  ASSUME TypeInv, NEW i \in 1..Len(calls), Request(i), NEW k, k # i, Alone(k)
  PROVE  Alone(k)' /\ UNCHANGED <<orphans, promised>>
<1>1. calls \in Seq(Calls) /\ CallOK(calls[i], job, service)
  BY DEF TypeInv, ServedInv
<1>2. calls[i].at \in {"queued", "served"}
  BY DEF Request, PrepareErr, Serve, RecheckServed, Unreachable, TimeOut, Sent
<1>3. calls[i].at \notin Waiting
  BY <1>2 DEF Waiting, Answers, Shows
<1>4. calls[i].kind \notin Operations
  BY <1>3 DEF Alone
<1>5. PICK a \in {"served"} \cup Answers : Changed(i, calls[i].kind, a)
  BY <1>1, RequestChanges
<1>6. UNCHANGED <<orphans, promised>>
  BY <1>1, <1>4
  DEF Request, PrepareErr, Serve, RecheckServed, Unreachable, TimeOut, Operations, CallOK
<1> QED
  BY <1>4, <1>5, <1>6 DEF Alone, Changed

\* The request of the current call.
LEMMA TrackedServe ==
  ASSUME FaithfulInv, Faithful, NEW i \in 1..Len(calls), calls[i].current, Tracked(i), Serve(i)
  PROVE  Tracked(i)'
<1>1. /\ calls \in Seq(Calls) /\ Len(calls) \in Nat /\ ServiceOK /\ ServedInv
  BY LenProperties DEF FaithfulInv, TypeInv
<1>2. Changed(i, calls[i].kind, "served")
  BY <1>1, AnswerIs DEF Serve
<1>3. HoldsLock(i) /\ orphans = {} /\ UNCHANGED <<orphans, store>> /\ calls[i].at = "queued"
  BY DEF Serve, Sent, Operations, Rechecks
<1>4. i = Len(calls)
  BY DEF FaithfulInv, CurrentIsLast, Faithful
<1>5. Alone(i)
  BY <1>1, <1>3, <1>4 DEF Alone, HoldsLock, Waiting
<1>6. Alone(i)'
  BY <1>2, <1>3, <1>5 DEF Alone, Changed
<1>7. CASE calls[i].kind = "connect"
  <2>1. calls[i].config \in Configs
    BY <1>1, <1>3, <1>7 DEF ServedInv, CallOK
  <2>2. job'.target = calls[i].config
    BY <1>1, <1>7, <2>1, ServiceConnects DEF Serve
  <2>3. status = "connecting" /\ (timer \/ Alike(calls[i].config))
    BY <1>3, <1>7 DEF Tracked, ConnectTracked
  <2> QED
    BY <1>2, <1>3, <1>6, <1>7, <2>2, <2>3
    DEF Alike, SameSignature, Tracked, ConnectTracked, Changed, Rechecks, Shows, store
<1>8. CASE calls[i].kind = "disconnect"
  BY <1>2, <1>6, <1>8 DEF Tracked, DisconnectTracked, Changed, Rechecks, Shows
<1> QED
  BY <1>7, <1>8 DEF Serve, Operations

LEMMA TrackedRequest ==
  ASSUME FaithfulInv, NEW i \in 1..Len(calls), Request(i)
  PROVE  TrackedInv' /\ ShownInv'
<1>1. TypeInv /\ calls \in Seq(Calls)
  BY DEF FaithfulInv, TypeInv
<1>2. PICK a \in {"served"} \cup Answers : Changed(i, calls[i].kind, a)
  BY <1>1, RequestChanges
<1>3. UNCHANGED <<store, poll, history>>
  BY <1>1, RequestChanges
<1>4. Faithful' => Faithful
  BY <1>3 DEF Faithful, history
<1>5. ASSUME Faithful, NEW k \in 1..Len(calls), calls[k].current, Tracked(k), k # i
      PROVE  Tracked(k)'
  <2>1. calls'[k] = calls[k]
    BY <1>2, <1>5 DEF Changed
  <2>2. Alone(k) => /\ Alone(k)' /\ UNCHANGED <<orphans, promised>>
    BY <1>1, <1>5, RequestAside
  <2>3. /\ Alone(k) /\ Settled => Settled'
        /\ Alone(k) /\ Gone => Gone'
    BY <1>3, <2>2 DEF Alike, SameSignature, Settled, Gone, ServiceDone, store, promised
  <2>4. calls[k].kind = "connect" => ConnectTracked(k)'
    BY <1>3, <1>5, <2>1, <2>2, <2>3
    DEF Alike, SameSignature, Tracked, ConnectTracked, store, promised
  <2>5. calls[k].kind = "disconnect" => DisconnectTracked(k)'
    BY <1>5, <2>1, <2>2, <2>3 DEF Tracked, DisconnectTracked
  <2> QED
    BY <1>3, <1>5, <2>1, <2>4, <2>5 DEF Tracked, store
<1>6. ASSUME Faithful, calls[i].current, Tracked(i)
      PROVE  Tracked(i)'
  <2>1. CASE Serve(i)
    BY <1>6, <2>1, TrackedServe
  <2>2. CASE calls[i].kind \in Rechecks
    BY <1>2, <1>3, <1>6, <2>2 DEF Tracked, Changed, Rechecks, store
  <2>3. CASE ~Serve(i) /\ calls[i].kind \notin Rechecks
    <3>1. calls[i].at \in {"queued", "served"}
      BY DEF Request, PrepareErr, Serve, RecheckServed, Unreachable, TimeOut, Sent
    <3>2. Answer(i, "error")
      BY <2>3 DEF Request, PrepareErr, RecheckServed, Unreachable, TimeOut
    <3>3. "error" \in Answers
      BY DEF Answers
    <3>4. Changed(i, calls[i].kind, "error")
      BY <1>1, <3>2, <3>3, AnswerIs
    <3>5. calls[i].kind = "connect" => status = "connecting"
      BY <1>6, <3>1 DEF Tracked, ConnectTracked
    <3> QED
      BY <1>3, <2>3, <3>4, <3>5
      DEF Tracked, ConnectTracked, DisconnectTracked, Changed, Shows, store
  <2> QED
    BY <2>1, <2>2, <2>3
<1>7. TrackedInv'
  <2> SUFFICES ASSUME Faithful', NEW k \in 1..Len(calls'), calls'[k].current
               PROVE  Tracked(k)'
    BY DEF TrackedInv
  <2>1. k \in 1..Len(calls) /\ calls[k].current
    BY <1>2 DEF Changed
  <2>2. Tracked(k)
    BY <1>4, <2>1 DEF FaithfulInv, TrackedInv
  <2> QED
    BY <1>4, <1>5, <1>6, <2>1, <2>2
<1>8. ShownInv'
  <2> SUFFICES ASSUME Faithful', ~error', ~timer', ~Owner'
               PROVE  ShownOK'
    BY DEF ShownInv
  <2>1. ShownOK
    BY <1>2, <1>3, <1>4, ChangedOwner DEF FaithfulInv, ShownInv, store
  <2>2. Alone(0)' /\ UNCHANGED <<orphans, promised>>
    BY <1>1, <2>1, RequestAside DEF ShownOK
  <2> QED
    BY <1>3, <2>1, <2>2
    DEF Alike, SameSignature, ShownOK, Settled, Gone, ServiceDone, store, promised
<1> QED
  BY <1>7, <1>8

\* An outdated call leaves and changes nothing.
LEMMA TrackedLeaves ==
  ASSUME FaithfulInv, NEW i \in 1..Len(calls), Removed(i), ~calls[i].current,
         UNCHANGED <<store, poll, orphans, promised>>, raced \subseteq raced'
  PROVE  TrackedInv' /\ ShownInv'
<1>1. calls \in Seq(Calls) /\ Len(calls) \in Nat /\ Len(calls') = Len(calls) - 1
  BY LenProperties DEF FaithfulInv, TypeInv, Removed
<1>2. (Settled => Settled') /\ (Gone => Gone')
  BY DEF Alike, SameSignature, Settled, Gone, ServiceDone, store, promised
<1>3. ASSUME Faithful', NEW k \in 1..Len(calls'), calls'[k].current
      PROVE  Tracked(k)'
  <2>1. PICK j : j = IF k < i THEN k ELSE k + 1
    OBVIOUS
  <2>2. j \in 1..Len(calls) /\ calls'[k] = calls[j]
    BY <1>1, <2>1 DEF Removed
  <2>3. Tracked(j)
    BY <1>3, <2>2, FaithfulBefore DEF FaithfulInv, TrackedInv
  <2>4. Alone(j) => Alone(k)'
    BY <1>1, <2>1, AloneRemoved
  <2>5. calls[j].kind = "connect" => ConnectTracked(k)'
    BY <1>2, <2>2, <2>3, <2>4 DEF Alike, SameSignature, Tracked, ConnectTracked, store, promised
  <2>6. calls[j].kind = "disconnect" => DisconnectTracked(k)'
    BY <1>2, <2>2, <2>3, <2>4 DEF Tracked, DisconnectTracked
  <2> QED
    BY <2>2, <2>3, <2>5, <2>6 DEF Tracked, store
<1>4. ASSUME Faithful', ~error', ~timer', ~Owner'
      PROVE  ShownOK'
  <2>1. ShownOK
    BY <1>4, RemovedOwner, FaithfulBefore DEF FaithfulInv, ShownInv, store
  <2>2. Alone(0)'
    BY <1>1, <2>1, NobodyRemoved DEF ShownOK
  <2> QED
    BY <1>2, <2>1, <2>2 DEF ShownOK, store
<1> QED
  BY <1>3, <1>4 DEF TrackedInv, ShownInv

\* The current call leaves: no other one is.
LEMMA CurrentLeaves ==
  ASSUME FaithfulInv, NEW i \in 1..Len(calls), Removed(i), calls[i].current, Faithful',
         raced \subseteq raced'
  PROVE  \A k \in 1..Len(calls') : ~calls'[k].current
<1>1. Len(calls) \in Nat /\ Len(calls') = Len(calls) - 1
  BY LenProperties DEF FaithfulInv, TypeInv, Removed
<1>2. \A j \in 1..Len(calls) : calls[j].current => j = i
  BY FaithfulBefore DEF FaithfulInv, CurrentIsLast
<1> SUFFICES ASSUME NEW k \in 1..Len(calls') PROVE ~calls'[k].current
  OBVIOUS
<1>3. calls'[k] = calls[IF k < i THEN k ELSE k + 1]
  BY DEF Removed
<1>4. (IF k < i THEN k ELSE k + 1) \in 1..Len(calls) \ {i}
  BY <1>1
<1> QED
  BY <1>2, <1>3, <1>4

LEMMA TrackedContinue ==
  ASSUME FaithfulInv, NEW i \in 1..Len(calls), Continue(i), Faithful'
  PROVE  TrackedInv' /\ ShownInv'
<1>1. calls \in Seq(Calls) /\ Len(calls) \in Nat /\ TypeInv
  BY LenProperties DEF FaithfulInv, TypeInv
<1>2. /\ raced \subseteq raced' /\ UNCHANGED <<timer, poll, orphans, promised>>
  BY <1>1, ContinueChanges
<1>3. Faithful /\ "draft" \notin raced' /\ "draft" \notin raced
  BY <1>2, FaithfulBefore
<1>4. CASE ~calls[i].current
  <2>1. ~Selected(i)
    BY <1>3, <1>4, RacedGrows DEF Selected
  <2>2. ~RecheckErr(i)
    <3>1. RecheckErr(i) => "stale" \in raced'
      BY <1>4, RacedGrows DEF RecheckErr
    <3> QED
      BY <3>1 DEF Faithful
  <2>3. UNCHANGED store
    BY <1>4, <2>1, <2>2
    DEF Continue, SelectErr, Completed, Failed, Rechecked, Ignore, Finish, store, FaithfulInv,
        TypeInv, StoreOK
  <2>4. Removed(i)
    BY <1>1, <1>4, <2>1, <2>2, RemovedIs
    DEF Continue, SelectErr, Completed, Failed, Rechecked, Finish
  <2> QED
    BY <1>2, <1>4, <2>3, <2>4, TrackedLeaves
<1>5. CASE calls[i].current
  <2>1. Tracked(i) /\ i = Len(calls)
    BY <1>3, <1>5 DEF FaithfulInv, TrackedInv, CurrentIsLast
  <2>2. CASE Selected(i)
    <3>1. Requeued(i)
      BY <1>1, <2>2, RequeuedIs DEF Selected
    <3>2. Alike(calls[i].config) /\ status' = "connecting" /\ UNCHANGED config
      BY <1>3, <2>2, RacedGrows DEF Alike, SameSignature, Selected
    <3>3. calls[i].kind = "connect"
      BY <1>1, <2>2 DEF Selected, TypeInv, ServedInv, CallOK
    <3>4. /\ Len(calls') = Len(calls) /\ calls'[i].at = "queued" /\ calls'[i].kind = "connect"
          /\ calls'[i].config = calls[i].config /\ calls'[i].current
      BY <1>5, <2>1, <3>1, <3>2, <3>3 DEF Requeued
    <3>5. Tracked(i)'
      BY <3>2, <3>4 DEF Alike, SameSignature, Tracked, ConnectTracked, Rechecks, Shows
    <3>6. Owner'
      BY <3>4 DEF Owner
    <3>7. \A k \in 1..Len(calls') : calls'[k].current => k = i
      BY <1>1, <1>2, <1>3, <1>5, <2>1, <3>1, <3>4, LastRequeued DEF CurrentIsLast, FaithfulInv
    <3> QED
      BY <3>5, <3>6, <3>7 DEF TrackedInv, ShownInv
  <2>3. CASE Failed(i)
    <3>1. Changed(i, RecheckOf(calls[i].kind), "queued")
      BY <1>1, <1>5, <2>3, FailedIs
    <3>2. error'
      BY <1>5, <2>3 DEF Failed
    <3>3. Tracked(i)'
      BY <3>1, <3>2 DEF Tracked, Changed, RecheckOf
    <3>4. \A k \in 1..Len(calls') : calls'[k].current => k = i
      BY <1>3, <2>1, <3>1 DEF Changed, CurrentIsLast, FaithfulInv
    <3> QED
      BY <3>2, <3>3, <3>4 DEF TrackedInv, ShownInv
  <2>4. CASE ~Selected(i) /\ ~Failed(i)
    <3>1. Removed(i)
      BY <1>1, <2>4, RemovedIs DEF Continue, SelectErr, Completed, Rechecked, RecheckErr, Finish
    <3>2. TrackedInv'
      BY <1>2, <1>5, <3>1, CurrentLeaves DEF TrackedInv
    <3>3. CASE SelectErr(i)
      BY <1>5, <3>2, <3>3 DEF SelectErr, ShownInv
    <3>4. CASE Rechecked(i) \/ RecheckErr(i)
      <4>1. error
        BY <2>1, <3>4 DEF Tracked, Rechecked, RecheckErr
      <4>2. error'
        BY <1>5, <3>4, <4>1 DEF Rechecked, RecheckErr
      <4> QED
        BY <3>2, <4>2 DEF ShownInv
    <3>5. CASE Completed(i)
      <4>1. status' = calls[i].at /\ calls[i].at \in Shows /\ calls[i].kind \in Operations
            /\ UNCHANGED config
        BY <1>5, <3>5 DEF Completed, Apply, Finish
      <4>2. Alone(i)
        BY <2>1, <4>1 DEF Tracked, ConnectTracked, DisconnectTracked, Operations
      <4>3. Alone(0)'
        BY <1>1, <1>2, <3>1, <4>2, NobodyRemoved
      <4>4. (Settled => Settled') /\ (Gone => Gone')
        BY <1>2, <4>1 DEF Alike, SameSignature, Settled, Gone, ServiceDone, promised
      <4>5. CASE calls[i].kind = "connect"
        <5>1. calls[i].at = "connected" /\ (timer \/ Settled)
          BY <2>1, <4>1, <4>5 DEF Tracked, ConnectTracked
        <5> QED
          BY <1>2, <3>2, <4>1, <4>3, <4>4, <5>1 DEF ShownInv, ShownOK
      <4>6. CASE calls[i].kind = "disconnect"
        <5>1. calls[i].at = "disconnected" /\ Gone
          BY <2>1, <4>1, <4>6 DEF Tracked, DisconnectTracked
        <5> QED
          BY <3>2, <4>1, <4>3, <4>4, <5>1 DEF ShownInv, ShownOK
      <4> QED
        BY <4>1, <4>5, <4>6 DEF Operations
    <3> QED
      BY <2>4, <3>3, <3>4, <3>5 DEF Continue
  <2> QED
    BY <2>2, <2>3, <2>4
<1> QED
  BY <1>4, <1>5

\* An answer to what is being served finds no status still to be handled.
LEMMA NothingOvertaken ==
  ASSUME JobOk, Faithful', NEW i \in DOMAIN calls, calls[i].at = "served"
  PROVE  poll \notin Shows
<1>1. Served # {}
  BY DEF Served
<1>2. Overtake
  BY <1>1 DEF JobOk, JobDone
<1>3. poll \in Shows => "poll" \in raced'
  BY <1>2, RacedGrows DEF Overtake
<1> QED
  BY <1>3 DEF Faithful

\* The request of the current call is carried out.
LEMMA TrackedJobOk ==
  ASSUME FaithfulInv, JobOk, Faithful', NEW i \in 1..Len(calls), Tracked(i),
         calls[i].at = "served"
  PROVE  Tracked(i)'
<1>1. /\ TypeInv /\ ServiceOK /\ ServedInv /\ WorkInv /\ DOMAIN calls = 1..Len(calls)
  BY LenProperties DEF FaithfulInv, TypeInv
<1>2. UNCHANGED <<store, orphans, poll, tunnel>> /\ job' = Service!NoJob
  BY <1>1, JobOkIs
<1>3. AllServed(Shown(service'))
  BY <1>1, JobOkIs
<1>4. calls'[i].at = Shown(service') /\ calls'[i].kind = calls[i].kind
  BY <1>3 DEF AllServed
<1>5. poll \notin Shows
  BY <1>1, NothingOvertaken
<1>6. Alone(i) => Alone(i)'
  <2>1. Shown(service') \in Waiting
    BY ShownIs DEF Waiting, Answers
  <2> QED
    BY <1>2, <1>3, <2>1 DEF AllServed, Alone
<1>7. CASE calls[i].kind = "connect"
  <2>1. job.kind \in {"connect", "established"}
    BY <1>1, <1>7 DEF ServedInv, CallOK
  <2>2. ~Service!Clear /\ ~Service!Settle
    BY <1>1, <2>1, ServiceEnds DEF JobOk
  <2>3. Service!Succeed
    BY <2>2 DEF JobOk
  <2>4. service' = "Connected" /\ tunnel = job.target
    BY <1>1, <2>3 DEF Service!Succeed, Service!End, WorkInv
  <2>5. calls'[i].at = "connected"
    BY <1>4, <2>4 DEF Shown
  <2>6. Alone(i) /\ (timer \/ Alike(job.target)) /\ status = "connecting"
    BY <1>7 DEF Tracked, ConnectTracked
  <2>7. timer' \/ Settled'
    BY <1>2, <1>5, <2>4, <2>6, NoJobIs DEF Alike, SameSignature, Settled, Alone, store, Shows
  <2> QED
    BY <1>2, <1>4, <1>6, <1>7, <2>5, <2>6, <2>7 DEF Tracked, ConnectTracked, Rechecks, store
<1>8. CASE calls[i].kind = "disconnect"
  <2>1. job.kind = "clear" /\ job.keep = FALSE
    BY <1>1, <1>8 DEF ServedInv, CallOK
  <2>2. ~Service!Succeed /\ ~Service!Settle
    BY <1>1, <2>1, ServiceEnds
  <2>3. tunnel = None /\ service' = "Disconnected"
    BY <1>1, <2>1, <2>2, ServiceEnds DEF JobOk
  <2>4. calls'[i].at = "disconnected"
    BY <1>4, <2>3 DEF Shown
  <2>5. Alone(i)
    BY <1>8 DEF Tracked, DisconnectTracked
  <2>6. Gone'
    BY <1>2, <1>5, <2>3, <2>5, NoJobIs DEF Gone, ServiceDone, Alone, Shows
  <2> QED
    BY <1>4, <1>6, <1>8, <2>4, <2>5, <2>6 DEF Tracked, DisconnectTracked, Rechecks
<1> QED
  BY <1>1, <1>7, <1>8 DEF ServedInv, CallOK

\* The work for the current call goes on, or everything ends.
LEMMA TrackedWork ==
  ASSUME FaithfulInv, ServiceStep, ~JobOk, NEW i \in 1..Len(calls), Tracked(i),
         calls[i].at = "served"
  PROVE  Tracked(i)'
<1>1. TypeInv /\ ServiceOK /\ CallOK(calls[i], job, service) /\ job # Service!NoJob
  BY NoJobIs DEF FaithfulInv, TypeInv, ServedInv, CallOK
<1>2. UNCHANGED store
  BY <1>1, ServiceStepIs
<1>3. CASE AllServed("error")
  <2>1. calls'[i].at = "error" /\ calls'[i].kind = calls[i].kind
    BY <1>3 DEF AllServed
  <2> QED
    BY <1>2, <2>1 DEF Tracked, ConnectTracked, DisconnectTracked, Shows, store
<1>4. CASE JobErr
  BY <1>1, <1>3, <1>4, JobErrIs
<1>5. CASE ServiceCrashes
  <2>1. "error" \in Answers
    BY DEF Answers
  <2>2. AllServed("error")
    BY <1>1, <1>5, <2>1, AllServedIs DEF ServiceCrashes, TypeInv
  <2> QED
    BY <1>3, <2>2
<1>6. CASE JobProgress
  <2>1. UNCHANGED <<calls, poll, orphans>>
    BY <1>6 DEF JobProgress
  <2>2. Alone(i) => Alone(i)'
    BY <2>1 DEF Alone
  <2>3. calls[i].kind = "connect" => job'.target = job.target
    BY <1>1, <1>6, ServiceProgresses DEF JobProgress, CallOK
  <2> QED
    BY <1>2, <2>1, <2>2, <2>3
    DEF Alike, SameSignature, Tracked, ConnectTracked, DisconnectTracked, Shows, store
<1>7. CASE ServiceLoses \/ ServiceStarts \/ \E o \in Configs \cup {None} : ServeOrphan(o)
  <2>1. ~ServiceLoses /\ ~ServiceStarts
    BY <1>1, ServiceIsLosing, ServiceRecovers DEF ServiceLoses, ServiceStarts, CallOK
  <2>2. ~ServeOrphan(None)
    BY <1>1 DEF ServeOrphan, Service!Connect, Service!Disconnect, Service!Listening
  <2>3. \A o \in Configs \cup {None} : ~ServeOrphan(o)
    BY <1>1 DEF ServeOrphan, Service!Connect, Service!Disconnect, Service!Listening
  <2> QED
    BY <1>7, <2>1, <2>3
<1> QED
  BY <1>4, <1>5, <1>6, <1>7 DEF ServiceStep

\* With no request under way, a step of the service concerns nobody.
LEMMA AloneStays ==
  ASSUME TypeInv, ServiceStep, NEW i, Alone(i),
         i = 0 \/ (i \in 1..Len(calls) /\ calls[i].at # "served")
  PROVE  Alone(i)' /\ Len(calls') = Len(calls) /\ \A k \in 1..Len(calls) : calls'[k] = calls[k]
<1>1. orphans' = {}
  BY JobOkIs, JobErrIs
  DEF ServiceStep, JobProgress, ServiceLoses, ServiceCrashes, ServiceStarts, ServeOrphan, Alone
<1>2. CASE UNCHANGED calls
  BY <1>1, <1>2 DEF Alone
<1>3. ASSUME NEW a \in Answers, AllServed(a)
      PROVE  Alone(i)' /\ Len(calls') = Len(calls) /\ \A k \in 1..Len(calls) : calls'[k] = calls[k]
  BY <1>1, <1>3, AloneAnswered DEF AllServed
<1> QED
  BY <1>2, <1>3, ServiceStepIs

LEMMA TrackedService ==
  ASSUME FaithfulInv, ServiceStep, Faithful'
  PROVE  TrackedInv' /\ ShownInv'
<1>1. TypeInv
  BY DEF FaithfulInv
<1>2. UNCHANGED <<store, poll>> /\ raced \subseteq raced'
  BY <1>1, ServiceStepIs
<1>3. Faithful
  BY <1>2, FaithfulBefore
<1>4. Len(calls') = Len(calls)
  BY <1>1, ServiceStepIs DEF AllServed
<1>5. \A k \in 1..Len(calls) :
        /\ calls'[k].current = calls[k].current /\ calls'[k].kind = calls[k].kind
        /\ calls[k].at # "served" => calls'[k] = calls[k]
  BY <1>1, ServiceStepIs DEF AllServed
<1>6. ASSUME NEW k \in 1..Len(calls), calls[k].current PROVE Tracked(k)'
  <2>1. Tracked(k)
    BY <1>3, <1>6 DEF FaithfulInv, TrackedInv
  <2>2. CASE calls[k].at = "served"
    BY <2>1, <2>2, TrackedJobOk, TrackedWork
  <2>3. CASE calls[k].at # "served"
    <3>1. calls'[k] = calls[k]
      BY <1>5, <2>3
    <3>2. Alone(k) => Alone(k)'
      BY <1>1, <2>3, AloneStays
    <3>3. (Settled => Settled') /\ (Gone => Gone')
      BY <1>1, SettledStays, GoneStays
    <3>4. calls[k].kind = "connect" => ConnectTracked(k)'
      BY <1>2, <2>1, <2>3, <3>1, <3>2, <3>3 DEF Alike, SameSignature, Tracked, ConnectTracked, store
    <3>5. calls[k].kind = "disconnect" => DisconnectTracked(k)'
      BY <2>1, <2>3, <3>1, <3>2, <3>3 DEF Tracked, DisconnectTracked
    <3> QED
      BY <1>2, <2>1, <3>1, <3>4, <3>5 DEF Tracked, store
  <2> QED
    BY <2>2, <2>3
<1>7. TrackedInv'
  BY <1>4, <1>5, <1>6 DEF TrackedInv
<1>8. ASSUME ~error', ~timer', ~Owner' PROVE ShownOK'
  <2>1. ShownOK
    BY <1>2, <1>3, <1>4, <1>5, <1>8 DEF FaithfulInv, ShownInv, Owner, store
  <2>2. Alone(0)'
    BY <1>1, <2>1, AloneStays DEF ShownOK
  <2>3. (Settled => Settled') /\ (Gone => Gone')
    BY <1>1, SettledStays, GoneStays
  <2> QED
    BY <1>2, <2>1, <2>2, <2>3 DEF ShownOK, store
<1> QED
  BY <1>7, <1>8 DEF ShownInv

LEMMA FaithfulStep == FaithfulInv /\ [Next]_vars => FaithfulInv'
<1> SUFFICES ASSUME FaithfulInv, [Next]_vars PROVE TrackedInv' /\ ShownInv'
  BY TypeInvStep, LastStep, WorkStep DEF FaithfulInv
<1>1. TypeInv /\ DOMAIN calls = 1..Len(calls)
  BY LenProperties DEF FaithfulInv, TypeInv
<1>2. CASE ~Faithful'
  BY <1>2 DEF TrackedInv, ShownInv
<1>3. CASE Faithful'
  <2>1. CASE ToggleOn \/ TimerFires \/ ToggleOff \/ ClearDrop
    BY <2>1, TrackedBegins
  <2>2. CASE StoreStep
    BY <2>2, TrackedStoreStep, ShownStoreStep
  <2>3. ASSUME NEW c \in Configs, Edit(c) PROVE TrackedInv' /\ ShownInv'
    BY <2>3, TrackedEdit
  <2>4. ASSUME NEW i \in DOMAIN calls, Request(i) PROVE TrackedInv' /\ ShownInv'
    BY <1>1, <2>4, TrackedRequest
  <2>5. ASSUME NEW i \in DOMAIN calls, Continue(i) PROVE TrackedInv' /\ ShownInv'
    BY <1>1, <1>3, <2>5, TrackedContinue
  <2>6. CASE ServiceStep
    BY <1>3, <2>6, TrackedService
  <2>7. CASE UNCHANGED vars
    BY <2>7
    DEF Alike, SameSignature, FaithfulInv, TrackedInv, ShownInv, ShownOK, Tracked, ConnectTracked, DisconnectTracked,
        Settled, Gone, ServiceDone, Alone, Owner, Faithful, vars, store, promised, history
  <2> QED
    BY <2>1, <2>2, <2>3, <2>4, <2>5, <2>6, <2>7 DEF Next, StoreStep, ServiceStep
<1> QED
  BY <1>2, <1>3

LEMMA FaithfulInit == Init => FaithfulInv
<1> SUFFICES ASSUME Init PROVE FaithfulInv
  OBVIOUS
<1>1. Len(calls) = 0 /\ TypeInv
  BY TypeInvInit DEF Init
<1>2. ServiceDone /\ Gone /\ WorkInv
  BY NoJobIs DEF Init, ServiceDone, Gone, WorkInv, NoPoll
<1>3. ShownOK
  BY <1>1, <1>2 DEF ShownOK, Alone, Init
<1> QED
  BY <1>1, <1>2, <1>3 DEF FaithfulInv, CurrentIsLast, TrackedInv, ShownInv

\* When everything has settled, a connection that is shown without an error runs
\* with what is configured as far as configSig() tells, whatever was changed,
\* overtaken, given up or lost on the way: the answer that is shown is that of the
\* latest request, the last the service was given, and a change of the signature
\* since has been scheduled.
THEOREM ShownRuns == Spec => []ShownIsRunning
<1> QED
  BY FaithfulInit, FaithfulStep, FaithfulShows, PTL DEF Spec

=============================================================================
