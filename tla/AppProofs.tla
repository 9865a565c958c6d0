----------------------------- MODULE AppProofs -----------------------------
(***************************************************************************)
(* Proofs about App and Net for every value of the constants that their    *)
(* assumptions admit.                                                      *)
(***************************************************************************)
EXTENDS App, FiniteSetTheorems, WellFoundedInduction, TLAPS

ConnCommand == {"Approve", "Reject", "Close", "Rekey"}

ConnRec == [net : Nets, id : Nat, outbound : BOOLEAN, stage : Stage,
            control : Seq(ConnCommand)]

ListenerState == {"Accepting", "Reporting", "Ended"}

ListenerRec == [net : Nets, state : ListenerState, failures : Nat]

\* The inbound connections of n that occupy a permit.
Counted(r) == ~r.outbound /\ r.stage \in Unauthenticated

OutOf(cs, n) == {c \in DOMAIN cs : cs[c].net = n /\ Counted(cs[c])}

Balanced(cs, ps) ==
    \A n \in Nets : ps[n] + Cardinality(OutOf(cs, n)) = MAX_UNAUTHENTICATED_HANDSHAKES

-----------------------------------------------------------------------------
(* Counting the permits that are out.                                      *)

\* The property the runs check, in terms of the definitions used here.
LEMMA BalancedIsProperty == PermitsBalance <=> Balanced(conns, permits)
<1>1. ASSUME NEW n PROVE OutOf(conns, n)
         = {c \in DOMAIN conns : conns[c].net = n /\ ~conns[c].outbound
                                   /\ conns[c].stage \in Unauthenticated}
  BY DEF OutOf, Counted
<1> QED BY <1>1 DEF PermitsBalance, Balanced

\* There are finitely many connections.
LEMMA OutFinite ==
    ASSUME NEW cs \in Seq(ConnRec), NEW n
    PROVE  IsFiniteSet(OutOf(cs, n)) /\ Cardinality(OutOf(cs, n)) \in Nat
<1>1. DOMAIN cs = 1..Len(cs) /\ Len(cs) \in Nat
  OBVIOUS
<1>2. IsFiniteSet(DOMAIN cs)
  BY <1>1, FS_Interval
<1>3. OutOf(cs, n) \in SUBSET DOMAIN cs
  BY DEF OutOf
<1> QED BY <1>2, <1>3, FS_Subset, FS_CardinalityType

\* A change that makes nobody authenticated leaves the balance alone.
LEMMA SameOut ==
    ASSUME NEW cs \in Seq(ConnRec), NEW ds \in Seq(ConnRec), Len(ds) = Len(cs),
           \A c \in DOMAIN cs : ds[c].net = cs[c].net /\ (Counted(ds[c]) <=> Counted(cs[c])),
           NEW ps, Balanced(cs, ps)
    PROVE  Balanced(ds, ps)
<1>1. DOMAIN ds = DOMAIN cs
  OBVIOUS
<1>2. ASSUME NEW n PROVE OutOf(ds, n) = OutOf(cs, n)
  BY <1>1 DEF OutOf
<1> QED BY <1>2 DEF Balanced

\* One connection that leaves the handshake gives one permit back.
LEMMA OneReleased ==
    ASSUME NEW cs \in Seq(ConnRec), NEW ds \in Seq(ConnRec), Len(ds) = Len(cs),
           NEW c \in DOMAIN cs, Counted(cs[c]), ~Counted(ds[c]),
           \A d \in DOMAIN cs : ds[d].net = cs[d].net /\ (d # c => ds[d] = cs[d]),
           NEW ps \in [Nets -> Nat], Balanced(cs, ps)
    PROVE  Balanced(ds, [ps EXCEPT ![cs[c].net] = @ + 1])
<1> DEFINE qs == [ps EXCEPT ![cs[c].net] = @ + 1]
<1> SUFFICES ASSUME NEW n \in Nets
             PROVE  qs[n] + Cardinality(OutOf(ds, n)) = MAX_UNAUTHENTICATED_HANDSHAKES
  BY DEF Balanced
<1>1. DOMAIN ds = DOMAIN cs
  OBVIOUS
<1>2. IsFiniteSet(OutOf(cs, n)) /\ Cardinality(OutOf(cs, n)) \in Nat
  BY OutFinite
<1>3. ps[n] + Cardinality(OutOf(cs, n)) = MAX_UNAUTHENTICATED_HANDSHAKES
  BY DEF Balanced
<1>4. CASE n = cs[c].net
  <2>1. OutOf(cs, n) = OutOf(ds, n) \cup {c} /\ c \notin OutOf(ds, n)
    BY <1>1, <1>4 DEF OutOf
  <2>2. IsFiniteSet(OutOf(ds, n)) /\ Cardinality(OutOf(ds, n)) \in Nat
    BY OutFinite
  <2>3. Cardinality(OutOf(cs, n)) = Cardinality(OutOf(ds, n)) + 1
    BY <2>1, <2>2, FS_AddElement
  <2>4. qs[n] = ps[n] + 1
    BY <1>4
  <2>5. ps[n] \in Nat
    OBVIOUS
  <2> HIDE DEF qs
  <2> QED BY <1>3, <2>2, <2>3, <2>4, <2>5
<1>5. CASE n # cs[c].net
  <2>1. OutOf(ds, n) = OutOf(cs, n)
    BY <1>1, <1>5 DEF OutOf
  <2>2. qs[n] = ps[n]
    BY <1>5
  <2> QED BY <1>3, <2>1, <2>2
<1> QED BY <1>4, <1>5

\* A new connection takes a permit if it is inbound.
LEMMA OneAppended ==
    ASSUME NEW cs \in Seq(ConnRec), NEW r \in ConnRec,
           NEW ps \in [Nets -> Nat], Balanced(cs, ps)
    PROVE  Balanced(Append(cs, r),
                    IF Counted(r) THEN [ps EXCEPT ![r.net] = @ - 1] ELSE ps)
<1> DEFINE ds == Append(cs, r)
           k  == Len(cs) + 1
           qs == IF Counted(r) THEN [ps EXCEPT ![r.net] = @ - 1] ELSE ps
<1> SUFFICES ASSUME NEW n \in Nets
             PROVE  qs[n] + Cardinality(OutOf(ds, n)) = MAX_UNAUTHENTICATED_HANDSHAKES
  BY DEF Balanced
<1>1. /\ DOMAIN ds = DOMAIN cs \cup {k} /\ k \notin DOMAIN cs
      /\ ds[k] = r /\ \A c \in DOMAIN cs : ds[c] = cs[c]
  OBVIOUS
<1>2. IsFiniteSet(OutOf(cs, n)) /\ Cardinality(OutOf(cs, n)) \in Nat
  BY OutFinite
<1>3. ps[n] + Cardinality(OutOf(cs, n)) = MAX_UNAUTHENTICATED_HANDSHAKES
  BY DEF Balanced
<1> HIDE DEF ds, k
<1>4. CASE Counted(r) /\ n = r.net
  <2>1. OutOf(ds, n) = OutOf(cs, n) \cup {k} /\ k \notin OutOf(cs, n)
    BY <1>1, <1>4 DEF OutOf
  <2>2. Cardinality(OutOf(ds, n)) = Cardinality(OutOf(cs, n)) + 1
    BY <1>2, <2>1, FS_AddElement
  <2>3. qs[n] = ps[n] - 1
    BY <1>4
  <2> QED BY <1>2, <1>3, <2>2, <2>3
<1>5. CASE ~(Counted(r) /\ n = r.net)
  <2>1. OutOf(ds, n) = OutOf(cs, n)
    BY <1>1, <1>5 DEF OutOf
  <2>2. qs[n] = ps[n]
    BY <1>5
  <2> QED BY <1>3, <2>1, <2>2
<1> QED BY <1>4, <1>5

-----------------------------------------------------------------------------
(* How one step changes the connections.                                   *)

\* A connection has no identifier until it is spawned; then no other connection
\* of its Net has the same, nor will one get it.
Ids ==
    /\ \A c \in DOMAIN conns :
          /\ conns[c].id < next_id[conns[c].net]
          /\ conns[c].stage = "Dialing" => conns[c].id = 0
          /\ conns[c].id = 0 => conns[c].stage \in {"Dialing", "Closed"}
    /\ \A c, d \in DOMAIN conns :
          (conns[c].net = conns[d].net /\ conns[c].id = conns[d].id /\ conns[c].id # 0)
              => c = d

ConnInv ==
    /\ next_id \in [Nets -> Nat \ {0}]
    /\ permits \in [Nets -> Nat]
    /\ conns \in Seq(ConnRec)
    /\ Ids
    /\ Balanced(conns, permits)

\* The application has been, or is about to be, told of it.
Announced(r) == r.stage \notin {"Dialing", "New"}

\* An announced connection stays announced and stays the one it is.
Progress ==
    \A c \in DOMAIN conns :
        /\ c \in DOMAIN conns'
        /\ Announced(conns[c]) => /\ Announced(conns'[c])
                                  /\ conns'[c].net = conns[c].net
                                  /\ conns'[c].id = conns[c].id

ConnStep == ConnInv' /\ Progress

\* Commands in queues are all that changes.
LEMMA CommandsOnly ==
    ASSUME ConnInv, conns' \in Seq(ConnRec), Len(conns') = Len(conns),
           \A c \in DOMAIN conns :
              /\ conns'[c].net = conns[c].net /\ conns'[c].id = conns[c].id
              /\ conns'[c].outbound = conns[c].outbound
              /\ conns'[c].stage = conns[c].stage,
           UNCHANGED <<next_id, permits>>
    PROVE  ConnStep
<1>1. DOMAIN conns' = DOMAIN conns
  BY DEF ConnInv
<1>2. Ids'
  BY <1>1 DEF ConnInv, Ids
<1>3. Balanced(conns', permits')
  BY SameOut DEF ConnInv, Counted
<1>4. Progress
  BY <1>1 DEF Progress, Announced
<1> QED BY <1>2, <1>3, <1>4 DEF ConnStep, ConnInv

\* One connection moves on to another stage, and gives its permit back if its
\* handshake is over.
LEMMA Turn ==
    ASSUME ConnInv, NEW c \in DOMAIN conns, NEW r \in ConnRec,
           r.net = conns[c].net, r.id = conns[c].id, r.outbound = conns[c].outbound,
           \/ r.stage = conns[c].stage
           \/ /\ Announced(r)
              /\ conns[c].stage \in {"Dialing", "Closed"} => r.stage = "Closed",
           Counted(r) => Counted(conns[c]),
           conns' = [conns EXCEPT ![c] = r],
           permits' = IF Counted(conns[c]) /\ ~Counted(r)
                      THEN [permits EXCEPT ![conns[c].net] = @ + 1] ELSE permits,
           next_id' = next_id
    PROVE  ConnStep
<1>1. /\ conns \in Seq(ConnRec) /\ conns' \in Seq(ConnRec) /\ Len(conns') = Len(conns)
      /\ DOMAIN conns' = DOMAIN conns
      /\ conns'[c] = r /\ \A d \in DOMAIN conns : d # c => conns'[d] = conns[d]
  BY DEF ConnInv
<1>2. conns[c] \in ConnRec /\ conns[c].net \in Nets
  <2>1. conns[c] \in ConnRec
    BY <1>1
  <2> QED BY <2>1 DEF ConnRec
<1>3. permits' \in [Nets -> Nat]
  BY <1>2 DEF ConnInv
<1>4. Balanced(conns', permits')
  <2>1. CASE Counted(conns[c]) /\ ~Counted(r)
    BY <1>1, <2>1, OneReleased DEF ConnInv
  <2>2. CASE ~(Counted(conns[c]) /\ ~Counted(r))
    BY <1>1, <2>2, SameOut DEF ConnInv
  <2> QED BY <2>1, <2>2
<1>5. Ids'
  <2>1. \A d \in DOMAIN conns : conns'[d].net = conns[d].net /\ conns'[d].id = conns[d].id
    BY <1>1
  <2>2. \A d \in DOMAIN conns : conns'[d].stage = "Dialing" => conns'[d].id = 0
    BY <1>1, <2>1 DEF ConnInv, Ids, Announced
  <2>3. \A d \in DOMAIN conns : conns'[d].id = 0 => conns'[d].stage \in {"Dialing", "Closed"}
    BY <1>1, <2>1 DEF ConnInv, Ids, Announced
  <2>4. \A d \in DOMAIN conns' : conns'[d].id < next_id'[conns'[d].net]
    BY <1>1, <2>1 DEF ConnInv, Ids
  <2>5. \A d, e \in DOMAIN conns' :
           (conns'[d].net = conns'[e].net /\ conns'[d].id = conns'[e].id /\ conns'[d].id # 0)
              => d = e
    BY <1>1, <2>1 DEF ConnInv, Ids
  <2> QED BY <1>1, <2>2, <2>3, <2>4, <2>5 DEF Ids
<1>6. Progress
  BY <1>1 DEF Progress, Announced
<1> QED BY <1>1, <1>3, <1>4, <1>5, <1>6 DEF ConnStep, ConnInv

\* A dial has succeeded: an outbound connection, which needs no permit, gets the
\* next identifier.
LEMMA Spawned ==
    ASSUME ConnInv, NEW c \in DOMAIN conns, conns[c].stage = "Dialing",
           DialSucceeds(c)
    PROVE  ConnStep
<1> DEFINE n == conns[c].net
           r == Connection(n, next_id[n], TRUE, "New")
<1>1. conns[c] \in ConnRec /\ conns \in Seq(ConnRec)
  BY DEF ConnInv
<1>2. n \in Nets /\ next_id[n] \in Nat \ {0}
  BY <1>1 DEF ConnRec, ConnInv
<1>3. r \in ConnRec
  BY <1>2 DEF Connection, ConnRec, Stage
<1>4. r.net = n /\ r.id = next_id[n] /\ r.stage = "New" /\ ~Counted(r)
  BY DEF Connection, Counted
<1>5. /\ conns' = [conns EXCEPT ![c] = r] /\ next_id' = [next_id EXCEPT ![n] = @ + 1]
      /\ permits' = permits
  BY DEF DialSucceeds
<1> HIDE DEF r
<1>6. /\ conns' \in Seq(ConnRec) /\ Len(conns') = Len(conns) /\ DOMAIN conns' = DOMAIN conns
      /\ conns'[c] = r /\ \A d \in DOMAIN conns : d # c => conns'[d] = conns[d]
  BY <1>1, <1>3, <1>5
<1>7. ~Counted(conns[c])
  BY DEF Counted, Unauthenticated
<1>8. Balanced(conns', permits')
  BY <1>1, <1>4, <1>5, <1>6, <1>7, SameOut DEF ConnInv
<1>9. next_id' \in [Nets -> Nat \ {0}]
  BY <1>2, <1>5 DEF ConnInv
<1>10. Ids'
  <2>1. \A d \in DOMAIN conns : d # c => conns'[d].id < next_id'[conns'[d].net]
    <3> SUFFICES ASSUME NEW d \in DOMAIN conns, d # c
                 PROVE  conns[d].id < next_id'[conns[d].net]
      BY <1>6
    <3>1. conns[d] \in ConnRec
      BY <1>1
    <3>2. conns[d].net \in Nets /\ conns[d].id \in Nat
      BY <3>1 DEF ConnRec
    <3>3. conns[d].id < next_id[conns[d].net] /\ next_id \in [Nets -> Nat \ {0}]
      BY DEF ConnInv, Ids
    <3> QED BY <1>2, <1>5, <3>2, <3>3
  <2>2. r.id < next_id'[r.net] /\ r.id # 0
    BY <1>2, <1>4, <1>5 DEF ConnInv
  <2>3. \A d \in DOMAIN conns : (d # c /\ conns[d].net = n) => conns[d].id # r.id
    <3> SUFFICES ASSUME NEW d \in DOMAIN conns, conns[d].net = n
                 PROVE  conns[d].id # r.id
      OBVIOUS
    <3>1. conns[d].id < next_id[n]
      BY DEF ConnInv, Ids
    <3>2. conns[d] \in ConnRec
      BY <1>1
    <3> QED BY <1>2, <1>4, <3>1, <3>2 DEF ConnRec
  <2>4. \A d \in DOMAIN conns' : /\ conns'[d].stage = "Dialing" => conns'[d].id = 0
                                 /\ conns'[d].id = 0 => conns'[d].stage \in {"Dialing", "Closed"}
    BY <1>4, <1>6, <2>2 DEF ConnInv, Ids
  <2>5. \A d, e \in DOMAIN conns' :
           (conns'[d].net = conns'[e].net /\ conns'[d].id = conns'[e].id /\ conns'[d].id # 0)
              => d = e
    BY <1>4, <1>6, <2>3, SMTT(30) DEF ConnInv, Ids
  <2>6. \A d \in DOMAIN conns' : conns'[d].id < next_id'[conns'[d].net]
    <3> SUFFICES ASSUME NEW d \in DOMAIN conns'
                 PROVE  conns'[d].id < next_id'[conns'[d].net]
      OBVIOUS
    <3>1. CASE d = c
      BY <1>6, <2>2, <3>1
    <3>2. CASE d # c
      BY <1>6, <2>1, <3>2
    <3> QED BY <3>1, <3>2
  <2> QED BY <2>4, <2>5, <2>6 DEF Ids
<1>11. Progress
  BY <1>6 DEF Progress, Announced
<1> QED BY <1>5, <1>6, <1>8, <1>9, <1>10, <1>11 DEF ConnStep, ConnInv

\* A dial begins, or a stream is accepted: the identifier is the next one or none.
LEMMA Added ==
    ASSUME ConnInv, NEW r \in ConnRec,
           \/ /\ r.id = 0 /\ r.stage = "Dialing"
              /\ UNCHANGED <<next_id, permits>>
           \/ /\ r.id = next_id[r.net] /\ r.stage = "New" /\ Counted(r)
              /\ permits[r.net] > 0
              /\ next_id' = [next_id EXCEPT ![r.net] = @ + 1]
              /\ permits' = [permits EXCEPT ![r.net] = @ - 1],
           conns' = Append(conns, r)
    PROVE  ConnStep
<1> DEFINE k == Len(conns) + 1
<1>1. /\ conns \in Seq(ConnRec) /\ conns' \in Seq(ConnRec) /\ r.net \in Nets
      /\ next_id[r.net] \in Nat \ {0}
  BY DEF ConnInv, ConnRec
<1>2. /\ DOMAIN conns' = DOMAIN conns \cup {k} /\ k \notin DOMAIN conns
      /\ conns'[k] = r /\ \A d \in DOMAIN conns : conns'[d] = conns[d]
  BY <1>1
<1> HIDE DEF k
<1>3. permits' = IF Counted(r) THEN [permits EXCEPT ![r.net] = @ - 1] ELSE permits
  BY DEF Counted, Unauthenticated
<1>4. permits' \in [Nets -> Nat] /\ next_id' \in [Nets -> Nat \ {0}]
  <2>1. permits \in [Nets -> Nat] /\ next_id \in [Nets -> Nat \ {0}]
    BY DEF ConnInv
  <2>2. permits[r.net] > 0 => permits[r.net] - 1 \in Nat
    BY <1>1, <2>1
  <2>3. next_id[r.net] + 1 \in Nat \ {0}
    BY <1>1
  <2> QED BY <1>1, <2>1, <2>2, <2>3, ZenonT(40)
<1>5. Balanced(conns', permits')
  BY <1>3, OneAppended DEF ConnInv
<1>6. Ids'
  <2>1. ASSUME NEW d \in DOMAIN conns PROVE conns[d].id < next_id'[conns[d].net]
    <3>1. conns[d] \in ConnRec /\ conns[d].id < next_id[conns[d].net]
      BY DEF ConnInv, Ids
    <3>2. conns[d].net \in Nets /\ conns[d].id \in Nat
      BY <3>1 DEF ConnRec
    <3>3. next_id \in [Nets -> Nat \ {0}]
      BY DEF ConnInv
    <3>4. /\ next_id[conns[d].net] \in Nat
          /\ next_id'[conns[d].net] \in {next_id[conns[d].net], next_id[conns[d].net] + 1}
      BY <1>1, <3>2, <3>3
    <3> QED BY <3>1, <3>2, <3>4
  <2>2. r.id < next_id'[r.net]
    BY <1>1 DEF ConnInv
  <2>3. r.id # 0 => \A d \in DOMAIN conns : conns[d].net = r.net => conns[d].id # r.id
    <3> SUFFICES ASSUME r.id # 0, NEW d \in DOMAIN conns, conns[d].net = r.net
                 PROVE  conns[d].id # r.id
      OBVIOUS
    <3>1. conns[d] \in ConnRec /\ conns[d].id < next_id[r.net]
      BY DEF ConnInv, Ids
    <3> QED BY <1>1, <3>1 DEF ConnRec
  <2>4. /\ r.stage = "Dialing" => r.id = 0
        /\ r.id = 0 => r.stage \in {"Dialing", "Closed"}
    BY <1>1
  <2>5. \A d \in DOMAIN conns' : /\ conns'[d].stage = "Dialing" => conns'[d].id = 0
                                 /\ conns'[d].id = 0 => conns'[d].stage \in {"Dialing", "Closed"}
    BY <1>2, <2>4 DEF ConnInv, Ids
  <2>6. \A d, e \in DOMAIN conns' :
           (conns'[d].net = conns'[e].net /\ conns'[d].id = conns'[e].id /\ conns'[d].id # 0)
              => d = e
    <3> SUFFICES ASSUME NEW d \in DOMAIN conns', NEW e \in DOMAIN conns',
                        conns'[d].net = conns'[e].net, conns'[d].id = conns'[e].id,
                        conns'[d].id # 0
                 PROVE  d = e
      OBVIOUS
    <3>1. CASE d \in DOMAIN conns /\ e \in DOMAIN conns
      BY <1>2, <3>1 DEF ConnInv, Ids
    <3>2. CASE d = k \/ e = k
      BY <1>2, <2>3, <3>2
    <3> QED BY <1>2, <3>1, <3>2
  <2>7. \A d \in DOMAIN conns' : conns'[d].id < next_id'[conns'[d].net]
    BY <1>2, <2>1, <2>2
  <2> QED BY <2>5, <2>6, <2>7 DEF Ids
<1>7. Progress
  BY <1>2 DEF Progress, Announced
<1> QED BY <1>1, <1>4, <1>5, <1>6, <1>7 DEF ConnStep, ConnInv

-----------------------------------------------------------------------------
(* The steps of Net.                                                       *)

\* The types of the fields of a connection.
LEMMA ConnFields ==
    ASSUME ConnInv, NEW c \in DOMAIN conns
    PROVE  /\ conns \in Seq(ConnRec) /\ conns[c] \in ConnRec
           /\ conns[c].net \in Nets /\ conns[c].stage \in Stage
           /\ conns[c].control \in Seq(ConnCommand)
<1>1. conns \in Seq(ConnRec) /\ conns[c] \in ConnRec
  BY DEF ConnInv
<1> QED BY <1>1 DEF ConnRec

\* A change of stage that is no end of a handshake.
LEMMA Advances ==
    ASSUME ConnInv, NEW c \in DOMAIN conns, NEW stage \in Stage,
           Becomes(c, stage), UNCHANGED <<next_id, permits>>,
           stage \notin {"Dialing", "New"},
           conns[c].stage \in {"Dialing", "Closed"} => stage = "Closed",
           stage \in Unauthenticated <=> conns[c].stage \in Unauthenticated
    PROVE  ConnStep
<1> DEFINE r == [conns[c] EXCEPT !.stage = stage]
<1>1. r \in ConnRec /\ r.stage = stage /\ r.net = conns[c].net /\ r.id = conns[c].id
      /\ r.outbound = conns[c].outbound
  BY ConnFields DEF ConnRec
<1>2. conns' = [conns EXCEPT ![c] = r]
  BY DEF Becomes
<1> HIDE DEF r
<1>3. Counted(r) <=> Counted(conns[c])
  BY <1>1 DEF Counted
<1> QED BY <1>1, <1>2, <1>3, Turn DEF Announced

\* The end of a handshake, or of a connection.
LEMMA EndsStep ==
    ASSUME ConnInv, NEW c \in DOMAIN conns,
           NEW stage \in {"Establishing", "Ending", "Closed"}, Authenticated(c, stage),
           conns[c].stage \notin {"Dialing", "Closed"}
    PROVE  ConnStep
<1> DEFINE r == [conns[c] EXCEPT !.stage = stage]
<1>1. r \in ConnRec /\ r.stage = stage /\ r.net = conns[c].net /\ r.id = conns[c].id
      /\ r.outbound = conns[c].outbound
  BY ConnFields DEF ConnRec, Stage
<1>2. /\ conns' = [conns EXCEPT ![c] = r] /\ next_id' = next_id
      /\ permits' = Released(c, stage)
  BY DEF Authenticated, Becomes
<1> HIDE DEF r
<1>3. ~Counted(r)
  BY <1>1 DEF Counted, Unauthenticated
<1>4. permits' = IF Counted(conns[c]) /\ ~Counted(r)
                 THEN [permits EXCEPT ![conns[c].net] = @ + 1] ELSE permits
  BY <1>2, <1>3 DEF Released, Counted
<1> QED BY <1>1, <1>2, <1>3, <1>4, Turn DEF Announced

\* A command for a handle, whether or not it is taken.
LEMMA TrySendStep ==
    ASSUME ConnInv, NEW x, NEW command \in ConnCommand, conns' = TrySend(x, command),
           UNCHANGED <<next_id, permits>>
    PROVE  ConnStep
<1> DEFINE t == [conns EXCEPT ![x].control = Append(@, command)]
<1>1. CASE x \notin DOMAIN conns \/ ~Takes(x)
  <2>1. conns' = conns
    BY <1>1 DEF TrySend, ConnInv
  <2> QED BY <2>1, CommandsOnly DEF ConnInv
<1>2. CASE x \in DOMAIN conns /\ Takes(x)
  <2> DEFINE r == [conns[x] EXCEPT !.control = Append(@, command)]
  <2>1. conns' = [conns EXCEPT ![x] = r]
    BY <1>2 DEF TrySend
  <2>2. r \in ConnRec /\ r.net = conns[x].net /\ r.id = conns[x].id
        /\ r.outbound = conns[x].outbound /\ r.stage = conns[x].stage
    <3>1. Append(conns[x].control, command) \in Seq(ConnCommand)
      BY <1>2, ConnFields
    <3> QED BY <1>2, <3>1, ConnFields DEF ConnRec
  <2> HIDE DEF r
  <2> QED BY <1>2, <2>1, <2>2, CommandsOnly DEF ConnInv
<1> QED BY <1>1, <1>2

\* The task takes a command.
LEMMA ObeyStep ==
    ASSUME ConnInv, NEW c \in DOMAIN conns, Obey(c)
    PROVE  ConnStep
<1> DEFINE command == Head(conns[c].control)
           stage   == CASE command = "Close" -> "Ending"
                        [] command = "Reject" /\ conns[c].stage = "Asked" -> "Ending"
                        [] command = "Approve" /\ conns[c].stage = "Asked" -> "Approved"
                        [] OTHER -> conns[c].stage
           r == [conns[c] EXCEPT !.control = Tail(@), !.stage = stage]
<1>1. /\ conns' = [conns EXCEPT ![c].control = Tail(@), ![c].stage = stage]
      /\ permits' = IF stage = "Ending" THEN Released(c, stage) ELSE permits
      /\ next_id' = next_id /\ conns[c].stage \in Alive
  BY DEF Obey
<1>2. conns' = [conns EXCEPT ![c] = r]
  BY <1>1
<1>3. \/ stage = "Ending"
      \/ stage = "Approved" /\ conns[c].stage = "Asked"
      \/ stage = conns[c].stage
  OBVIOUS
<1>4. stage \in Stage
  BY <1>3, ConnFields DEF Stage
<1> HIDE DEF stage
<1>5. r \in ConnRec /\ r.stage = stage /\ r.net = conns[c].net /\ r.id = conns[c].id
      /\ r.outbound = conns[c].outbound
  <2>1. Tail(conns[c].control) \in Seq(ConnCommand)
    BY ConnFields DEF Obey
  <2> QED BY <1>4, <2>1, ConnFields DEF ConnRec
<1> HIDE DEF r
<1>6. permits' = IF Counted(conns[c]) /\ ~Counted(r)
                 THEN [permits EXCEPT ![conns[c].net] = @ + 1] ELSE permits
  BY <1>1, <1>3, <1>5 DEF Released, Counted, Unauthenticated
<1>7. Counted(r) => Counted(conns[c])
  BY <1>3, <1>5 DEF Counted, Unauthenticated
<1>8. r.stage = conns[c].stage \/ (Announced(r) /\ conns[c].stage \notin {"Dialing", "Closed"})
  BY <1>1, <1>3, <1>5 DEF Announced, Alive
<1> QED BY <1>1, <1>2, <1>5, <1>6, <1>7, <1>8, Turn

Shape ==
    /\ net \in 0..MAX_NETS
    /\ phase = "Loading" => net < MAX_NETS
    /\ listeners \in Seq(ListenerRec)
    /\ ConnInv

ListenerStep == listeners' \in Seq(ListenerRec)

\* A listener counts failures, and ends.
LEMMA ListenerTurn ==
    ASSUME Shape, NEW l \in DOMAIN listeners, NEW failures \in Nat, NEW state \in ListenerState
    PROVE  /\ [listeners EXCEPT ![l].failures = failures] \in Seq(ListenerRec)
           /\ [listeners EXCEPT ![l].state = state] \in Seq(ListenerRec)
           /\ [listeners EXCEPT ![l].failures = failures, ![l].state = state] \in Seq(ListenerRec)
<1>1. listeners \in Seq(ListenerRec) /\ listeners[l] \in ListenerRec
  BY DEF Shape
<1>2. /\ [listeners[l] EXCEPT !.failures = failures] \in ListenerRec
      /\ [listeners[l] EXCEPT !.state = state] \in ListenerRec
      /\ [listeners[l] EXCEPT !.failures = failures, !.state = state] \in ListenerRec
  BY <1>1 DEF ListenerRec
<1>3. ASSUME NEW r \in ListenerRec
      PROVE  [listeners EXCEPT ![l] = r] \in Seq(ListenerRec)
  BY <1>1
<1> QED BY <1>2, <1>3

\* Every step of a task or of a listener.
LEMMA NetStep ==
    ASSUME Shape, NetNext
    PROVE  ConnStep /\ ListenerStep /\ net' = net
<1> USE DEF Shape
<1>1. ASSUME NEW c \in DOMAIN conns,
             \/ DialSucceeds(c) \/ DialFails(c)
             \/ Announce(c) \/ RequestSas(c) \/ PeerConfirms(c) \/ Establish(c)
             \/ Deliver(c) \/ Obey(c) \/ Ends(c) \/ Close(c) \/ Orphaned(c)
      PROVE  ConnStep /\ listeners' = listeners /\ net' = net
  <2>1. CASE DialSucceeds(c)
    BY <2>1, Spawned DEF DialSucceeds
  <2>2. CASE DialFails(c)
    BY <2>2, Advances DEF DialFails, Stage, Unauthenticated
  <2>3. CASE Announce(c)
    BY <2>3, Advances DEF Announce, Event, Stage, Unauthenticated
  <2>4. CASE RequestSas(c)
    BY <2>4, Advances DEF RequestSas, Event, Stage, Unauthenticated
  <2>5. CASE PeerConfirms(c)
    BY <2>5, EndsStep DEF PeerConfirms, Authenticated
  <2>6. CASE Establish(c)
    BY <2>6, Advances DEF Establish, Event, Stage, Unauthenticated
  <2>7. CASE Deliver(c)
    BY <2>7, Advances DEF Deliver, Event, Stage, Unauthenticated
  <2>8. CASE Obey(c)
    BY <2>8, ObeyStep DEF Obey
  <2>9. CASE Ends(c)
    BY <2>9, EndsStep DEF Ends, Authenticated, Alive
  <2>10. CASE Close(c)
    BY <2>10, Advances DEF Close, Event, Stage, Unauthenticated
  <2>11. CASE Orphaned(c)
    BY <2>11, EndsStep DEF Orphaned, Authenticated
  <2> QED BY <1>1, <2>1, <2>2, <2>3, <2>4, <2>5, <2>6, <2>7, <2>8, <2>9, <2>10, <2>11
<1>2. ASSUME NEW l \in DOMAIN listeners,
             Accept(l) \/ AcceptWithoutPermit(l) \/ AcceptFails(l) \/ Report(l)
      PROVE  ConnStep /\ ListenerStep /\ net' = net
  <2>1. listeners[l] \in ListenerRec /\ listeners[l].net \in Nets
    <3>1. listeners[l] \in ListenerRec
      OBVIOUS
    <3> QED BY <3>1 DEF ListenerRec
  <2>2. CASE Accept(l)
    <3> DEFINE n == listeners[l].net
               r == Connection(n, next_id[n], FALSE, "New")
    <3>1. r \in ConnRec /\ r.net = n /\ r.id = next_id[n] /\ r.stage = "New" /\ Counted(r)
      BY <2>1 DEF Connection, ConnRec, ConnInv, Counted, Unauthenticated, Stage
    <3>2. /\ permits[n] > 0 /\ conns' = Append(conns, r) /\ net' = net
          /\ permits' = [permits EXCEPT ![n] = @ - 1]
          /\ next_id' = [next_id EXCEPT ![n] = @ + 1]
          /\ listeners' = [listeners EXCEPT ![l].failures = 0]
      BY <2>2 DEF Accept, HasPermit
    <3> HIDE DEF r
    <3>3. ConnStep
      BY <3>1, <3>2, Added
    <3>4. ListenerStep
      BY <3>2, ListenerTurn DEF ListenerStep, ListenerState
    <3> QED BY <3>2, <3>3, <3>4
  <2>3. CASE AcceptWithoutPermit(l) \/ AcceptFails(l) \/ Report(l)
    <3>1. ConnStep
      BY <2>3, CommandsOnly DEF AcceptWithoutPermit, AcceptFails, Report, ConnInv
    <3>2. listeners[l].failures + 1 \in Nat /\ listeners[l].state \in ListenerState
      BY <2>1 DEF ListenerRec
    <3>3. CASE AcceptWithoutPermit(l)
      BY <3>1, <3>3, ListenerTurn DEF AcceptWithoutPermit, ListenerStep, ListenerState
    <3>4. CASE AcceptFails(l)
      <4> DEFINE k == listeners[l].failures + 1
                 t == IF k >= MAX_ACCEPT_FAILURES THEN "Reporting" ELSE listeners[l].state
      <4>1. listeners' = [listeners EXCEPT ![l].failures = k, ![l].state = t]
        BY <3>4 DEF AcceptFails
      <4>2. k \in Nat /\ t \in ListenerState
        BY <3>2 DEF ListenerState
      <4> HIDE DEF k, t
      <4>3. ListenerStep
        BY <4>1, <4>2, ListenerTurn DEF ListenerStep
      <4> QED BY <3>1, <3>4, <4>3 DEF AcceptFails
    <3>5. CASE Report(l)
      BY <3>1, <3>5, ListenerTurn DEF Report, ListenerStep, ListenerState
    <3> QED BY <2>3, <3>3, <3>4, <3>5
  <2> QED BY <1>2, <2>2, <2>3
<1>3. CASE \E c \in DOMAIN conns :
              \/ DialSucceeds(c) \/ DialFails(c)
              \/ Announce(c) \/ RequestSas(c) \/ PeerConfirms(c) \/ Establish(c)
              \/ Deliver(c) \/ Obey(c) \/ Ends(c) \/ Close(c) \/ Orphaned(c)
  BY <1>1, <1>3 DEF ListenerStep
<1>4. CASE \E l \in DOMAIN listeners :
              Accept(l) \/ AcceptWithoutPermit(l) \/ AcceptFails(l) \/ Report(l)
  BY <1>2, <1>4
<1> QED BY <1>3, <1>4 DEF NetNext

-----------------------------------------------------------------------------
(* The steps of App, as far as Net is concerned.                           *)

\* Nothing happens to the connections.
LEMMA ConnsUnchanged ==
    ASSUME ConnInv, UNCHANGED <<conns, next_id, permits>>
    PROVE  ConnStep
BY CommandsOnly DEF ConnInv

\* The user dials.
LEMMA DialStep ==
    ASSUME Shape, Connect
    PROVE  ConnStep
<1> DEFINE r == Connection(net, 0, TRUE, "Dialing")
<1>1. r \in ConnRec /\ r.id = 0 /\ r.stage = "Dialing"
  BY NetBounds DEF Connect, dial, Shape, Connection, ConnRec, Nets, Stage
<1>2. conns' = Append(conns, r) /\ UNCHANGED <<next_id, permits>>
  BY DEF Connect, dial
<1> HIDE DEF r
<1> QED BY <1>1, <1>2, Added DEF Shape

\* Shutdown asks every connection in the table to close.
LEMMA QuitStep ==
    ASSUME ConnInv, Quit
    PROVE  ConnStep
<1> DEFINE closed(c) == \E l \in DOMAIN peers : peers[l].handle = c
<1>1. /\ conns' = [c \in DOMAIN conns |-> IF closed(c) THEN TrySend(c, "Close")[c] ELSE conns[c]]
      /\ UNCHANGED <<next_id, permits>>
  BY DEF Quit, AskedToClose
<1> HIDE DEF closed
<1>2. ASSUME NEW c \in DOMAIN conns
      PROVE  /\ TrySend(c, "Close")[c] \in ConnRec
             /\ TrySend(c, "Close")[c].net = conns[c].net
             /\ TrySend(c, "Close")[c].id = conns[c].id
             /\ TrySend(c, "Close")[c].outbound = conns[c].outbound
             /\ TrySend(c, "Close")[c].stage = conns[c].stage
  <2>1. Append(conns[c].control, "Close") \in Seq(ConnCommand)
    BY ConnFields DEF ConnCommand
  <2>2. TrySend(c, "Close")[c] = IF Takes(c) THEN [conns[c] EXCEPT !.control = Append(@, "Close")]
                                 ELSE conns[c]
    BY ConnFields DEF TrySend
  <2> QED BY <2>1, <2>2, ConnFields DEF ConnRec
<1>3. ASSUME NEW c \in DOMAIN conns
      PROVE  /\ conns'[c] \in ConnRec
             /\ conns'[c].net = conns[c].net /\ conns'[c].id = conns[c].id
             /\ conns'[c].outbound = conns[c].outbound
             /\ conns'[c].stage = conns[c].stage
  BY <1>1, <1>2, ConnFields
<1>4. conns \in Seq(ConnRec)
  BY DEF ConnInv
<1>5. conns' \in Seq(ConnRec) /\ Len(conns') = Len(conns)
  BY <1>1, <1>3, <1>4
<1> QED BY <1>1, <1>3, <1>5, CommandsOnly

\* Initially every permit is free.
LEMMA ShapeInit == Init => Shape
<1> SUFFICES ASSUME Init PROVE Shape
  OBVIOUS
<1>1. /\ net = 0 /\ phase = "Running" /\ conns = <<>> /\ listeners = <<>>
      /\ next_id = [n \in Nets |-> 1]
      /\ permits = [n \in Nets |-> MAX_UNAUTHENTICATED_HANDSHAKES]
  BY DEF Init, NetInit
<1>2. ASSUME NEW n \in Nets PROVE Cardinality(OutOf(conns, n)) = 0
  <2>1. OutOf(conns, n) = {}
    BY <1>1 DEF OutOf
  <2> QED BY <2>1, FS_EmptySet
<1>3. Balanced(conns, permits)
  BY <1>1, <1>2, NetBounds DEF Balanced
<1> QED BY <1>1, <1>3, NetBounds DEF Shape, ConnInv, Ids

\* Every step keeps the shape of the state and lets connections only progress.
LEMMA ShapeNext ==
    ASSUME Shape, [Next]_vars
    PROVE  Shape' /\ Progress
<1> USE DEF Shape
<1> SUFFICES ConnStep /\ ListenerStep /\ net' \in 0..MAX_NETS
             /\ (phase' = "Loading" => net' < MAX_NETS)
  BY DEF ConnStep, ListenerStep
<1>1. CASE phase # "Exited" /\ NetNext /\ UNCHANGED appVars
  BY <1>1, NetStep DEF appVars
<1>2. CASE OnNetEvent
  <2> DEFINE e == Head(events)
  <2>1. phase' = phase /\ net' = net /\ UNCHANGED <<next_id, permits, listeners>>
    BY <1>2 DEF OnNetEvent
  <2>2. conns' = conns \/ \E x : conns' = TrySend(x, "Reject")
    <3> DEFINE Result == conns' = conns \/ \E x : conns' = TrySend(x, "Reject")
    <3>1. ASSUME NEW label, OnSasRequired(e, label) PROVE Result
      BY <3>1 DEF OnSasRequired
    <3>2. ASSUME NEW label, OnEstablished(label) \/ OnMessage(label) \/ OnClosed(e, label)
          PROVE  Result
      BY <3>2 DEF OnEstablished, OnMessage, OnClosed
    <3>3. Ignored \/ OnOpened(e) \/ OnListenerStopped(e) => Result
      BY DEF Ignored, OnOpened, OnListenerStopped
    <3> HIDE DEF Result
    <3>4. OnConnEvent(e) => Result
      BY <3>1, <3>2, <3>3 DEF OnConnEvent
    <3> HIDE DEF e
    <3>5. OnOpened(e) \/ Ignored \/ OnListenerStopped(e) \/ OnConnEvent(e)
      BY <1>2 DEF OnNetEvent, e
    <3>6. Result
      BY <3>3, <3>4, <3>5
    <3> QED BY <3>6 DEF Result
  <2>3. ConnStep
    BY <2>1, <2>2, ConnsUnchanged, TrySendStep DEF ConnCommand
  <2> QED BY <2>1, <2>3 DEF ListenerStep
<1>3. CASE TypeAnswer
  BY <1>3, ConnsUnchanged DEF TypeAnswer, netVars, ListenerStep
<1>4. CASE Enter \/ Escape
  <2>1. PICK approve \in BOOLEAN : AnswerSas(approve)
    BY <1>4 DEF Enter, Escape
  <2>2. conns' = conns \/ \E x : \E command \in ConnCommand : conns' = TrySend(x, command)
    BY <2>1 DEF AnswerSas, ConnCommand
  <2>3. ConnStep
    BY <2>1, <2>2, ConnsUnchanged, TrySendStep DEF AnswerSas
  <2> QED BY <2>1, <2>3 DEF AnswerSas, ListenerStep
<1>5. CASE Start
  <2>1. listeners' = Append(listeners, [net |-> net, state |-> "Accepting", failures |-> 0])
        /\ net # 0
    BY <1>5 DEF Start, listen
  <2>2. [net |-> net, state |-> "Accepting", failures |-> 0] \in ListenerRec
    BY <2>1, NetBounds DEF ListenerRec, ListenerState, Nets
  <2>3. ListenerStep
    BY <2>1, <2>2 DEF ListenerStep
  <2> QED BY <1>5, <2>3, ConnsUnchanged DEF Start
<1>6. CASE Stop
  <2>1. ListenerStep
    <3>1. listeners' = [listeners EXCEPT ![listener].state = "Ended"]
      BY <1>6 DEF Stop, Stopped
    <3>2. CASE listener \in DOMAIN listeners
      BY <3>1, <3>2, ListenerTurn DEF ListenerStep, ListenerState
    <3>3. CASE listener \notin DOMAIN listeners
      <4>1. listeners' = listeners
        BY <3>1, <3>3
      <4> QED BY <4>1 DEF ListenerStep
    <3> QED BY <3>2, <3>3
  <2> QED BY <1>6, <2>1, ConnsUnchanged DEF Stop
<1>7. CASE Connect
  BY <1>7, DialStep DEF Connect, appVars, ListenerStep
<1>8. ASSUME NEW label \in DOMAIN peers,
             UseTarget(label) \/ CloseSession(label) \/ RequestRekey(label) \/ TryEnterChat(label)
      PROVE  ConnStep /\ UNCHANGED <<listeners, net, phase>>
  <2>1. CASE UseTarget(label) \/ TryEnterChat(label)
    BY <2>1, ConnsUnchanged DEF UseTarget, TryEnterChat, netVars
  <2>2. CASE CloseSession(label) \/ RequestRekey(label)
    BY <2>2, TrySendStep DEF CloseSession, RequestRekey, ConnCommand, appVars
  <2> QED BY <1>8, <2>1, <2>2
<1>9. CASE LeaveChat
  BY <1>9, ConnsUnchanged DEF LeaveChat, netVars, ListenerStep
<1>10. CASE SwitchProfile
  BY <1>10, ConnsUnchanged DEF SwitchProfile, netVars, ListenerStep
<1>11. CASE InstallIdentity
  BY <1>11, ConnsUnchanged, NetBounds DEF InstallIdentity, ListenerStep
<1>12. CASE LoadFails
  BY <1>12, ConnsUnchanged DEF LoadFails, netVars, ListenerStep
<1>13. CASE Quit
  <2>1. ListenerStep
    <3>1. listeners' = listeners \/ listeners' = [listeners EXCEPT ![listener].state = "Ended"]
      BY <1>13 DEF Quit, Stopped
    <3>2. CASE listener \in DOMAIN listeners
      BY <3>1, <3>2, ListenerTurn DEF ListenerStep, ListenerState
    <3>3. CASE listener \notin DOMAIN listeners
      <4>1. listeners' = listeners
        BY <3>1, <3>3
      <4> QED BY <4>1 DEF ListenerStep
    <3> QED BY <3>2, <3>3
  <2> QED BY <1>13, <2>1, QuitStep DEF Quit
<1>14. CASE AwaitClosed
  BY <1>14, ConnsUnchanged DEF AwaitClosed, ListenerStep
<1>15. CASE Exit
  BY <1>15, ConnsUnchanged DEF Exit, netVars, ListenerStep
<1>16. CASE UNCHANGED vars
  BY <1>16, ConnsUnchanged DEF vars, netVars, appVars, ListenerStep
<1>17. CASE \E label \in DOMAIN peers :
               UseTarget(label) \/ CloseSession(label) \/ RequestRekey(label) \/ TryEnterChat(label)
  BY <1>8, <1>17 DEF ListenerStep
<1> QED
  BY <1>1, <1>2, <1>3, <1>4, <1>5, <1>6, <1>7, <1>9, <1>10, <1>11, <1>12, <1>13, <1>14,
     <1>15, <1>16, <1>17 DEF Next

\* The shape of the state is an invariant.
LEMMA ShapeHolds == Spec => []Shape
<1> QED BY ShapeInit, ShapeNext, PTL DEF Spec

\* The permits that are out are those of the inbound connections that are still
\* unauthenticated, for any number of permits, connections and identities.
THEOREM PermitsStayBalanced == Spec => []PermitsBalance
<1>1. Shape => PermitsBalance
  BY BalancedIsProperty DEF Shape, ConnInv
<1> QED BY <1>1, ShapeHolds, PTL

-----------------------------------------------------------------------------
(* The peer table and its index.                                           *)

EventRec == [kind : {"DialFailed", "ListenerStopped", "Opened", "SasRequired",
                     "Established", "Message", "Closed"},
             id : Nat, from : Nat]

PeerRec == [id : Nat, handle : Nat, status : {"Handshaking", "Connected", "Closed"},
            unread : BOOLEAN]

\* Connection c of the identity in use has been announced under identifier id.
Leads(c, id) ==
    /\ c \in DOMAIN conns /\ Announced(conns[c])
    /\ conns[c].net = net /\ conns[c].id = id
    /\ id # 0

Table ==
    /\ next_label \in Nat
    /\ \A label \in DOMAIN peers :
          /\ label \in 1..next_label
          /\ peers[label] \in PeerRec
          /\ Leads(peers[label].handle, peers[label].id)
          /\ peers[label].id \in DOMAIN by_id /\ by_id[peers[label].id] = label
    /\ \A id \in DOMAIN by_id : by_id[id] \in DOMAIN peers /\ peers[by_id[id]].id = id

IsOpened(e) == e.kind = "Opened"

\* Every connection is announced once.
OpenedOnce ==
    /\ events \in Seq(EventRec)
    /\ \A i \in DOMAIN events : IsOpened(events[i]) =>
          /\ Leads(events[i].from, events[i].id)
          /\ \A label \in DOMAIN peers : peers[label].handle # events[i].from
          /\ \A j \in DOMAIN events :
                (IsOpened(events[j]) /\ events[j].from = events[i].from) => i = j

TableInv ==
    /\ Table
    /\ OpenedOnce
    /\ phase = "Loading" => DOMAIN peers = {}

\* What leads to a connection goes on leading to it.
LEMMA LeadsOn ==
    ASSUME NEW c, NEW id, Leads(c, id), Progress, net' = net
    PROVE  Leads(c, id)'
BY DEF Leads, Progress

\* Two connections that are announced under one identifier are one.
LEMMA LeadsToOne ==
    ASSUME ConnInv, NEW c, NEW d, NEW id, Leads(c, id), Leads(d, id)
    PROVE  c = d
BY DEF Leads, ConnInv, Ids

\* The table keeps its peers, whatever happens to their status.
LEMMA TableKept ==
    ASSUME Table, Progress, net' = net, UNCHANGED <<by_id, next_label>>,
           DOMAIN peers' = DOMAIN peers,
           \A label \in DOMAIN peers : /\ peers'[label] \in PeerRec
                                       /\ peers'[label].id = peers[label].id
                                       /\ peers'[label].handle = peers[label].handle
    PROVE  Table'
<1>1. ASSUME NEW label \in DOMAIN peers
      PROVE  Leads(peers[label].handle, peers[label].id)'
  BY LeadsOn DEF Table
<1> QED BY <1>1 DEF Table

\* Nothing happens to the table.
LEMMA TableUnchanged ==
    ASSUME Table, Progress, net' = net, UNCHANGED <<peers, by_id, next_label>>
    PROVE  Table'
BY TableKept DEF Table

\* A peer is forgotten together with its entry in the index.
LEMMA TableForgets ==
    ASSUME Table, Progress, net' = net, UNCHANGED next_label,
           NEW label \in DOMAIN peers,
           peers' = Without(peers, label), by_id' = Without(by_id, peers[label].id)
    PROVE  Table'
<1>1. /\ DOMAIN peers' = DOMAIN peers \ {label}
      /\ \A l \in DOMAIN peers' : peers'[l] = peers[l]
      /\ DOMAIN by_id' = DOMAIN by_id \ {peers[label].id}
      /\ \A id \in DOMAIN by_id' : by_id'[id] = by_id[id]
  BY DEF Without
<1>2. ASSUME NEW l \in DOMAIN peers'
      PROVE  /\ l \in 1..next_label' /\ peers'[l] \in PeerRec
             /\ Leads(peers[l].handle, peers[l].id)'
             /\ peers'[l].id \in DOMAIN by_id' /\ by_id'[peers'[l].id] = l
  BY <1>1, LeadsOn DEF Table
<1>3. ASSUME NEW id \in DOMAIN by_id'
      PROVE  by_id'[id] \in DOMAIN peers' /\ peers'[by_id'[id]].id = id
  BY <1>1 DEF Table
<1> QED BY <1>2, <1>3 DEF Table

\* The table is cleared.
LEMMA TableEmpty ==
    ASSUME next_label' \in Nat, DOMAIN peers' = {}, DOMAIN by_id' = {}
    PROVE  Table'
BY DEF Table

\* Peers that stay were there before.
PeersStay ==
    \A label \in DOMAIN peers' :
        label \in DOMAIN peers /\ peers'[label].handle = peers[label].handle

\* Nothing happens to the queue; peers may go.
LEMMA QueueUnchanged ==
    ASSUME OpenedOnce, Progress, net' = net, PeersStay, events' = events
    PROVE  OpenedOnce'
<1>1. ASSUME NEW i \in DOMAIN events, IsOpened(events[i])
      PROVE  Leads(events[i].from, events[i].id)'
  BY <1>1, LeadsOn DEF OpenedOnce
<1> QED BY <1>1 DEF OpenedOnce, PeersStay

\* The oldest event is taken.
LEMMA QueueTail ==
    ASSUME OpenedOnce, Progress, net' = net, events # <<>>, events' = Tail(events),
           \A label \in DOMAIN peers' :
              \/ label \in DOMAIN peers /\ peers'[label].handle = peers[label].handle
              \/ IsOpened(Head(events)) /\ peers'[label].handle = Head(events).from
    PROVE  OpenedOnce'
<1>1. /\ events' \in Seq(EventRec)
      /\ \A i \in DOMAIN events' : i + 1 \in DOMAIN events /\ events'[i] = events[i + 1] /\ i + 1 # 1
      /\ 1 \in DOMAIN events /\ Head(events) = events[1]
      /\ \A i, j \in DOMAIN events' : i + 1 = j + 1 => i = j
  BY DEF OpenedOnce
<1>2. ASSUME NEW i \in DOMAIN events', IsOpened(events'[i])
      PROVE  /\ Leads(events[i].from, events[i].id)'
             /\ \A label \in DOMAIN peers' : peers'[label].handle # events'[i].from
             /\ \A j \in DOMAIN events' :
                   (IsOpened(events'[j]) /\ events'[j].from = events'[i].from) => i = j
  <2>1. Leads(events[i].from, events[i].id)'
    <3>1. PICK c, id : c = events[i + 1].from /\ id = events[i + 1].id
      OBVIOUS
    <3>2. Leads(c, id)
      BY <1>1, <1>2, <3>1 DEF OpenedOnce
    <3>3. Leads(c, id)'
      BY <3>2, LeadsOn
    <3> QED BY <1>1, <3>1, <3>3
  <2>2. \A label \in DOMAIN peers' : peers'[label].handle # events[i + 1].from
    BY <1>1, <1>2 DEF OpenedOnce
  <2>3. ASSUME NEW j \in DOMAIN events', IsOpened(events'[j]), events'[j].from = events'[i].from
        PROVE  i = j
    BY <1>1, <1>2, <2>3 DEF OpenedOnce
  <2> QED BY <1>1, <2>1, <2>2, <2>3
<1> QED BY <1>1, <1>2 DEF OpenedOnce, IsOpened

\* An event is added: that of another connection, if it is Opened.
LEMMA QueueAppend ==
    ASSUME OpenedOnce, Progress, net' = net, UNCHANGED peers, NEW e \in EventRec,
           events' = Append(events, e),
           IsOpened(e) => /\ Leads(e.from, e.id)'
                          /\ \A label \in DOMAIN peers : peers[label].handle # e.from
                          /\ \A i \in DOMAIN events :
                                IsOpened(events[i]) => events[i].from # e.from
    PROVE  OpenedOnce'
<1>k. PICK k : k = Len(events) + 1
  OBVIOUS
<1>1. /\ events' \in Seq(EventRec)
      /\ DOMAIN events' = DOMAIN events \cup {k} /\ k \notin DOMAIN events
      /\ events'[k] = e /\ \A i \in DOMAIN events : events'[i] = events[i]
  BY <1>k DEF OpenedOnce
<1>2. ASSUME NEW i \in DOMAIN events, IsOpened(events[i])
      PROVE  Leads(events[i].from, events[i].id)'
  <2>1. PICK c, id : c = events[i].from /\ id = events[i].id
    OBVIOUS
  <2>2. Leads(c, id)'
    BY <1>2, <2>1, LeadsOn DEF OpenedOnce
  <2> QED BY <1>1, <2>1, <2>2
<1>3. IsOpened(e) => Leads(events[k].from, events[k].id)'
  BY <1>1
<1>4. ASSUME NEW i \in DOMAIN events', IsOpened(events'[i])
      PROVE  /\ \A label \in DOMAIN peers' : peers'[label].handle # events'[i].from
             /\ \A j \in DOMAIN events' :
                   (IsOpened(events'[j]) /\ events'[j].from = events'[i].from) => i = j
  BY <1>1, <1>4 DEF OpenedOnce
<1>5. ASSUME NEW i \in DOMAIN events', IsOpened(events'[i])
      PROVE  Leads(events[i].from, events[i].id)'
  BY <1>1, <1>2, <1>3, <1>5
<1> QED BY <1>1, <1>4, <1>5 DEF OpenedOnce, IsOpened

\* Every step of a task or of a listener.
LEMMA TableNetStep ==
    ASSUME Shape, TableInv, NetNext, Progress, UNCHANGED appVars
    PROVE  TableInv'
<1>1. net' = net /\ UNCHANGED <<peers, by_id, next_label, phase>>
  BY NetStep DEF appVars
<1>2. Table'
  BY <1>1, TableUnchanged DEF TableInv
<1>3. ASSUME events' = events PROVE OpenedOnce'
  BY <1>1, <1>3, QueueUnchanged DEF PeersStay, TableInv
<1>4. ASSUME NEW e \in EventRec, ~IsOpened(e), NEW n, Tell(n, e) PROVE OpenedOnce'
  BY <1>1, <1>3, <1>4, QueueAppend DEF Tell, TableInv
<1>5. ASSUME NEW c \in DOMAIN conns, NEW kind \in {"SasRequired", "Established", "Message", "Closed"},
             Tell(net, ConnEvent(c, kind))
      PROVE  OpenedOnce'
  <2>1. ConnEvent(c, kind) \in EventRec /\ ~IsOpened(ConnEvent(c, kind))
    <3>1. conns[c] \in ConnRec /\ c \in Nat
      BY DEF Shape, ConnInv
    <3> QED BY <3>1 DEF ConnEvent, EventRec, IsOpened, ConnRec
  <2> QED BY <1>4, <1>5, <2>1
<1>6. ASSUME NEW c \in DOMAIN conns, Announce(c) PROVE OpenedOnce'
  <2> DEFINE e == ConnEvent(c, "Opened")
  <2>1. /\ events' = Append(events, e) /\ conns[c].stage = "New" /\ conns[c].net = net
        /\ conns' = [conns EXCEPT ![c].stage = "Opened"]
    BY <1>6 DEF Announce, Event, Tell, Becomes
  <2>2. conns \in Seq(ConnRec) /\ conns[c] \in ConnRec /\ c \in Nat
    BY DEF Shape, ConnInv
  <2>3. e \in EventRec /\ e.from = c /\ e.id = conns[c].id /\ IsOpened(e)
    BY <2>2 DEF ConnEvent, EventRec, ConnRec, IsOpened
  <2>4. conns[c].id # 0
    BY <2>1 DEF Shape, ConnInv, Ids
  <2>5. /\ c \in DOMAIN conns' /\ conns'[c].stage = "Opened" /\ conns'[c].net = net
        /\ conns'[c].id = conns[c].id
    BY <2>1, <2>2 DEF ConnRec
  <2>6. PICK id : id = conns[c].id
    OBVIOUS
  <2>7. Leads(c, id)'
    BY <1>1, <2>4, <2>5, <2>6 DEF Leads, Announced
  <2>8. ~Announced(conns[c])
    BY <2>1 DEF Announced
  <2>9. \A label \in DOMAIN peers : peers[label].handle # c
    BY <2>8 DEF TableInv, Table, Leads
  <2>10. \A i \in DOMAIN events : IsOpened(events[i]) => events[i].from # c
    BY <2>8 DEF TableInv, OpenedOnce, Leads
  <2>11. PICK r \in EventRec : r = e
    BY <2>3
  <2>12. /\ r.from = c /\ r.id = id /\ events' = Append(events, r)
    BY <2>1, <2>3, <2>6, <2>11
  <2>13. Leads(r.from, r.id)'
    BY <2>7, <2>12
  <2>14. /\ \A label \in DOMAIN peers : peers[label].handle # r.from
         /\ \A i \in DOMAIN events : IsOpened(events[i]) => events[i].from # r.from
    BY <2>9, <2>10, <2>12
  <2> QED BY <1>1, <2>12, <2>13, <2>14, QueueAppend DEF TableInv
<1>7. ASSUME NEW c \in DOMAIN conns,
             \/ DialSucceeds(c) \/ DialFails(c)
             \/ Announce(c) \/ RequestSas(c) \/ PeerConfirms(c) \/ Establish(c)
             \/ Deliver(c) \/ Obey(c) \/ Ends(c) \/ Close(c) \/ Orphaned(c)
      PROVE  OpenedOnce'
  <2>1. CASE DialSucceeds(c) \/ PeerConfirms(c) \/ Obey(c) \/ Ends(c) \/ Orphaned(c)
    BY <2>1, <1>3 DEF DialSucceeds, PeerConfirms, Obey, Ends, Orphaned
  <2>2. CASE DialFails(c)
    <3>1. [kind |-> "DialFailed", id |-> 0, from |-> c] \in EventRec
      BY DEF EventRec, Shape, ConnInv
    <3> QED BY <1>4, <2>2, <3>1 DEF DialFails, IsOpened
  <2>3. CASE RequestSas(c) \/ Establish(c) \/ Deliver(c) \/ Close(c)
    BY <1>5, <2>3 DEF RequestSas, Establish, Deliver, Close, Event
  <2> QED BY <1>6, <1>7, <2>1, <2>2, <2>3
<1>8. ASSUME NEW l \in DOMAIN listeners,
             Accept(l) \/ AcceptWithoutPermit(l) \/ AcceptFails(l) \/ Report(l)
      PROVE  OpenedOnce'
  <2>1. CASE Accept(l) \/ AcceptWithoutPermit(l) \/ AcceptFails(l)
    BY <2>1, <1>3 DEF Accept, AcceptWithoutPermit, AcceptFails
  <2>2. CASE Report(l)
    <3>1. [kind |-> "ListenerStopped", id |-> 0, from |-> l] \in EventRec
      BY DEF EventRec, Shape
    <3> QED BY <1>4, <2>2, <3>1 DEF Report, IsOpened
  <2> QED BY <1>8, <2>1, <2>2
<1>9. OpenedOnce'
  BY <1>7, <1>8 DEF NetNext
<1> QED BY <1>1, <1>2, <1>9 DEF TableInv

\* An event is taken by the application.
LEMMA TableEventStep ==
    ASSUME Shape, TableInv, OnNetEvent, Progress
    PROVE  TableInv'
<1> DEFINE e == Head(events)
<1>1. net' = net /\ phase' = "Running" /\ events # <<>> /\ events' = Tail(events)
  BY DEF OnNetEvent
<1>2. events \in Seq(EventRec) /\ e = events[1] /\ 1 \in DOMAIN events /\ e \in EventRec
  BY <1>1 DEF TableInv, OpenedOnce
<1>3. ASSUME UNCHANGED <<peers, by_id, next_label>> PROVE Table' /\ PeersStay
  BY <1>1, <1>3, TableUnchanged DEF TableInv, PeersStay
<1>4. ASSUME NEW label \in DOMAIN peers, NEW r \in PeerRec,
             r.id = peers[label].id, r.handle = peers[label].handle,
             peers' = [peers EXCEPT ![label] = r], UNCHANGED <<by_id, next_label>>
      PROVE  Table' /\ PeersStay
  <2>1. \A l \in DOMAIN peers : peers'[l] \in PeerRec /\ peers'[l].id = peers[l].id
                                /\ peers'[l].handle = peers[l].handle
    BY <1>4 DEF TableInv, Table
  <2>2. DOMAIN peers' = DOMAIN peers
    BY <1>4
  <2>3. Table'
    BY <1>1, <1>4, <2>1, <2>2, TableKept DEF TableInv
  <2> QED BY <2>1, <2>2, <2>3 DEF PeersStay
<1>5. ASSUME NEW label \in DOMAIN peers, e.id \in DOMAIN by_id, label = by_id[e.id],
             OnEstablished(label) \/ OnMessage(label) \/ OnSasRequired(e, label) \/ OnClosed(e, label)
      PROVE  Table' /\ PeersStay
  <2>1. peers[label] \in PeerRec
    BY DEF TableInv, Table
  <2>2. CASE OnEstablished(label)
    <3> DEFINE r == [peers[label] EXCEPT !.status = "Connected"]
    <3>1. r \in PeerRec /\ r.id = peers[label].id /\ r.handle = peers[label].handle
      BY <2>1 DEF PeerRec
    <3> QED BY <1>4, <2>2, <3>1 DEF OnEstablished
  <2>3. CASE OnMessage(label)
    <3> DEFINE r == [peers[label] EXCEPT !.unread = (@ \/ mode # label)]
    <3>1. r \in PeerRec /\ r.id = peers[label].id /\ r.handle = peers[label].handle
      BY <2>1 DEF PeerRec
    <3> QED BY <1>4, <2>3, <3>1 DEF OnMessage
  <2>4. CASE OnSasRequired(e, label)
    BY <1>3, <2>4 DEF OnSasRequired, table
  <2>5. CASE OnClosed(e, label) /\ Kept(label)
    <3> DEFINE r == [peers[label] EXCEPT !.status = "Closed"]
    <3>1. r \in PeerRec /\ r.id = peers[label].id /\ r.handle = peers[label].handle
      BY <2>1 DEF PeerRec
    <3> QED BY <1>4, <2>5, <3>1 DEF OnClosed
  <2>6. CASE OnClosed(e, label) /\ ~Kept(label)
    <3>1. peers' = Without(peers, label) /\ by_id' = Without(by_id, e.id)
          /\ next_label' = next_label
      BY <2>6 DEF OnClosed
    <3>2. e.id = peers[label].id
      BY <1>5 DEF TableInv, Table
    <3> QED BY <1>1, <3>1, <3>2, TableForgets DEF TableInv, PeersStay, Without
  <2> QED BY <1>5, <2>2, <2>3, <2>4, <2>5, <2>6
<1>6. ASSUME OnOpened(e), IsOpened(e) PROVE Table'
  <2> DEFINE label == next_label + 1
             r == [id |-> e.id, handle |-> e.from, status |-> "Handshaking", unread |-> FALSE]
  <2>1. /\ peers' = With(peers, label, r) /\ by_id' = With(by_id, e.id, label)
        /\ next_label' = label
    BY <1>6 DEF OnOpened
  <2>2. /\ label \in Nat /\ label \notin DOMAIN peers
        /\ \A l \in DOMAIN peers : l \in 1..label
        /\ label \in 1..label
    BY DEF TableInv, Table
  <2>3. r \in PeerRec /\ r.id = e.id /\ r.handle = e.from
    BY <1>2 DEF EventRec, PeerRec
  <2>4. Leads(e.from, e.id) /\ \A l \in DOMAIN peers : peers[l].handle # e.from
    BY <1>2, <1>6 DEF TableInv, OpenedOnce
  <2>5. e.id \notin DOMAIN by_id
    <3> SUFFICES ASSUME e.id \in DOMAIN by_id PROVE FALSE
      OBVIOUS
    <3>1. by_id[e.id] \in DOMAIN peers /\ peers[by_id[e.id]].id = e.id
      BY DEF TableInv, Table
    <3>2. Leads(peers[by_id[e.id]].handle, e.id)
      BY <3>1 DEF TableInv, Table
    <3> QED BY <2>4, <3>1, <3>2, LeadsToOne DEF Shape
  <2> HIDE DEF r, label
  <2>6. /\ DOMAIN peers' = DOMAIN peers \cup {label}
        /\ peers'[label] = r /\ \A l \in DOMAIN peers : peers'[l] = peers[l]
        /\ DOMAIN by_id' = DOMAIN by_id \cup {e.id}
        /\ by_id'[e.id] = label /\ \A id \in DOMAIN by_id : by_id'[id] = by_id[id]
    BY <2>1, <2>2, <2>5 DEF With
  <2>7. ASSUME NEW l \in DOMAIN peers'
        PROVE  /\ l \in 1..next_label' /\ peers'[l] \in PeerRec
               /\ Leads(peers[l].handle, peers[l].id)'
               /\ peers'[l].id \in DOMAIN by_id' /\ by_id'[peers'[l].id] = l
    <3>1. PICK c, id : c = peers'[l].handle /\ id = peers'[l].id
      OBVIOUS
    <3>2. Leads(c, id)
      BY <2>3, <2>4, <2>6, <3>1 DEF TableInv, Table
    <3>3. Leads(peers[l].handle, peers[l].id)'
      BY <1>1, <3>1, <3>2, LeadsOn
    <3> QED BY <2>1, <2>2, <2>3, <2>6, <3>3 DEF TableInv, Table
  <2>8. ASSUME NEW id \in DOMAIN by_id'
        PROVE  by_id'[id] \in DOMAIN peers' /\ peers'[by_id'[id]].id = id
    BY <2>3, <2>6 DEF TableInv, Table
  <2> QED BY <2>1, <2>2, <2>7, <2>8 DEF Table
<1>7. ASSUME OnOpened(e), IsOpened(e) PROVE OpenedOnce'
  <2>1. \A label \in DOMAIN peers' :
              \/ label \in DOMAIN peers /\ peers'[label].handle = peers[label].handle
              \/ peers'[label].handle = e.from
    BY <1>7 DEF OnOpened, With
  <2> QED BY <1>1, <1>7, <2>1, QueueTail DEF TableInv
<1>8. ASSUME PeersStay PROVE OpenedOnce'
  BY <1>1, <1>8, QueueTail DEF PeersStay, TableInv
<1>9. \/ OnOpened(e) /\ IsOpened(e)
      \/ Ignored \/ OnListenerStopped(e) \/ OnConnEvent(e)
  BY DEF OnNetEvent, IsOpened
<1>10. CASE Ignored \/ OnListenerStopped(e)
  BY <1>1, <1>3, <1>8, <1>10 DEF Ignored, OnListenerStopped, table, TableInv
<1>11. CASE OnConnEvent(e) /\ ~Ignored
  <2>1. PICK label : label = by_id[e.id]
    OBVIOUS
  <2>2. /\ e.id \in DOMAIN by_id
        /\ OnEstablished(label) \/ OnMessage(label) \/ OnSasRequired(e, label) \/ OnClosed(e, label)
    BY <1>11, <2>1 DEF OnConnEvent
  <2>3. label \in DOMAIN peers
    BY <2>1, <2>2 DEF TableInv, Table
  <2> QED BY <1>1, <1>5, <1>8, <2>1, <2>2, <2>3 DEF TableInv
<1>12. CASE OnOpened(e) /\ IsOpened(e)
  BY <1>1, <1>6, <1>7, <1>12 DEF TableInv
<1> QED BY <1>9, <1>10, <1>11, <1>12

\* Everything else the application does.
LEMMA TableAppStep ==
    ASSUME Shape, TableInv, Progress,
           \/ TypeAnswer \/ Enter \/ Escape \/ Start \/ Stop \/ Connect
           \/ \E label \in DOMAIN peers :
                 UseTarget(label) \/ CloseSession(label) \/ RequestRekey(label)
                    \/ TryEnterChat(label)
           \/ LeaveChat \/ SwitchProfile \/ InstallIdentity \/ LoadFails
           \/ Quit \/ AwaitClosed \/ Exit \/ UNCHANGED vars
    PROVE  TableInv'
<1>1. ASSUME UNCHANGED <<net, events, peers, by_id, next_label>>,
             phase' = "Loading" => DOMAIN peers = {}
      PROVE  TableInv'
  BY <1>1, TableUnchanged, QueueUnchanged DEF TableInv, PeersStay
<1>2. ASSUME net' = net, UNCHANGED <<by_id, next_label>>,
             DOMAIN peers' = DOMAIN peers,
             \A label \in DOMAIN peers : /\ peers'[label] \in PeerRec
                                         /\ peers'[label].id = peers[label].id
                                         /\ peers'[label].handle = peers[label].handle,
             events' = events \/ (events # <<>> /\ events' = Tail(events)),
             phase' # "Loading"
      PROVE  TableInv'
  BY <1>2, TableKept, QueueUnchanged, QueueTail DEF TableInv, PeersStay
<1>3. CASE TypeAnswer \/ Enter \/ Escape
  BY <1>1, <1>3 DEF TypeAnswer, Enter, Escape, AnswerSas, netVars, table
<1>4. CASE Start \/ Stop \/ Connect
  BY <1>1, <1>4 DEF Start, Stop, Connect, AtRepl, appVars, table
<1>5. CASE \E label \in DOMAIN peers :
              UseTarget(label) \/ CloseSession(label) \/ RequestRekey(label)
  BY <1>1, <1>5 DEF UseTarget, CloseSession, RequestRekey, AtRepl, InChat, netVars, appVars,
                    TableInv
<1>6. ASSUME NEW label \in DOMAIN peers, TryEnterChat(label) PROVE TableInv'
  <2> DEFINE r == [peers[label] EXCEPT !.unread = FALSE]
  <2>1. peers[label] \in PeerRec
    BY DEF TableInv, Table
  <2>2. r \in PeerRec /\ r.id = peers[label].id /\ r.handle = peers[label].handle
    BY <2>1 DEF PeerRec
  <2>3. peers' = [peers EXCEPT ![label] = r]
    BY <1>6 DEF TryEnterChat
  <2> HIDE DEF r
  <2>4. DOMAIN peers' = DOMAIN peers
        /\ \A l \in DOMAIN peers : /\ peers'[l] \in PeerRec
                                   /\ peers'[l].id = peers[l].id
                                   /\ peers'[l].handle = peers[l].handle
    BY <2>2, <2>3 DEF TableInv, Table
  <2> QED BY <1>2, <1>6, <2>4 DEF TryEnterChat, AtRepl, netVars
<1>7. CASE LeaveChat
  <2>1. UNCHANGED <<net, events, next_label>> /\ phase' = "Running" /\ phase = "Running"
    BY <1>7 DEF LeaveChat, InChat, netVars
  <2>2. CASE ForgetsClosed(mode)
    <3>1. peers' = Without(peers, mode) /\ by_id' = Without(by_id, peers[mode].id)
          /\ mode \in DOMAIN peers
      BY <1>7, <2>2 DEF LeaveChat, ForgetsClosed
    <3>2. PICK m : m = mode
      OBVIOUS
    <3>3. Table'
      BY <2>1, <3>1, <3>2, TableForgets DEF TableInv
    <3>4. OpenedOnce'
      BY <2>1, <3>1, QueueUnchanged DEF TableInv, PeersStay, Without
    <3> QED BY <2>1, <3>3, <3>4 DEF TableInv
  <2>3. CASE ~ForgetsClosed(mode)
    BY <1>1, <1>7, <2>1, <2>3 DEF LeaveChat
  <2> QED BY <2>2, <2>3
<1>8. CASE SwitchProfile
  BY <1>1, <1>8 DEF SwitchProfile, EnsureIdle, netVars, table
<1>9. CASE InstallIdentity
  <2>1. DOMAIN peers = {} /\ DOMAIN by_id = {} /\ next_label \in Nat
    BY <1>9 DEF InstallIdentity, TableInv, Table
  <2>2. UNCHANGED <<peers, by_id, next_label>> /\ events' = <<>> /\ phase' = "Running"
    BY <1>9 DEF InstallIdentity, table
  <2>3. Table'
    BY <2>1, <2>2, TableEmpty
  <2>4. OpenedOnce'
    BY <2>2 DEF OpenedOnce
  <2> QED BY <2>2, <2>3, <2>4 DEF TableInv
<1>10. CASE LoadFails
  BY <1>1, <1>10 DEF LoadFails, netVars, table
<1>11. CASE Quit
  BY <1>1, <1>11 DEF Quit, table
<1>12. CASE AwaitClosed
  <2> DEFINE e == Head(events)
  <2>1. /\ net' = net /\ UNCHANGED <<by_id, next_label>> /\ phase' = "Stopping"
        /\ events # <<>> /\ events' = Tail(events)
    BY <1>12 DEF AwaitClosed
  <2>2. \/ peers' = peers
        \/ e.id \in DOMAIN by_id /\ peers' = [peers EXCEPT ![by_id[e.id]].status = "Closed"]
    BY <1>12 DEF AwaitClosed
  <2>3. CASE peers' = peers
    BY <1>2, <2>1, <2>3 DEF TableInv, Table
  <2>4. CASE e.id \in DOMAIN by_id /\ peers' = [peers EXCEPT ![by_id[e.id]].status = "Closed"]
    <3> DEFINE r == [peers[by_id[e.id]] EXCEPT !.status = "Closed"]
    <3>1. by_id[e.id] \in DOMAIN peers /\ peers[by_id[e.id]] \in PeerRec
      BY <2>4 DEF TableInv, Table
    <3>2. r \in PeerRec /\ r.id = peers[by_id[e.id]].id /\ r.handle = peers[by_id[e.id]].handle
      BY <3>1 DEF PeerRec
    <3>3. peers' = [peers EXCEPT ![by_id[e.id]] = r]
      BY <2>4
    <3> HIDE DEF r, e
    <3>4. DOMAIN peers' = DOMAIN peers
          /\ \A l \in DOMAIN peers : /\ peers'[l] \in PeerRec
                                     /\ peers'[l].id = peers[l].id
                                     /\ peers'[l].handle = peers[l].handle
      BY <3>1, <3>2, <3>3 DEF TableInv, Table
    <3> QED BY <1>2, <2>1, <3>4
  <2> QED BY <2>2, <2>3, <2>4
<1>13. CASE Exit
  <2>1. /\ DOMAIN peers' = {} /\ DOMAIN by_id' = {} /\ phase' = "Exited"
        /\ UNCHANGED <<net, events, next_label>>
    BY <1>13 DEF Exit, netVars
  <2>2. Table'
    BY <2>1, TableEmpty DEF TableInv, Table
  <2>3. OpenedOnce'
    BY <2>1, QueueUnchanged DEF TableInv, PeersStay
  <2> QED BY <2>1, <2>2, <2>3 DEF TableInv
<1>14. CASE UNCHANGED vars
  BY <1>1, <1>14 DEF vars, netVars, appVars, TableInv
<1> QED
  BY <1>3, <1>4, <1>5, <1>6, <1>7, <1>8, <1>9, <1>10, <1>11, <1>12, <1>13, <1>14

\* Initially there is no peer and no event.
LEMMA TableInit == Init => TableInv
BY DEF Init, NetInit, TableInv, Table, OpenedOnce

\* The table, its index and the queue stay in agreement.
LEMMA TableHolds == Spec => []TableInv
<1>1. Shape /\ TableInv /\ [Next]_vars => TableInv'
  <2> SUFFICES ASSUME Shape, TableInv, [Next]_vars PROVE TableInv'
    OBVIOUS
  <2>1. Progress
    BY ShapeNext
  <2> QED BY <2>1, TableNetStep, TableEventStep, TableAppStep DEF Next
<1> QED BY <1>1, TableInit, ShapeHolds, PTL DEF Spec

\* The peer table and its index always agree, and a handle leads to the
\* connection its peer stands for, under the identity in use.
THEOREM TableStaysIndexed == Spec => []Indexed
<1>1. TableInv => Indexed
  BY DEF TableInv, Table, Leads, Indexed
<1> QED BY <1>1, TableHolds, PTL

-----------------------------------------------------------------------------
(* The open chat and the default target.                                   *)

\* What NothingStale says of a table, a chat and a target.
Fresh(ps, m, t) ==
    /\ m # None => m \in DOMAIN ps /\ ~ps[m].unread
    /\ \A label \in DOMAIN ps : ps[label].status = "Closed" => m = label
    /\ t # None => t \in DOMAIN ps /\ ps[t].status # "Closed"

StaleInv == Serving => Fresh(peers, mode, default_target)

\* An event leaves no stale chat or target behind.
LEMMA StaleEventStep ==
    ASSUME TableInv, StaleInv, OnNetEvent
    PROVE  StaleInv'
<1> DEFINE e == Head(events)
<1>1. phase = "Running" /\ phase' = "Running" /\ Fresh(peers, mode, default_target)
  BY DEF OnNetEvent, StaleInv, Serving
<1>2. ASSUME UNCHANGED <<peers, mode, default_target>> PROVE StaleInv'
  BY <1>1, <1>2 DEF StaleInv
<1>3. ASSUME OnOpened(e) PROVE StaleInv'
  <2>1. next_label + 1 \notin DOMAIN peers
    BY DEF TableInv, Table
  <2> QED BY <1>1, <1>3, <2>1 DEF OnOpened, StaleInv, Fresh, With
<1>4. ASSUME e.id \in DOMAIN by_id, NEW label, label = by_id[e.id],
             OnEstablished(label) \/ OnMessage(label) \/ OnSasRequired(e, label) \/ OnClosed(e, label)
      PROVE  StaleInv'
  <2>1. label \in DOMAIN peers /\ peers[label] \in PeerRec
    BY <1>4 DEF TableInv, Table
  <2>2. CASE OnEstablished(label)
    BY <1>1, <2>1, <2>2 DEF OnEstablished, StaleInv, Fresh, PeerRec
  <2>3. CASE OnMessage(label)
    BY <1>1, <2>1, <2>3 DEF OnMessage, StaleInv, Fresh, PeerRec
  <2>4. CASE OnSasRequired(e, label)
    BY <1>2, <2>4 DEF OnSasRequired, table
  <2>5. CASE OnClosed(e, label) /\ Kept(label)
    BY <1>1, <2>1, <2>5 DEF OnClosed, Kept, StaleInv, Fresh, PeerRec
  <2>6. CASE OnClosed(e, label) /\ ~Kept(label)
    BY <1>1, <2>1, <2>6 DEF OnClosed, Kept, StaleInv, Fresh, Without
  <2> QED BY <1>4, <2>2, <2>3, <2>4, <2>5, <2>6
<1>5. \/ OnOpened(e)
      \/ Ignored \/ OnListenerStopped(e) \/ OnConnEvent(e)
  BY DEF OnNetEvent
<1>6. CASE Ignored \/ OnListenerStopped(e)
  BY <1>2, <1>6 DEF Ignored, OnListenerStopped, table
<1>7. CASE OnConnEvent(e) /\ ~Ignored
  <2>1. PICK label : label = by_id[e.id]
    OBVIOUS
  <2>2. /\ e.id \in DOMAIN by_id
        /\ OnEstablished(label) \/ OnMessage(label) \/ OnSasRequired(e, label) \/ OnClosed(e, label)
    BY <1>7, <2>1 DEF OnConnEvent
  <2> QED BY <1>4, <2>1, <2>2
<1> QED BY <1>3, <1>5, <1>6, <1>7

\* Nor does any other step.
LEMMA StaleNext ==
    ASSUME TableInv, StaleInv, [Next]_vars
    PROVE  StaleInv'
<1>1. ASSUME UNCHANGED <<peers, mode, default_target>>, Serving' => Serving
      PROVE  StaleInv'
  BY <1>1 DEF StaleInv
<1>2. CASE NetNext /\ UNCHANGED appVars
  BY <1>1, <1>2 DEF appVars, Serving
<1>3. CASE OnNetEvent
  BY <1>3, StaleEventStep
<1>4. CASE TypeAnswer \/ Enter \/ Escape \/ Start \/ Stop \/ Connect
  BY <1>1, <1>4 DEF TypeAnswer, Enter, Escape, AnswerSas, Start, Stop, Connect, AtRepl, appVars,
                    table, Serving
<1>5. ASSUME NEW label \in DOMAIN peers,
             UseTarget(label) \/ CloseSession(label) \/ RequestRekey(label) \/ TryEnterChat(label)
      PROVE  StaleInv'
  <2>1. peers[label] \in PeerRec /\ label # None
    BY DEF TableInv, Table, None
  <2>2. CASE CloseSession(label) \/ RequestRekey(label)
    BY <1>1, <2>2 DEF CloseSession, RequestRekey, appVars, Serving
  <2>3. CASE UseTarget(label)
    BY <2>1, <2>3 DEF UseTarget, AtRepl, StaleInv, Fresh, Serving
  <2>4. CASE TryEnterChat(label)
    <3> DEFINE r == [peers[label] EXCEPT !.unread = FALSE]
    <3>1. r.status = "Connected" /\ ~r.unread
      BY <2>1, <2>4 DEF TryEnterChat, PeerRec
    <3>2. /\ peers' = [peers EXCEPT ![label] = r]
          /\ mode' = label /\ default_target' = label
          /\ mode = None /\ Fresh(peers, mode, default_target)
      BY <2>4 DEF TryEnterChat, AtRepl, StaleInv, Serving
    <3>3. \A l \in DOMAIN peers : peers[l].status # "Closed"
      BY <3>2 DEF TableInv, Table, Fresh, None
    <3> HIDE DEF r
    <3> QED BY <2>1, <3>1, <3>2, <3>3 DEF StaleInv, Fresh
  <2> QED BY <1>5, <2>2, <2>3, <2>4
<1>6. CASE LeaveChat
  BY <1>6 DEF LeaveChat, InChat, ForgetsClosed, StaleInv, Fresh, Serving, Without
<1>7. CASE SwitchProfile \/ InstallIdentity \/ LoadFails
  BY <1>1, <1>7 DEF SwitchProfile, AtRepl, InstallIdentity, LoadFails, table, Serving
<1>8. CASE Quit \/ AwaitClosed \/ Exit
  BY <1>8 DEF Quit, AwaitClosed, Exit, StaleInv, Serving
<1>9. CASE UNCHANGED vars
  BY <1>1, <1>9 DEF vars, appVars, Serving
<1> QED BY <1>2, <1>3, <1>4, <1>5, <1>6, <1>7, <1>8, <1>9 DEF Next

\* The open chat and the default target never point at a peer that is gone, and
\* a closed peer is kept only for the chat that still shows it.
THEOREM NothingGoesStale == Spec => []NothingStale
<1>1. Init => StaleInv
  BY DEF Init, StaleInv, Fresh, None
<1>2. TableInv /\ StaleInv /\ [Next]_vars => StaleInv'
  BY StaleNext
<1>3. StaleInv => NothingStale
  BY DEF StaleInv, Fresh, NothingStale
<1> QED BY <1>1, <1>2, <1>3, TableHolds, PTL DEF Spec

-----------------------------------------------------------------------------
(* What retain leaves of a sequence.                                       *)

\* Among natural numbers there is a least.
LEMMA LeastNat ==
    ASSUME NEW T, T \subseteq Nat, T # {}
    PROVE  \E m \in T : \A k \in T : m <= k
<1> DEFINE R == OpToRel(<, Nat)
<1>1. IsWellFoundedOn(R, Nat)
  BY NatLessThanWellFounded
<1>2. \A x, y \in Nat : x < y => (<<x, y>> \in R)
  BY DEF OpToRel
<1> HIDE DEF R
<1>3. PICK m \in T : \A k \in T : ~ (<<k, m>> \in R)
  BY <1>1, WFMin
<1>4. ASSUME NEW k \in T PROVE m <= k
  <2>1. ~ (k < m)
    BY <1>2, <1>3
  <2>2. k \in Nat /\ m \in Nat
    OBVIOUS
  <2> QED BY <2>1, <2>2
<1> QED BY <1>4

\* How retain goes on with what it has kept of the first n - 1 elements.
Keeps(s, id, kept, n) ==
    IF n = 0 THEN <<>>
    ELSE IF s[n].id # id THEN Append(kept[n - 1], s[n]) ELSE kept[n - 1]

\* f keeps what retain keeps, up to the first n elements.
KeepsTo(s, id, f, n) ==
    /\ f = [i \in 0..n |-> f[i]]
    /\ \A i \in 0..n : f[i] = Keeps(s, id, f, i)

\* There is such a function, by induction on n.
LEMMA KeepsExists ==
    ASSUME NEW s, NEW id, NEW n \in Nat
    PROVE  \E f : KeepsTo(s, id, f, n)
<1> DEFINE T == {k \in Nat : ~ \E f : KeepsTo(s, id, f, k)}
<1> SUFFICES ASSUME T # {} PROVE FALSE
  OBVIOUS
<1>1. PICK m \in T : \A k \in T : m <= k
  BY LeastNat
<1>2. m # 0
  <2>1. KeepsTo(s, id, [i \in 0..0 |-> <<>>], 0)
    BY DEF KeepsTo, Keeps
  <2> QED BY <2>1
<1>3. m \in Nat /\ m - 1 \in Nat /\ m - 1 \notin T
  BY <1>1, <1>2
<1>4. PICK f : KeepsTo(s, id, f, m - 1)
  BY <1>3
<1> DEFINE g == [i \in 0..m |-> IF i = m THEN Keeps(s, id, f, m) ELSE f[i]]
<1>5. /\ \A i \in 0..(m - 1) : g[i] = f[i]
      /\ g[m] = Keeps(s, id, f, m)
      /\ g = [i \in 0..m |-> g[i]]
  BY <1>3
<1> HIDE DEF g
<1>6. ASSUME NEW i \in 0..m PROVE g[i] = Keeps(s, id, g, i)
  <2>0. i # 0 => i - 1 \in 0..(m - 1)
    BY <1>3
  <2>1. i # 0 => g[i - 1] = f[i - 1]
    BY <1>5, <2>0
  <2>2. Keeps(s, id, g, i) = Keeps(s, id, f, i)
    BY <2>1 DEF Keeps
  <2>3. CASE i = m
    BY <1>5, <2>2, <2>3
  <2>4. CASE i # m
    <3>1. i \in 0..(m - 1)
      BY <1>3, <2>4
    <3> QED BY <1>4, <1>5, <2>2, <3>1 DEF KeepsTo
  <2> QED BY <2>3, <2>4
<1>7. KeepsTo(s, id, g, m)
  BY <1>5, <1>6 DEF KeepsTo
<1> QED BY <1>7

\* r is what is left of the first n elements: a part of them, in their order,
\* with every element that is not of id.
Left(S, s, id, n, r) ==
    /\ r \in Seq(S) /\ Len(r) <= n
    /\ \E h \in [1..Len(r) -> 1..n] :
          /\ \A i \in 1..Len(r) : r[i] = s[h[i]] /\ s[h[i]].id # id
          /\ \A i, j \in 1..Len(r) : i < j => h[i] < h[j]
    /\ \A j \in 1..n : s[j].id # id => \E i \in 1..Len(r) : r[i] = s[j]

\* One more element.
LEMMA LeftNext ==
    ASSUME NEW S, NEW s \in Seq(S), NEW id, NEW n \in 1..Len(s), NEW q, NEW r,
           Left(S, s, id, n - 1, q),
           r = IF s[n].id # id THEN Append(q, s[n]) ELSE q
    PROVE  Left(S, s, id, n, r)
<1>1. n - 1 \in Nat /\ \A i \in 1..(n - 1) : i \in 1..n /\ i < n
  OBVIOUS
<1>2. q \in Seq(S) /\ Len(q) <= n - 1 /\ Len(q) \in Nat
  BY DEF Left
<1>3. PICK h \in [1..Len(q) -> 1..(n - 1)] :
          /\ \A i \in 1..Len(q) : q[i] = s[h[i]] /\ s[h[i]].id # id
          /\ \A i, j \in 1..Len(q) : i < j => h[i] < h[j]
  BY DEF Left
<1>4. \A j \in 1..(n - 1) : s[j].id # id => \E i \in 1..Len(q) : q[i] = s[j]
  BY DEF Left
<1>5. CASE s[n].id = id
  <2>1. r = q /\ h \in [1..Len(r) -> 1..n]
    BY <1>1, <1>3, <1>5
  <2>2. \A j \in 1..n : s[j].id # id => \E i \in 1..Len(r) : r[i] = s[j]
    BY <1>4, <1>5, <2>1
  <2>3. Len(r) <= n
    BY <1>2, <2>1
  <2>4. \E x \in [1..Len(r) -> 1..n] :
            /\ \A i \in 1..Len(r) : r[i] = s[x[i]] /\ s[x[i]].id # id
            /\ \A i, j \in 1..Len(r) : i < j => x[i] < x[j]
    BY <1>3, <2>1
  <2> QED BY <1>2, <2>1, <2>2, <2>3, <2>4 DEF Left
<1>6. CASE s[n].id # id
  <2> DEFINE l == Len(q) + 1
             g == [i \in 1..l |-> IF i = l THEN n ELSE h[i]]
  <2>1. /\ r \in Seq(S) /\ Len(r) = l /\ l \in Nat /\ l <= n
        /\ r[l] = s[n] /\ \A i \in 1..Len(q) : r[i] = q[i]
    BY <1>2, <1>6
  <2>2. \A i \in 1..l : i = l \/ (i \in 1..Len(q) /\ i < l)
    BY <1>2
  <2>3. l \in 1..l /\ \A i \in 1..Len(q) : i \in 1..l /\ i # l
    BY <1>2
  <2> HIDE DEF l
  <2>4. g[l] = n /\ \A i \in 1..Len(q) : g[i] = h[i]
    BY <2>3
  <2>5. g \in [1..l -> 1..n]
    BY <1>1, <1>3, <2>2
  <2> HIDE DEF g
  <2>6. \A i \in 1..l : r[i] = s[g[i]] /\ s[g[i]].id # id
    BY <1>3, <1>6, <2>1, <2>2, <2>4
  <2>7. ASSUME NEW i \in 1..l, NEW j \in 1..l, i < j
        PROVE  g[i] < g[j]
    <3>1. i # l /\ i \in 1..Len(q)
      BY <2>1, <2>2, <2>7
    <3>2. CASE j = l
      BY <1>1, <1>3, <2>4, <3>1, <3>2
    <3>3. CASE j \in 1..Len(q)
      BY <1>3, <2>4, <2>7, <3>1, <3>3
    <3> QED BY <2>2, <3>2, <3>3
  <2>8. ASSUME NEW j \in 1..n, s[j].id # id
        PROVE  \E i \in 1..l : r[i] = s[j]
    <3>1. CASE j = n
      <4>1. r[l] = s[j] /\ l \in 1..l
        BY <2>1, <2>3, <3>1
      <4> QED BY <4>1
    <3>2. CASE j \in 1..(n - 1)
      <4>1. PICK i \in 1..Len(q) : q[i] = s[j]
        BY <1>4, <2>8, <3>2
      <4>2. r[i] = s[j] /\ i \in 1..l
        BY <2>1, <2>3, <4>1
      <4> QED BY <4>2
    <3>3. j = n \/ j \in 1..(n - 1)
      BY <1>1
    <3> QED BY <3>1, <3>2, <3>3
  <2>9. \E x \in [1..l -> 1..n] :
            /\ \A i \in 1..l : r[i] = s[x[i]] /\ s[x[i]].id # id
            /\ \A i, j \in 1..l : i < j => x[i] < x[j]
    BY <2>5, <2>6, <2>7, ZenonT(40)
  <2>10. \E x \in [1..Len(r) -> 1..n] :
            /\ \A i \in 1..Len(r) : r[i] = s[x[i]] /\ s[x[i]].id # id
            /\ \A i, j \in 1..Len(r) : i < j => x[i] < x[j]
    BY <2>1, <2>9, Zenon
  <2>11. \A j \in 1..n : s[j].id # id => \E i \in 1..Len(r) : r[i] = s[j]
    BY <2>1, <2>8, Zenon
  <2>12. Len(r) <= n /\ r \in Seq(S)
    BY <2>1
  <2> QED BY <2>10, <2>11, <2>12, Zenon DEF Left
<1> QED BY <1>5, <1>6

\* What retain leaves of the whole sequence, by induction on its length.
LEMMA RetainedLeft ==
    ASSUME NEW S, NEW s \in Seq(S), NEW id
    PROVE  Left(S, s, id, Len(s), Retained(s, id))
<1>1. Len(s) \in Nat
  OBVIOUS
<1>2. PICK f : f = CHOOSE g : g = [n \in 0..Len(s) |-> Keeps(s, id, g, n)]
  OBVIOUS
<1>3. Retained(s, id) = f[Len(s)]
  BY <1>2 DEF Retained, Keeps
<1>4. \E g : g = [n \in 0..Len(s) |-> Keeps(s, id, g, n)]
  <2>1. PICK g : KeepsTo(s, id, g, Len(s))
    BY <1>1, KeepsExists
  <2>2. g = [n \in 0..Len(s) |-> g[n]] /\ \A n \in 0..Len(s) : g[n] = Keeps(s, id, g, n)
    BY <2>1 DEF KeepsTo
  <2>3. [n \in 0..Len(s) |-> g[n]] = [n \in 0..Len(s) |-> Keeps(s, id, g, n)]
    BY <2>2
  <2> QED BY <2>2, <2>3
<1>5. f = [n \in 0..Len(s) |-> Keeps(s, id, f, n)]
  BY <1>2, <1>4
<1>6. \A n \in 0..Len(s) : f[n] = Keeps(s, id, f, n)
  BY <1>5
<1> DEFINE T == {n \in 0..Len(s) : ~Left(S, s, id, n, f[n])}
<1>7. T = {}
  <2> SUFFICES ASSUME T # {} PROVE FALSE
    OBVIOUS
  <2>0. T \subseteq Nat
    BY <1>1
  <2>1. PICK m \in T : \A k \in T : m <= k
    <3> HIDE DEF T
    <3> QED BY <2>0, LeastNat
  <2>2. m # 0
    <3>1. f[0] = <<>>
      BY <1>1, <1>6 DEF Keeps
    <3>2. Left(S, s, id, 0, <<>>)
      <4>1. <<>> \in Seq(S) /\ Len(<<>>) = 0 /\ 1..0 = {}
        OBVIOUS
      <4>2. [i \in {} |-> 0] \in [{} -> {}]
        OBVIOUS
      <4>3. \E h \in [1..Len(<<>>) -> 1..0] :
                /\ \A i \in 1..Len(<<>>) : <<>>[i] = s[h[i]] /\ s[h[i]].id # id
                /\ \A i, j \in 1..Len(<<>>) : i < j => h[i] < h[j]
        BY <4>1, <4>2
      <4>4. \A j \in 1..0 : s[j].id # id => \E i \in 1..Len(<<>>) : <<>>[i] = s[j]
        BY <4>1
      <4>5. Len(<<>>) <= 0
        BY <4>1
      <4> QED BY <4>1, <4>3, <4>4, <4>5, Zenon DEF Left
    <3> QED BY <3>1, <3>2
  <2>3. m \in 1..Len(s) /\ m - 1 \in 0..Len(s) /\ m - 1 \notin T
    BY <1>1, <2>1, <2>2
  <2>4. Left(S, s, id, m - 1, f[m - 1])
    BY <2>3
  <2>5. f[m] = IF s[m].id # id THEN Append(f[m - 1], s[m]) ELSE f[m - 1]
    BY <1>6, <2>2 DEF Keeps
  <2>6. Left(S, s, id, m, f[m])
    BY <2>3, <2>4, <2>5, LeftNext
  <2> QED BY <2>6
<1> QED BY <1>1, <1>3, <1>7

-----------------------------------------------------------------------------
(* What the prompts, the answers and the queue have to do with each other.  *)

HasAsked(r) == r.stage \notin {"Dialing", "New", "Opened"}

\* Its words have been compared, or the answer is on its way.
Approving(r) ==
    \/ r.stage \in {"Approved", "Establishing", "Established"}
    \/ \E i \in DOMAIN r.control : r.control[i] = "Approve"

\* It has asked and is not ending.
Pending(r) == r.stage \in {"Asked", "Approved", "Establishing", "Established"}

IsEvent(e, kind, c) == e.kind = kind /\ e.from = c

Told(kind, c) == \E i \in DOMAIN events : IsEvent(events[i], kind, c)

ConnKind == {"Opened", "SasRequired", "Established", "Message", "Closed"}

\* An event tells of what its connection has been through.
EventTrue(e) ==
    /\ e.kind \in ConnKind => Leads(e.from, e.id)
    /\ e.kind = "SasRequired" => HasAsked(conns[e.from])
    /\ e.kind = "Established" => e.from \in approved /\ e.from \in answered
    /\ e.kind = "Closed" => conns[e.from].stage = "Closed"

\* A connection asks once, and not after it has closed.
AsksOnce ==
    \A i, j \in DOMAIN events :
        (events[i].kind = "SasRequired" /\ events[j].from = events[i].from) =>
            /\ events[j].kind = "SasRequired" => i = j
            /\ events[j].kind = "Closed" => i < j

Queue == (\A i \in DOMAIN events : EventTrue(events[i])) /\ AsksOnce

Approvals ==
    \A c \in DOMAIN conns : Approving(conns[c]) => c \in approved /\ c \in answered

\* No connection and no listener is ahead of the identity in use.
NetsPast ==
    /\ \A c \in DOMAIN conns : conns[c].net <= net
    /\ \A l \in DOMAIN listeners : listeners[l].net <= net

Met(c) == \E label \in DOMAIN peers : peers[label].handle = c

Shaking(c) ==
    \E label \in DOMAIN peers : peers[label].handle = c /\ peers[label].status = "Handshaking"

\* A prompt is about a peer in the table that is still handshaking.
PromptTrue(p) ==
    /\ p.label \in DOMAIN peers
    /\ peers[p.label].handle = p.words /\ peers[p.label].id = p.id
    /\ peers[p.label].status = "Handshaking"

\* An answer has been begun.
Begun(p) == p.typed # ""

\* What is typed belongs to the prompt in front, whose words it began under.
Typed ==
    \A i \in DOMAIN sas : sas[i].typed # "" => i = 1 /\ seen = sas[i].words

Typing == {"", "ye", "yes", "no"}

PromptRec == [id : Nat, label : Nat, words : Nat, typed : Typing]

Prompts ==
    /\ sas \in Seq(PromptRec)
    /\ \A i \in DOMAIN sas : PromptTrue(sas[i])
    /\ \A i, j \in DOMAIN sas : sas[i].words = sas[j].words => i = j
    /\ Len(sas) <= MAX_UNAUTHENTICATED_HANDSHAKES
    /\ Typed

\* A question is on its way, shown, or answered.
AtMostOne ==
    \A c : /\ Told("SasRequired", c) \/ Asks(c) \/ c \in answered =>
                 c \in DOMAIN conns /\ HasAsked(conns[c])
           /\ ~(Told("SasRequired", c) /\ Asks(c))
           /\ ~(Told("SasRequired", c) /\ c \in answered)
           /\ ~(Asks(c) /\ c \in answered)

AtLeastOne ==
    \A c \in DOMAIN conns :
        (Told("Opened", c) \/ Met(c)) /\ Pending(conns[c]) =>
            Told("SasRequired", c) \/ Asks(c) \/ c \in answered

\* Whoever asks has been announced, and its peer is there when the question comes.
Introduced ==
    /\ \A i \in DOMAIN events : events[i].kind = "SasRequired" =>
          \/ \E j \in DOMAIN events : j < i /\ IsEvent(events[j], "Opened", events[i].from)
          \/ Shaking(events[i].from)
    /\ \A c \in DOMAIN conns : conns[c].net = net /\ conns[c].stage = "Opened" =>
          Told("Opened", c) \/ Shaking(c)

Questions == Prompts /\ AtMostOne /\ AtLeastOne /\ Introduced

PromptInv ==
    /\ Queue
    /\ Approvals
    /\ NetsPast
    /\ ConnectedWasApproved
    /\ Serving => Questions

\* Its parts that the properties name.
LEMMA PromptsFromInv ==
    ASSUME Shape, TableInv, PromptInv
    PROVE  PromptsExact /\ ConnectedWasApproved
<1>1. ConnectedWasApproved
  BY DEF PromptInv
<1>2. ASSUME Serving PROVE PromptsExact
  <2>1. Prompts /\ AtMostOne /\ AtLeastOne
    BY <1>2 DEF PromptInv, Questions
  <2>2. \A i \in DOMAIN sas : /\ sas[i].label \in DOMAIN peers
                              /\ peers[sas[i].label].status = "Handshaking"
                              /\ peers[sas[i].label].handle = sas[i].words
    BY <2>1 DEF Prompts, PromptTrue
  <2>3. ASSUME NEW i \in DOMAIN sas, NEW j \in DOMAIN sas, sas[i].label = sas[j].label
        PROVE  i = j
    <3>1. sas[i].words = sas[j].words
      BY <2>2, <2>3
    <3> QED BY <2>1, <3>1 DEF Prompts
  <2>4. ASSUME NEW label \in DOMAIN peers, NEW c, c = peers[label].handle,
               conns[c].stage \in {"Asked", "Approved", "Establishing", "Established"},
               \A i \in DOMAIN events : events[i] # ConnEvent(c, "SasRequired")
        PROVE  Asks(c) \/ c \in answered
    <3>1. c \in DOMAIN conns /\ Met(c)
      BY <2>4 DEF TableInv, Table, Leads, Met
    <3>2. ~Told("SasRequired", c)
      <4> SUFFICES ASSUME NEW i \in DOMAIN events, IsEvent(events[i], "SasRequired", c)
                   PROVE  FALSE
        BY DEF Told
      <4>1. events[i] \in EventRec
        BY DEF TableInv, OpenedOnce
      <4>2. events[i].id = conns[c].id
        BY DEF PromptInv, Queue, EventTrue, IsEvent, ConnKind, Leads
      <4>3. events[i] = ConnEvent(c, "SasRequired")
        BY <4>1, <4>2 DEF EventRec, ConnEvent, IsEvent
      <4> QED BY <2>4, <4>3
    <3> QED BY <2>1, <2>4, <3>1, <3>2 DEF AtLeastOne, Pending
  <2>5. \A c \in answered : ~Asks(c)
    BY <2>1 DEF AtMostOne
  <2>6. Len(sas) <= MAX_UNAUTHENTICATED_HANDSHAKES
    BY <2>1 DEF Prompts
  <2> QED BY <2>2, <2>3, <2>4, <2>5, <2>6 DEF PromptsExact
<1> QED BY <1>1, <1>2 DEF PromptsExact

-----------------------------------------------------------------------------
(* How one step of a task or a listener moves the connections.              *)

\* A connection may end, but does not go back.
Follows(old, new) ==
    /\ new.net = old.net
    /\ HasAsked(old) => HasAsked(new)
    /\ old.stage = "Closed" => new.stage = "Closed"

Onward ==
    \A c \in DOMAIN conns : c \in DOMAIN conns' /\ Follows(conns[c], conns'[c])

\* No stage is entered that the application has to be told of.
Quiet(old, new) ==
    /\ Follows(old, new)
    /\ Approving(new) => Approving(old)
    /\ Pending(new) => Pending(old)
    /\ new.stage = "Opened" => old.stage = "Opened"

\* c tells of the stage it enters.
Tells(c, e) ==
    /\ EventTrue(e)'
    /\ e.kind = "Opened" => /\ e.from = c /\ c \in DOMAIN conns
                            /\ conns'[c].stage = "Opened"
    /\ e.kind = "SasRequired" => /\ e.from = c /\ c \in DOMAIN conns
                                 /\ conns[c].stage = "Opened" /\ conns[c].net = net
                                 /\ conns'[c].stage = "Asked"

NetMove ==
    /\ Onward /\ net' = net
    /\ \A c \in DOMAIN conns' : conns'[c].net <= net
    /\ \A l \in DOMAIN listeners' : listeners'[l].net <= net
    /\ \A c \in DOMAIN conns' \ DOMAIN conns :
          conns'[c].stage \in {"Dialing", "New"} /\ conns'[c].control = <<>>
    /\ \A c \in DOMAIN conns : Approving(conns'[c]) => Approving(conns[c])
    /\ \/ /\ events' = events
          /\ \A c \in DOMAIN conns : Quiet(conns[c], conns'[c])
       \/ \E c \in Nat, e \in EventRec :
             /\ events' = Append(events, e)
             /\ Tells(c, e)
             /\ \A d \in DOMAIN conns :
                   d # c \/ e.kind \notin {"Opened", "SasRequired"} => Quiet(conns[d], conns'[d])

\* One connection becomes r, and tells of it or not.
LEMMA MovesOne ==
    ASSUME Shape, NetsPast, NEW c \in DOMAIN conns, NEW r,
           conns' = [conns EXCEPT ![c] = r], Follows(conns[c], r),
           Approving(r) => Approving(conns[c]),
           net' = net, listeners' = listeners,
           \/ events' = events /\ Quiet(conns[c], r)
           \/ \E e \in EventRec :
                /\ events' = Append(events, e) /\ Tells(c, e)
                /\ e.kind \notin {"Opened", "SasRequired"} => Quiet(conns[c], r)
    PROVE  NetMove
<1>1. /\ DOMAIN conns' = DOMAIN conns /\ conns'[c] = r
      /\ \A d \in DOMAIN conns : d # c => conns'[d] = conns[d]
  BY DEF Shape, ConnInv
<1>2. ASSUME NEW d \in DOMAIN conns, d # c PROVE Quiet(conns[d], conns'[d])
  BY <1>1, <1>2 DEF Quiet, Follows
<1>3. Onward
  BY <1>1, <1>2 DEF Onward, Quiet
<1>4. \A d \in DOMAIN conns' : conns'[d].net <= net
  BY <1>1 DEF NetsPast, Follows
<1>5. \A l \in DOMAIN listeners' : listeners'[l].net <= net
  BY DEF NetsPast
<1>6. \A d \in DOMAIN conns : Approving(conns'[d]) => Approving(conns[d])
  BY <1>1
<1>7. CASE events' = events /\ Quiet(conns[c], r)
  <2>1. \A d \in DOMAIN conns : Quiet(conns[d], conns'[d])
    BY <1>1, <1>2, <1>7
  <2> QED BY <1>1, <1>3, <1>4, <1>5, <1>6, <1>7, <2>1 DEF NetMove
<1>8. ASSUME NEW e \in EventRec, events' = Append(events, e), Tells(c, e),
             e.kind \notin {"Opened", "SasRequired"} => Quiet(conns[c], r)
      PROVE  NetMove
  <2>1. \A d \in DOMAIN conns :
           d # c \/ e.kind \notin {"Opened", "SasRequired"} => Quiet(conns[d], conns'[d])
    BY <1>1, <1>2, <1>8
  <2>2. c \in Nat
    BY DEF Shape, ConnInv
  <2> QED BY <1>1, <1>3, <1>4, <1>5, <1>6, <1>8, <2>1, <2>2 DEF NetMove
<1> QED BY <1>7, <1>8

\* A connection moves on to another stage.
Staged(c, stage) == [conns[c] EXCEPT !.stage = stage]

\* A connection at another stage differs in nothing else.
LEMMA StagedParts ==
    ASSUME Shape, NEW c \in DOMAIN conns, NEW stage
    PROVE  /\ Staged(c, stage).stage = stage /\ Staged(c, stage).net = conns[c].net
           /\ Staged(c, stage).id = conns[c].id
           /\ Staged(c, stage).control = conns[c].control
           /\ [conns EXCEPT ![c].stage = stage] = [conns EXCEPT ![c] = Staged(c, stage)]
<1>1. conns[c] \in ConnRec
  BY DEF Shape, ConnInv
<1> QED BY <1>1 DEF Staged, ConnRec

\* Nobody has to be told of the end of a connection, or that the peer confirms
\* what the user has approved.
LEMMA MovesQuietly ==
    ASSUME Shape, NetsPast, NEW c \in DOMAIN conns,
           NEW stage \in {"Establishing", "Ending", "Closed"},
           conns' = [conns EXCEPT ![c].stage = stage],
           stage = "Establishing" => conns[c].stage = "Approved",
           conns[c].stage = "Closed" => stage = "Closed",
           net' = net, listeners' = listeners
    PROVE  /\ events' = events => NetMove
           /\ Quiet(conns[c], Staged(c, stage))
<1>1. /\ Staged(c, stage).stage = stage /\ Staged(c, stage).net = conns[c].net
      /\ Staged(c, stage).control = conns[c].control
      /\ conns' = [conns EXCEPT ![c] = Staged(c, stage)]
  BY StagedParts
<1>2. Quiet(conns[c], Staged(c, stage))
  BY <1>1 DEF Quiet, Follows, HasAsked, Approving, Pending
<1> QED BY <1>1, <1>2, MovesOne DEF Quiet

\* An event of a connection, with the stage it tells of.
LEMMA MovesTelling ==
    ASSUME Shape, NetsPast, Approvals, NEW c \in DOMAIN conns, NEW kind, NEW from, NEW to,
           <<kind, from, to>> \in {<<"Opened", "New", "Opened">>,
                                   <<"SasRequired", "Opened", "Asked">>,
                                   <<"Established", "Establishing", "Established">>,
                                   <<"Message", "Established", "Established">>,
                                   <<"Closed", "Ending", "Closed">>},
           Event(c, kind, from, to), UNCHANGED appVars
    PROVE  NetMove
<1> DEFINE r == Staged(c, to)
           w == ConnEvent(c, kind)
<1>1. /\ conns[c].stage = from /\ conns[c].net = net /\ net' = net /\ listeners' = listeners
      /\ conns' = [conns EXCEPT ![c].stage = to]
      /\ events' = Append(events, w)
  BY DEF Event, Becomes, Tell
<1>2. /\ r.stage = to /\ r.net = conns[c].net /\ r.id = conns[c].id
      /\ r.control = conns[c].control /\ conns' = [conns EXCEPT ![c] = r]
  BY <1>1, StagedParts
<1>3. conns[c] \in ConnRec /\ c \in Nat /\ DOMAIN conns' = DOMAIN conns /\ conns'[c] = r
  BY <1>1, <1>2 DEF Shape, ConnInv
<1> HIDE DEF r
<1>4. conns[c].id # 0
  BY <1>1 DEF Shape, ConnInv, Ids
<1>5. /\ w \in EventRec /\ w.kind = kind /\ w.from = c /\ w.id = conns[c].id
  BY <1>3 DEF ConnEvent, EventRec, ConnRec
<1> HIDE DEF w
<1>6. PICK e \in EventRec : e = w
  BY <1>5
<1>7. Leads(e.from, e.id)'
  <2>1. e.from = c /\ e.id = conns[c].id
    BY <1>5, <1>6
  <2>2. to \notin {"Dialing", "New"}
    OBVIOUS
  <2> QED BY <1>1, <1>2, <1>3, <1>4, <2>1, <2>2 DEF Leads, Announced
<1>8. UNCHANGED <<answered, approved>>
  BY DEF appVars
<1>9. kind = "Established" => c \in approved /\ c \in answered
  BY <1>1 DEF Approvals, Approving
<1>10. EventTrue(e)'
  <2>1. e.from = c /\ e.kind = kind /\ conns'[c].stage = to
    BY <1>2, <1>3, <1>5, <1>6
  <2> QED BY <1>7, <1>8, <1>9, <2>1 DEF EventTrue, HasAsked
<1>11. Tells(c, e)
  BY <1>1, <1>2, <1>3, <1>5, <1>6, <1>10 DEF Tells
<1>12. Follows(conns[c], r)
  BY <1>1, <1>2 DEF Follows, HasAsked
<1>13. Approving(r) => Approving(conns[c])
  BY <1>1, <1>2 DEF Approving
<1>14. kind \notin {"Opened", "SasRequired"} => Quiet(conns[c], r)
  BY <1>1, <1>2, <1>12, <1>13 DEF Quiet, Pending
<1> QED BY <1>1, <1>2, <1>5, <1>6, <1>11, <1>12, <1>13, <1>14, MovesOne

\* The task takes a command: it may only be approved by one that is in its queue.
LEMMA MovesObeying ==
    ASSUME Shape, NetsPast, NEW c \in DOMAIN conns, Obey(c)
    PROVE  NetMove
<1> DEFINE command == Head(conns[c].control)
           stage   == CASE command = "Close" -> "Ending"
                        [] command = "Reject" /\ conns[c].stage = "Asked" -> "Ending"
                        [] command = "Approve" /\ conns[c].stage = "Asked" -> "Approved"
                        [] OTHER -> conns[c].stage
           r == [conns[c] EXCEPT !.control = Tail(@), !.stage = stage]
<1>1. /\ conns[c].stage \in Alive /\ conns[c].control # <<>>
      /\ conns' = [conns EXCEPT ![c].control = Tail(@), ![c].stage = stage]
      /\ net' = net /\ listeners' = listeners /\ events' = events
  BY DEF Obey
<1>2. conns' = [conns EXCEPT ![c] = r]
  BY <1>1
<1>3. \/ stage = "Ending"
      \/ stage = "Approved" /\ conns[c].stage = "Asked" /\ command = "Approve"
      \/ stage = conns[c].stage
  OBVIOUS
<1> HIDE DEF stage
<1>4. conns[c] \in ConnRec /\ conns[c].control \in Seq(ConnCommand)
  BY ConnFields DEF Shape
<1>5. /\ r.stage = stage /\ r.net = conns[c].net /\ r.control = Tail(conns[c].control)
  BY <1>4 DEF ConnRec
<1>6. /\ 1 \in DOMAIN conns[c].control /\ command = conns[c].control[1]
      /\ \A i \in DOMAIN Tail(conns[c].control) :
            /\ i + 1 \in DOMAIN conns[c].control
            /\ Tail(conns[c].control)[i] = conns[c].control[i + 1]
  BY <1>1, <1>4
<1> HIDE DEF r, command
<1>7. command = "Approve" => Approving(conns[c])
  BY <1>6 DEF Approving
<1>8. (\E i \in DOMAIN r.control : r.control[i] = "Approve") => Approving(conns[c])
  BY <1>5, <1>6 DEF Approving
<1>9. Quiet(conns[c], r)
  <2>1. Follows(conns[c], r)
    BY <1>1, <1>3, <1>5 DEF Follows, HasAsked, Alive
  <2>2. Approving(r) => Approving(conns[c])
    BY <1>3, <1>5, <1>7, <1>8 DEF Approving
  <2>3. (Pending(r) => Pending(conns[c])) /\ (r.stage = "Opened" => conns[c].stage = "Opened")
    BY <1>3, <1>5 DEF Pending
  <2> QED BY <2>1, <2>2, <2>3 DEF Quiet
<1> QED BY <1>1, <1>2, <1>9, MovesOne DEF Quiet

\* A dial succeeds, and has not been announced yet.
LEMMA MovesDialed ==
    ASSUME Shape, NetsPast, NEW c \in DOMAIN conns, DialSucceeds(c)
    PROVE  NetMove
<1> DEFINE n == conns[c].net
           r == Connection(n, next_id[n], TRUE, "New")
<1>1. /\ conns[c].stage = "Dialing" /\ conns' = [conns EXCEPT ![c] = r]
      /\ net' = net /\ listeners' = listeners /\ events' = events
  BY DEF DialSucceeds
<1>2. r.net = n /\ r.stage = "New" /\ r.control = <<>>
  BY DEF Connection
<1> HIDE DEF r
<1>3. Quiet(conns[c], r)
  BY <1>1, <1>2 DEF Quiet, Follows, HasAsked, Approving, Pending
<1> QED BY <1>1, <1>3, MovesOne DEF Quiet

\* The connections stay as they are, or a stream is accepted.
LEMMA MovesListening ==
    ASSUME Shape, NetsPast, NEW l \in DOMAIN listeners,
           Accept(l) \/ AcceptWithoutPermit(l) \/ AcceptFails(l) \/ Report(l)
    PROVE  NetMove
<1>1. /\ listeners \in Seq(ListenerRec) /\ listeners[l] \in ListenerRec
      /\ conns \in Seq(ConnRec) /\ l \in Nat
  BY DEF Shape, ConnInv
<1>0. net' = net
  BY DEF Accept, AcceptWithoutPermit, AcceptFails, Report
<1>2. /\ DOMAIN listeners' = DOMAIN listeners
      /\ \A k \in DOMAIN listeners : listeners'[k].net = listeners[k].net
  <2>1. PICK failures, state :
           \/ listeners' = [listeners EXCEPT ![l].failures = failures]
           \/ listeners' = [listeners EXCEPT ![l].state = state]
           \/ listeners' = [listeners EXCEPT ![l].failures = failures, ![l].state = state]
    BY DEF Accept, AcceptWithoutPermit, AcceptFails, Report
  <2>2. PICK r : listeners' = [listeners EXCEPT ![l] = r] /\ r.net = listeners[l].net
    BY <1>1, <2>1 DEF ListenerRec
  <2> QED BY <1>1, <2>2
<1>3. \A k \in DOMAIN listeners' : listeners'[k].net <= net
  BY <1>2 DEF NetsPast
<1>4. CASE Accept(l)
  <2> DEFINE n == listeners[l].net
             r == Connection(n, next_id[n], FALSE, "New")
  <2>1. conns' = Append(conns, r) /\ events' = events
    BY <1>4 DEF Accept
  <2>2. r.net = n /\ r.stage = "New" /\ r.control = <<>> /\ n <= net
    BY DEF Connection, NetsPast
  <2> HIDE DEF r
  <2>3. /\ DOMAIN conns' = DOMAIN conns \cup {Len(conns) + 1}
        /\ conns'[Len(conns) + 1] = r
        /\ \A d \in DOMAIN conns : conns'[d] = conns[d]
    BY <1>1, <2>1
  <2>4. \A d \in DOMAIN conns : Quiet(conns[d], conns'[d])
    BY <2>3 DEF Quiet, Follows
  <2>5. \A d \in DOMAIN conns' : conns'[d].net <= net
    BY <2>2, <2>3 DEF NetsPast
  <2>6. \A d \in DOMAIN conns' \ DOMAIN conns :
            conns'[d].stage \in {"Dialing", "New"} /\ conns'[d].control = <<>>
    BY <2>2, <2>3
  <2> QED BY <1>0, <1>3, <2>1, <2>3, <2>4, <2>5, <2>6 DEF NetMove, Onward, Quiet
<1>5. CASE AcceptWithoutPermit(l) \/ AcceptFails(l) \/ Report(l)
  <2>1. conns' = conns
    BY <1>5 DEF AcceptWithoutPermit, AcceptFails, Report
  <2>2. \A d \in DOMAIN conns : Quiet(conns[d], conns'[d])
    BY <2>1 DEF Quiet, Follows
  <2>3. \A d \in DOMAIN conns' : conns'[d].net <= net
    BY <2>1 DEF NetsPast
  <2>4. CASE events' = events
    BY <1>0, <1>3, <2>1, <2>2, <2>3, <2>4 DEF NetMove, Onward, Quiet
  <2>5. CASE Report(l) /\ events' # events
    <3> DEFINE w == [kind |-> "ListenerStopped", id |-> 0, from |-> l]
    <3>1. events' = Append(events, w)
      BY <2>5 DEF Report, Tell
    <3>2. w \in EventRec /\ w.kind = "ListenerStopped"
      BY <1>1 DEF EventRec
    <3> HIDE DEF w
    <3>3. PICK e \in EventRec : e = w
      BY <3>2
    <3>4. EventTrue(e)'
      BY <3>2, <3>3 DEF EventTrue, ConnKind
    <3>5. \A c : Tells(c, e)
      BY <3>2, <3>3, <3>4 DEF Tells
    <3>6. events' = Append(events, e) /\ 0 \in Nat
      BY <3>1, <3>3
    <3> QED BY <1>0, <1>3, <2>1, <2>2, <2>3, <3>5, <3>6 DEF NetMove, Onward, Quiet
  <2>6. events' # events => Report(l)
    BY <1>5 DEF AcceptWithoutPermit, AcceptFails
  <2> QED BY <2>4, <2>5, <2>6
<1> QED BY <1>4, <1>5

\* Every step of a task or of a listener is such a move.
LEMMA NetMoves ==
    ASSUME Shape, NetsPast, Approvals, NetNext, UNCHANGED appVars
    PROVE  NetMove
<1>1. ASSUME NEW c \in DOMAIN conns,
             \/ DialSucceeds(c) \/ DialFails(c)
             \/ Announce(c) \/ RequestSas(c) \/ PeerConfirms(c) \/ Establish(c)
             \/ Deliver(c) \/ Obey(c) \/ Ends(c) \/ Close(c) \/ Orphaned(c)
      PROVE  NetMove
  <2>1. CASE DialSucceeds(c)
    BY <2>1, MovesDialed
  <2>2. CASE DialFails(c)
    <3> DEFINE w == [kind |-> "DialFailed", id |-> 0, from |-> c]
    <3>1. /\ conns' = [conns EXCEPT ![c].stage = "Closed"]
          /\ events' = events \/ events' = Append(events, w)
          /\ net' = net /\ listeners' = listeners
      BY <2>2 DEF DialFails, Becomes, Tell
    <3>2. w \in EventRec /\ w.kind = "DialFailed"
      BY DEF EventRec, Shape, ConnInv
    <3> HIDE DEF w
    <3>3. PICK e \in EventRec : e = w
      BY <3>2
    <3>4. Tells(c, e)
      BY <3>2, <3>3 DEF Tells, EventTrue, ConnKind
    <3>5. /\ events' = events => NetMove
          /\ Quiet(conns[c], Staged(c, "Closed"))
      BY <3>1, MovesQuietly
    <3>6. conns' = [conns EXCEPT ![c] = Staged(c, "Closed")]
      BY <3>1, StagedParts
    <3> QED BY <3>1, <3>3, <3>4, <3>5, <3>6, MovesOne DEF Quiet
  <2>3. CASE Announce(c)
    BY <2>3, MovesTelling DEF Announce
  <2>4. CASE RequestSas(c)
    BY <2>4, MovesTelling DEF RequestSas
  <2>5. CASE PeerConfirms(c)
    BY <2>5, MovesQuietly DEF PeerConfirms, Authenticated, Becomes
  <2>6. CASE Establish(c)
    BY <2>6, MovesTelling DEF Establish
  <2>7. CASE Deliver(c)
    BY <2>7, MovesTelling DEF Deliver
  <2>8. CASE Obey(c)
    BY <2>8, MovesObeying
  <2>9. CASE Ends(c)
    BY <2>9, MovesQuietly DEF Ends, Alive, Authenticated, Becomes
  <2>10. CASE Close(c)
    BY <2>10, MovesTelling DEF Close
  <2>11. CASE Orphaned(c)
    BY <2>11, MovesQuietly DEF Orphaned, Authenticated, Becomes
  <2> QED BY <1>1, <2>1, <2>2, <2>3, <2>4, <2>5, <2>6, <2>7, <2>8, <2>9, <2>10, <2>11
<1>2. CASE \E l \in DOMAIN listeners :
              Accept(l) \/ AcceptWithoutPermit(l) \/ AcceptFails(l) \/ Report(l)
  BY <1>2, MovesListening
<1> QED BY <1>1, <1>2 DEF NetNext

-----------------------------------------------------------------------------
(* What stays true of the queue.                                           *)

\* Users approve and answer; nothing of it is taken back.
Grown == approved \subseteq approved' /\ answered \subseteq answered'

\* What an event tells of stays true.
LEMMA EventStaysTrue ==
    ASSUME NEW e, EventTrue(e), Progress, Onward, Grown, net' = net
    PROVE  EventTrue(e)'
<1>1. e.kind \in ConnKind => Leads(e.from, e.id)'
  <2>1. PICK c, id : c = e.from /\ id = e.id
    OBVIOUS
  <2> QED BY <2>1, LeadsOn DEF EventTrue
<1>2. e.kind \in {"SasRequired", "Established", "Closed"} => e.from \in DOMAIN conns
  BY DEF EventTrue, ConnKind, Leads
<1> QED BY <1>1, <1>2 DEF EventTrue, Onward, Follows, Grown

\* Nothing happens to the queue.
LEMMA QueueKept ==
    ASSUME Queue, Progress, Onward, Grown, net' = net, events' = events
    PROVE  Queue'
<1>1. ASSUME NEW i \in DOMAIN events PROVE EventTrue(events[i])'
  <2>1. PICK e : e = events[i]
    OBVIOUS
  <2>2. EventTrue(e)'
    BY <2>1, EventStaysTrue DEF Queue
  <2> QED BY <2>1, <2>2
<1> QED BY <1>1 DEF Queue, AsksOnce

\* The parts of a queue from which the oldest event is taken.
LEMMA TailOfQueue ==
    ASSUME events \in Seq(EventRec), events # <<>>
    PROVE  /\ \A i \in DOMAIN Tail(events) :
                 i \in Nat /\ i + 1 \in DOMAIN events /\ Tail(events)[i] = events[i + 1]
           /\ 1 \in DOMAIN events /\ Head(events) = events[1]
           /\ \A i \in DOMAIN events :
                 i \in Nat /\ (i = 1 \/ (i - 1 \in DOMAIN Tail(events) /\ Tail(events)[i - 1] = events[i]))
OBVIOUS

\* The oldest event is taken.
LEMMA QueueTaken ==
    ASSUME Queue, Progress, Onward, Grown, net' = net,
           events \in Seq(EventRec), events # <<>>, events' = Tail(events)
    PROVE  Queue'
<1>1. \A i \in DOMAIN events' :
         i \in Nat /\ i + 1 \in DOMAIN events /\ events'[i] = events[i + 1]
  BY TailOfQueue
<1>2. ASSUME NEW i \in DOMAIN events' PROVE EventTrue(events[i])'
  <2>1. PICK e : e = events[i + 1]
    OBVIOUS
  <2>2. EventTrue(e)'
    BY <1>1, <2>1, EventStaysTrue DEF Queue
  <2> QED BY <1>1, <2>1, <2>2
<1>3. AsksOnce'
  <2> SUFFICES ASSUME NEW i \in DOMAIN events', NEW j \in DOMAIN events',
                      events'[i].kind = "SasRequired", events'[j].from = events'[i].from
               PROVE  /\ events'[j].kind = "SasRequired" => i = j
                      /\ events'[j].kind = "Closed" => i < j
    BY DEF AsksOnce
  <2>1. /\ events[j + 1].kind = "SasRequired" => i + 1 = j + 1
        /\ events[j + 1].kind = "Closed" => i + 1 < j + 1
    BY <1>1 DEF Queue, AsksOnce
  <2>2. i \in Nat /\ j \in Nat /\ events'[j] = events[j + 1]
    BY <1>1
  <2> QED BY <2>1, <2>2
<1> QED BY <1>2, <1>3 DEF Queue

\* The parts of a queue to which an event is added.
LEMMA AppendToQueue ==
    ASSUME events \in Seq(EventRec), NEW e
    PROVE  \E k \in Nat :
              /\ DOMAIN Append(events, e) = DOMAIN events \cup {k}
              /\ Append(events, e)[k] = e
              /\ \A i \in DOMAIN events : i \in Nat /\ i < k /\ Append(events, e)[i] = events[i]
<1>1. Len(events) + 1 \in Nat
  OBVIOUS
<1>2. /\ DOMAIN Append(events, e) = DOMAIN events \cup {Len(events) + 1}
      /\ Append(events, e)[Len(events) + 1] = e
      /\ \A i \in DOMAIN events :
            i \in Nat /\ i < Len(events) + 1 /\ Append(events, e)[i] = events[i]
  OBVIOUS
<1> QED BY <1>1, <1>2

\* An event is added: nobody asks again.
LEMMA QueueTold ==
    ASSUME Queue, Progress, Onward, Grown, net' = net, events \in Seq(EventRec),
           NEW e \in EventRec, events' = Append(events, e), NEW c, Tells(c, e)
    PROVE  Queue'
<1>1. PICK k \in Nat :
          /\ DOMAIN events' = DOMAIN events \cup {k}
          /\ events'[k] = e
          /\ \A i \in DOMAIN events : i \in Nat /\ i < k /\ events'[i] = events[i]
  BY AppendToQueue
<1>2. ASSUME NEW i \in DOMAIN events' PROVE EventTrue(events[i])'
  <2>1. CASE i \in DOMAIN events
    <3>1. PICK x : x = events[i]
      OBVIOUS
    <3>2. EventTrue(x)'
      BY <2>1, <3>1, EventStaysTrue DEF Queue
    <3> QED BY <1>1, <2>1, <3>1, <3>2
  <2>2. CASE i = k
    BY <1>1, <2>2 DEF Tells
  <2> QED BY <1>1, <2>1, <2>2
<1>3. AsksOnce'
  <2> SUFFICES ASSUME NEW i \in DOMAIN events', NEW j \in DOMAIN events',
                      events'[i].kind = "SasRequired", events'[j].from = events'[i].from
               PROVE  /\ events'[j].kind = "SasRequired" => i = j
                      /\ events'[j].kind = "Closed" => i < j
    BY DEF AsksOnce
  <2>1. CASE i \in DOMAIN events /\ j \in DOMAIN events
    BY <1>1, <2>1 DEF Queue, AsksOnce
  <2>2. CASE i \in DOMAIN events /\ j = k
    <3>1. /\ events[i].kind = "SasRequired" /\ e.from = events[i].from /\ i < j
          /\ EventTrue(events[i])
      BY <1>1, <2>2 DEF Queue
    <3>2. e.kind # "SasRequired"
      <4> SUFFICES ASSUME e.kind = "SasRequired" PROVE FALSE
        OBVIOUS
      <4>1. conns[e.from].stage = "Opened" /\ HasAsked(conns[e.from])
        BY <3>1 DEF Tells, EventTrue
      <4> QED BY <4>1 DEF HasAsked
    <3> QED BY <1>1, <2>2, <3>1, <3>2
  <2>3. CASE i = k /\ j \in DOMAIN events
    <3>1. /\ e.kind = "SasRequired" /\ events[j].from = e.from /\ events'[j] = events[j]
          /\ EventTrue(events[j]) /\ conns[e.from].stage = "Opened"
      BY <1>1, <2>3 DEF Queue, Tells
    <3>2. events[j].kind \notin {"SasRequired", "Closed"}
      BY <3>1 DEF EventTrue, HasAsked
    <3> QED BY <3>1, <3>2
  <2>4. CASE i = k /\ j = k
    BY <1>1, <2>4
  <2> QED BY <1>1, <2>1, <2>2, <2>3, <2>4
<1> QED BY <1>2, <1>3 DEF Queue

\* A move of the tasks and the listeners.
LEMMA PromptMoveStep ==
    ASSUME Shape, TableInv, PromptInv, NetMove, Progress, UNCHANGED appVars
    PROVE  PromptInv'
<1>1. NetMove
  OBVIOUS
<1>2. /\ Onward /\ net' = net /\ Grown
      /\ UNCHANGED <<phase, peers, sas, seen, answered, approved>>
  BY <1>1 DEF NetMove, appVars, Grown
<1>3. events \in Seq(EventRec) /\ Queue
  BY DEF TableInv, OpenedOnce, PromptInv
<1>4. events' = events \/ \E c \in Nat, e \in EventRec : events' = Append(events, e) /\ Tells(c, e)
  BY <1>1 DEF NetMove
<1>5. Queue'
  BY <1>2, <1>3, <1>4, QueueKept, QueueTold
<1>6. Approvals'
  <2> SUFFICES ASSUME NEW c \in DOMAIN conns', Approving(conns'[c])
               PROVE  c \in approved /\ c \in answered
    BY <1>2 DEF Approvals
  <2>1. c \in DOMAIN conns
    BY <1>1 DEF NetMove, Approving
  <2> QED BY <1>1, <2>1 DEF NetMove, PromptInv, Approvals
<1>7. NetsPast'
  BY <1>1 DEF NetMove, NetsPast
<1>8. ConnectedWasApproved'
  BY <1>2 DEF PromptInv, ConnectedWasApproved
<1>9. ASSUME Serving PROVE Questions'
  <2>1. Prompts /\ AtMostOne /\ AtLeastOne /\ Introduced
    BY <1>9 DEF PromptInv, Questions
  <2>2. Prompts'
    BY <1>2, <2>1 DEF Prompts, PromptTrue, Typed
  <2>3. \A c : (Asks(c)' <=> Asks(c)) /\ (Met(c)' <=> Met(c)) /\ (Shaking(c)' <=> Shaking(c))
    BY <1>2 DEF Asks, Met, Shaking
  <2>4. CASE /\ events' = events
             /\ \A c \in DOMAIN conns : Quiet(conns[c], conns'[c])
    <3>1. \A kind, c : Told(kind, c)' <=> Told(kind, c)
      BY <2>4 DEF Told
    <3>2. AtMostOne'
      BY <1>2, <2>1, <2>3, <3>1 DEF AtMostOne, Onward, Follows
    <3>3. \A c \in DOMAIN conns' :
             (Pending(conns'[c]) \/ conns'[c].stage = "Opened") =>
                /\ c \in DOMAIN conns /\ conns'[c].net = conns[c].net
                /\ Pending(conns'[c]) => Pending(conns[c])
                /\ conns'[c].stage = "Opened" => conns[c].stage = "Opened"
      BY <1>1, <2>4 DEF NetMove, Quiet, Follows, Pending
    <3>4. AtLeastOne'
      BY <1>2, <2>1, <2>3, <3>1, <3>3 DEF AtLeastOne
    <3>5. Introduced'
      BY <1>2, <2>1, <2>3, <2>4, <3>1, <3>3 DEF Introduced
    <3> QED BY <2>2, <3>2, <3>4, <3>5 DEF Questions
  <2>5. ASSUME NEW c \in Nat, NEW e \in EventRec, events' = Append(events, e), Tells(c, e),
               \A d \in DOMAIN conns :
                  d # c \/ e.kind \notin {"Opened", "SasRequired"} => Quiet(conns[d], conns'[d])
        PROVE  Questions'
    <3>1. PICK k \in Nat :
              /\ DOMAIN events' = DOMAIN events \cup {k}
              /\ events'[k] = e
              /\ \A i \in DOMAIN events : i \in Nat /\ i < k /\ events'[i] = events[i]
      BY <1>3, <2>5, AppendToQueue
    <3>2. \A kind, d : Told(kind, d)' <=> Told(kind, d) \/ IsEvent(e, kind, d)
      BY <3>1 DEF Told
    <3>3. e.kind = "SasRequired" =>
              /\ c \in DOMAIN conns /\ conns[c].stage = "Opened" /\ ~HasAsked(conns[c])
              /\ conns[c].net = net /\ e.from = c
              /\ c \in DOMAIN conns' /\ HasAsked(conns'[c])
      BY <1>2, <2>5 DEF Tells, HasAsked, Onward
    <3>4. e.kind = "Opened" => e.from = c /\ c \in DOMAIN conns /\ conns'[c].stage = "Opened"
      BY <2>5 DEF Tells
    <3>5. AtMostOne'
      <4> SUFFICES ASSUME NEW d
                   PROVE  /\ Told("SasRequired", d)' \/ Asks(d) \/ d \in answered =>
                                d \in DOMAIN conns' /\ HasAsked(conns'[d])
                          /\ ~(Told("SasRequired", d)' /\ Asks(d))
                          /\ ~(Told("SasRequired", d)' /\ d \in answered)
                          /\ ~(Asks(d) /\ d \in answered)
        BY <1>2, <2>3 DEF AtMostOne
      <4>1. /\ Told("SasRequired", d) \/ Asks(d) \/ d \in answered =>
                 d \in DOMAIN conns /\ HasAsked(conns[d])
            /\ ~(Told("SasRequired", d) /\ Asks(d))
            /\ ~(Told("SasRequired", d) /\ d \in answered)
            /\ ~(Asks(d) /\ d \in answered)
        BY <2>1 DEF AtMostOne
      <4>2. d \in DOMAIN conns /\ HasAsked(conns[d]) => d \in DOMAIN conns' /\ HasAsked(conns'[d])
        BY <1>2 DEF Onward, Follows
      <4>3. Told("SasRequired", d)' =>
               Told("SasRequired", d) \/ (e.kind = "SasRequired" /\ d = c)
        BY <3>2, <3>3 DEF IsEvent
      <4> QED BY <3>3, <4>1, <4>2, <4>3
    <3>6. ASSUME NEW d \in DOMAIN conns', Pending(conns'[d]), Told("Opened", d)' \/ Met(d)
          PROVE  Told("SasRequired", d)' \/ Asks(d) \/ d \in answered
      <4>1. d \in DOMAIN conns
        BY <1>1, <3>6 DEF NetMove, Pending
      <4>2. CASE e.kind = "SasRequired" /\ d = c
        BY <3>2, <3>3, <4>2 DEF IsEvent
      <4>3. CASE ~(e.kind = "SasRequired" /\ d = c)
        <5>1. ~(e.kind = "Opened" /\ d = c)
          BY <3>4, <3>6 DEF Pending
        <5>2. Quiet(conns[d], conns'[d])
          BY <2>5, <4>1, <4>3, <5>1
        <5>3. Pending(conns[d])
          BY <3>6, <5>2 DEF Quiet
        <5>4. Told("Opened", d) \/ Met(d)
          BY <3>2, <3>4, <3>6, <5>1 DEF IsEvent
        <5> QED BY <2>1, <3>2, <4>1, <5>3, <5>4 DEF AtLeastOne
      <4> QED BY <4>2, <4>3
    <3>7. ASSUME NEW i \in DOMAIN events', events'[i].kind = "SasRequired"
          PROVE  \/ \E j \in DOMAIN events' : j < i /\ IsEvent(events'[j], "Opened", events'[i].from)
                 \/ Shaking(events'[i].from)
      <4>1. CASE i \in DOMAIN events
        <5>1. events'[i] = events[i] /\ events[i].kind = "SasRequired"
          BY <3>1, <3>7, <4>1
        <5>2. CASE Shaking(events[i].from)
          BY <5>1, <5>2
        <5>3. ASSUME NEW j \in DOMAIN events, j < i, IsEvent(events[j], "Opened", events[i].from)
              PROVE  \E x \in DOMAIN events' : x < i /\ IsEvent(events'[x], "Opened", events'[i].from)
          BY <3>1, <5>1, <5>3
        <5> QED BY <2>1, <4>1, <5>1, <5>2, <5>3 DEF Introduced
      <4>2. CASE i = k
        <5>1. e.kind = "SasRequired" /\ events'[i] = e /\ events'[i].from = c
          BY <3>1, <3>3, <3>7, <4>2
        <5>2. Told("Opened", c) \/ Shaking(c)
          BY <2>1, <3>3, <5>1 DEF Introduced
        <5>3. CASE Shaking(c)
          BY <5>1, <5>3
        <5>4. ASSUME NEW j \in DOMAIN events, IsEvent(events[j], "Opened", c)
              PROVE  \E x \in DOMAIN events' : x < i /\ IsEvent(events'[x], "Opened", events'[i].from)
          BY <3>1, <4>2, <5>1, <5>4
        <5> QED BY <5>2, <5>3, <5>4 DEF Told
      <4> QED BY <3>1, <4>1, <4>2
    <3>8. ASSUME NEW d \in DOMAIN conns', conns'[d].net = net, conns'[d].stage = "Opened"
          PROVE  Told("Opened", d)' \/ Shaking(d)
      <4>1. d \in DOMAIN conns
        BY <1>1, <3>8 DEF NetMove
      <4>2. CASE e.kind = "Opened" /\ d = c
        BY <3>2, <3>4, <4>2 DEF IsEvent
      <4>3. CASE ~(e.kind = "Opened" /\ d = c)
        <5>1. ~(e.kind = "SasRequired" /\ d = c)
          BY <2>5, <3>8 DEF Tells
        <5>2. Quiet(conns[d], conns'[d])
          BY <2>5, <4>1, <4>3, <5>1
        <5>3. conns[d].stage = "Opened" /\ conns[d].net = net
          BY <3>8, <5>2 DEF Quiet, Follows
        <5> QED BY <2>1, <3>2, <4>1, <5>3 DEF Introduced
      <4> QED BY <4>2, <4>3
    <3>9. AtLeastOne'
      BY <1>2, <2>3, <3>6 DEF AtLeastOne
    <3>10. Introduced'
      BY <1>2, <2>3, <3>7, <3>8 DEF Introduced
    <3> QED BY <2>2, <3>5, <3>9, <3>10 DEF Questions
  <2> QED BY <1>1, <2>4, <2>5 DEF NetMove
<1> QED BY <1>2, <1>5, <1>6, <1>7, <1>8, <1>9 DEF PromptInv, Serving

-----------------------------------------------------------------------------
(* How the application takes an event.                                     *)

\* Handles take commands; no connection moves.
SameStages ==
    /\ DOMAIN conns' = DOMAIN conns
    /\ \A c \in DOMAIN conns : conns'[c].stage = conns[c].stage /\ conns'[c].net = conns[c].net

\* A command is all that a handle can add.
LEMMA SendMoves ==
    ASSUME ConnInv, NEW x, NEW command \in ConnCommand, conns' = TrySend(x, command)
    PROVE  /\ SameStages
           /\ \A c \in DOMAIN conns :
                 Approving(conns'[c]) => Approving(conns[c]) \/ (c = x /\ command = "Approve")
<1>1. CASE x \notin DOMAIN conns \/ ~Takes(x)
  <2>1. conns' = conns
    BY <1>1 DEF TrySend, ConnInv
  <2> QED BY <2>1 DEF SameStages
<1>2. CASE x \in DOMAIN conns /\ Takes(x)
  <2> DEFINE r == [conns[x] EXCEPT !.control = Append(@, command)]
  <2>1. conns' = [conns EXCEPT ![x] = r]
    BY <1>2 DEF TrySend
  <2>2. conns[x] \in ConnRec /\ conns[x].control \in Seq(ConnCommand)
    BY <1>2, ConnFields
  <2>3. /\ r.stage = conns[x].stage /\ r.net = conns[x].net
        /\ r.control = Append(conns[x].control, command)
    BY <2>2 DEF ConnRec
  <2>4. \A i \in DOMAIN Append(conns[x].control, command) :
           \/ i \in DOMAIN conns[x].control
              /\ Append(conns[x].control, command)[i] = conns[x].control[i]
           \/ Append(conns[x].control, command)[i] = command
    BY <2>2
  <2> HIDE DEF r
  <2>5. DOMAIN conns' = DOMAIN conns /\ conns'[x] = r
        /\ \A c \in DOMAIN conns : c # x => conns'[c] = conns[c]
    BY <1>2, <2>1 DEF ConnInv
  <2>6. Approving(r) => Approving(conns[x]) \/ command = "Approve"
    BY <2>3, <2>4 DEF Approving
  <2> QED BY <2>3, <2>5, <2>6 DEF SameStages
<1> QED BY <1>1, <1>2

\* Then connections stay where they are.
LEMMA StagesStay ==
    ASSUME SameStages
    PROVE  /\ Onward
           /\ \A c \in DOMAIN conns : /\ HasAsked(conns'[c]) <=> HasAsked(conns[c])
                                      /\ Pending(conns'[c]) <=> Pending(conns[c])
BY DEF SameStages, Onward, Follows, HasAsked, Pending

\* An event that the index knows leads to the peer of its connection.
LEMMA EventPeer ==
    ASSUME Shape, TableInv, NEW e, EventTrue(e), e.kind \in ConnKind, e.id \in DOMAIN by_id
    PROVE  /\ by_id[e.id] \in DOMAIN peers
           /\ peers[by_id[e.id]] \in PeerRec
           /\ peers[by_id[e.id]].id = e.id
           /\ peers[by_id[e.id]].handle = e.from
<1>1. by_id[e.id] \in DOMAIN peers /\ peers[by_id[e.id]].id = e.id
  BY DEF TableInv, Table
<1>2. peers[by_id[e.id]] \in PeerRec /\ Leads(peers[by_id[e.id]].handle, e.id)
  BY <1>1 DEF TableInv, Table
<1>3. Leads(e.from, e.id)
  BY DEF EventTrue
<1>4. peers[by_id[e.id]].handle = e.from
  BY <1>2, <1>3, LeadsToOne DEF Shape
<1> QED BY <1>1, <1>2, <1>4

\* A connection has one peer at most, and is the only one under its identifier.
LEMMA OnePeer ==
    ASSUME Shape, TableInv, NEW l \in DOMAIN peers, NEW m \in DOMAIN peers,
           peers[l].handle = peers[m].handle \/ peers[l].id = peers[m].id
    PROVE  l = m
<1>1. /\ by_id[peers[l].id] = l /\ by_id[peers[m].id] = m
      /\ peers[l].id = conns[peers[l].handle].id /\ peers[m].id = conns[peers[m].handle].id
  BY DEF TableInv, Table, Leads
<1> QED BY <1>1

\* The oldest event is taken, and what becomes of its question.
LEMMA QuestionsTaken ==
    ASSUME Questions, Queue, SameStages, net' = net,
           events \in Seq(EventRec), events # <<>>, events' = Tail(events),
           NEW e, e = Head(events), Prompts',
           \A c : Asks(c)' => Asks(c) \/ IsEvent(e, "SasRequired", c),
           \A c \in answered' : c \in answered \/ IsEvent(e, "SasRequired", c),
           \A c : ~(Asks(c)' /\ c \in answered'),
           \A c \in DOMAIN conns :
              (Asks(c) \/ c \in answered \/ IsEvent(e, "SasRequired", c)) =>
                  Asks(c)' \/ c \in answered' \/ ~Pending(conns[c]),
           \A c : Met(c)' => Met(c) \/ IsEvent(e, "Opened", c),
           \A c : (Shaking(c) \/ IsEvent(e, "Opened", c)) =>
              Shaking(c)' \/ (conns[c].stage # "Opened" /\ ~Told("SasRequired", c)')
    PROVE  Questions'
<1>1. /\ \A i \in DOMAIN events' :
            i \in Nat /\ i + 1 \in DOMAIN events /\ events'[i] = events[i + 1]
      /\ 1 \in DOMAIN events /\ e = events[1]
      /\ \A i \in DOMAIN events :
            i \in Nat /\ (i = 1 \/ (i - 1 \in DOMAIN events' /\ events'[i - 1] = events[i]))
  BY TailOfQueue
<1>2. \A kind, c : Told(kind, c) <=> Told(kind, c)' \/ IsEvent(e, kind, c)
  BY <1>1 DEF Told
<1>3. ASSUME NEW c, Told("SasRequired", c)' PROVE ~IsEvent(e, "SasRequired", c)
  <2>1. PICK i \in DOMAIN events' : IsEvent(events'[i], "SasRequired", c)
    BY <1>3 DEF Told
  <2>2. i + 1 \in DOMAIN events /\ IsEvent(events[i + 1], "SasRequired", c) /\ i + 1 # 1
    BY <1>1, <2>1
  <2> QED BY <1>1, <2>2 DEF Queue, AsksOnce, IsEvent
<1>4. AtMostOne /\ AtLeastOne /\ Introduced
  BY DEF Questions
<1>5. AtMostOne'
  <2> SUFFICES ASSUME NEW c
               PROVE  /\ Told("SasRequired", c)' \/ Asks(c)' \/ c \in answered' =>
                            c \in DOMAIN conns' /\ HasAsked(conns'[c])
                      /\ ~(Told("SasRequired", c)' /\ Asks(c)')
                      /\ ~(Told("SasRequired", c)' /\ c \in answered')
                      /\ ~(Asks(c)' /\ c \in answered')
    BY DEF AtMostOne
  <2>1. /\ Told("SasRequired", c) \/ Asks(c) \/ c \in answered =>
             c \in DOMAIN conns /\ HasAsked(conns[c])
        /\ ~(Told("SasRequired", c) /\ Asks(c))
        /\ ~(Told("SasRequired", c) /\ c \in answered)
    BY <1>4 DEF AtMostOne
  <2>2. Told("SasRequired", c)' => Told("SasRequired", c) /\ ~IsEvent(e, "SasRequired", c)
    BY <1>2, <1>3
  <2>3. IsEvent(e, "SasRequired", c) => Told("SasRequired", c)
    BY <1>2
  <2>4. c \in DOMAIN conns /\ HasAsked(conns[c]) => c \in DOMAIN conns' /\ HasAsked(conns'[c])
    BY StagesStay DEF SameStages
  <2> QED BY <2>1, <2>2, <2>3, <2>4
<1>6. ASSUME NEW c \in DOMAIN conns, Told("Opened", c)' \/ Met(c)', Pending(conns[c])
      PROVE  Told("SasRequired", c)' \/ Asks(c)' \/ c \in answered'
  <2>1. Told("Opened", c) \/ Met(c)
    BY <1>2, <1>6
  <2>2. Told("SasRequired", c) \/ Asks(c) \/ c \in answered
    BY <1>4, <1>6, <2>1 DEF AtLeastOne
  <2> QED BY <1>2, <1>6, <2>2
<1>7. AtLeastOne'
  BY <1>6, StagesStay DEF AtLeastOne, SameStages
<1>8. ASSUME NEW i \in DOMAIN events', NEW c, c = events'[i].from,
             events'[i].kind = "SasRequired"
      PROVE  \/ \E x \in DOMAIN events' : x < i /\ IsEvent(events'[x], "Opened", c)
             \/ Shaking(c)'
  <2>2. events[i + 1].kind = "SasRequired" /\ events[i + 1].from = c /\ i + 1 \in DOMAIN events
    BY <1>1, <1>8
  <2>3. Told("SasRequired", c)'
    BY <1>8 DEF Told, IsEvent
  <2>4. Shaking(c) \/ IsEvent(e, "Opened", c) => Shaking(c)'
    BY <2>3
  <2>5. CASE Shaking(c)
    BY <2>4, <2>5
  <2>6. ASSUME NEW j \in DOMAIN events, j < i + 1, IsEvent(events[j], "Opened", c)
        PROVE  \/ \E x \in DOMAIN events' : x < i /\ IsEvent(events'[x], "Opened", c)
               \/ Shaking(c)'
    <3>1. CASE j = 1
      BY <1>1, <2>4, <2>6, <3>1
    <3>2. CASE j # 1
      <4>1. j - 1 \in DOMAIN events' /\ events'[j - 1] = events[j] /\ j - 1 < i
        BY <1>1, <2>6, <3>2
      <4> QED BY <2>6, <4>1
    <3> QED BY <3>1, <3>2
  <2> QED BY <1>4, <2>2, <2>5, <2>6 DEF Introduced
<1>9. ASSUME NEW c \in DOMAIN conns, conns[c].net = net, conns[c].stage = "Opened"
      PROVE  Told("Opened", c)' \/ Shaking(c)'
  <2>1. Told("Opened", c) \/ Shaking(c)
    BY <1>4, <1>9 DEF Introduced
  <2> QED BY <1>2, <1>9, <2>1
<1>10. Introduced'
  BY <1>8, <1>9 DEF Introduced, Shaking, SameStages
<1> QED BY <1>5, <1>7, <1>10 DEF Questions

\* What is the same for every event.
Taken(e) ==
    /\ events # <<>> /\ e = Head(events) /\ events' = Tail(events)
    /\ net' = net /\ SameStages
    /\ seen' = seen /\ approved' = approved

\* The prompts stay, and so do the peers they are about.
LEMMA PromptsStay ==
    ASSUME Prompts, sas' = sas, seen' = seen,
           \A l \in DOMAIN peers : Asks(peers[l].handle) =>
              /\ l \in DOMAIN peers'
              /\ peers'[l].handle = peers[l].handle /\ peers'[l].id = peers[l].id
              /\ peers'[l].status = peers[l].status
    PROVE  Prompts'
<1>1. ASSUME NEW i \in DOMAIN sas PROVE PromptTrue(sas[i])'
  <2>1. PICK p : p = sas[i]
    OBVIOUS
  <2>2. PromptTrue(p) /\ p.words = sas[i].words
    BY <2>1 DEF Prompts
  <2>3. Asks(p.words)
    BY <2>2 DEF Asks
  <2>4. /\ p.label \in DOMAIN peers'
        /\ peers'[p.label].handle = p.words /\ peers'[p.label].id = p.id
        /\ peers'[p.label].status = "Handshaking"
    BY <2>2, <2>3 DEF PromptTrue
  <2> QED BY <2>1, <2>4 DEF PromptTrue
<1> QED BY <1>1 DEF Prompts, Typed

\* The prompts, the answers and the peers as they were: an event that no
\* question depends on.
LEMMA QuestionsPassed ==
    ASSUME Questions, Queue, TableInv, NEW e, Taken(e), Prompts',
           e.kind \notin {"SasRequired", "Opened"},
           \A c : Asks(c)' <=> Asks(c), answered' = answered,
           \A c : Met(c)' => Met(c), \A c : Shaking(c) => Shaking(c)'
    PROVE  Questions'
<1>1. \A c : ~IsEvent(e, "SasRequired", c) /\ ~IsEvent(e, "Opened", c)
  BY DEF IsEvent
<1>2. \A c : ~(Asks(c) /\ c \in answered)
  BY DEF Questions, AtMostOne
<1>3. events \in Seq(EventRec)
  BY DEF TableInv, OpenedOnce
<1> QED BY <1>1, <1>2, <1>3, QuestionsTaken DEF Taken

\* A new peer is in the table.
LEMMA TakesOpened ==
    ASSUME Shape, TableInv, Questions, Queue, NEW e, Taken(e), e.kind = "Opened",
           OnOpened(e)
    PROVE  Questions'
<1> DEFINE label == next_label + 1
           r == [id |-> e.id, handle |-> e.from, status |-> "Handshaking", unread |-> FALSE]
<1>1. /\ peers' = With(peers, label, r) /\ UNCHANGED <<sas, answered>>
      /\ label \notin DOMAIN peers
  BY DEF OnOpened, history, TableInv, Table
<1>2. r.handle = e.from /\ r.status = "Handshaking"
  OBVIOUS
<1> HIDE DEF r, label
<1>3. /\ DOMAIN peers' = DOMAIN peers \cup {label} /\ peers'[label] = r
      /\ \A l \in DOMAIN peers : peers'[l] = peers[l]
  BY <1>1 DEF With
<1>4. Prompts'
  BY <1>1, <1>3, PromptsStay DEF Questions, Taken
<1>5. \A c : Asks(c)' <=> Asks(c)
  BY <1>1 DEF Asks
<1>6. \A c : IsEvent(e, "Opened", c) <=> c = e.from
  BY DEF IsEvent
<1>7. \A c : Met(c)' => Met(c) \/ IsEvent(e, "Opened", c)
  BY <1>2, <1>3, <1>6 DEF Met
<1>8. \A c : Shaking(c) \/ IsEvent(e, "Opened", c) => Shaking(c)'
  BY <1>2, <1>3, <1>6 DEF Shaking
<1>9. \A c : ~IsEvent(e, "SasRequired", c)
  BY DEF IsEvent
<1>10. \A c : ~(Asks(c) /\ c \in answered)
  BY DEF Questions, AtMostOne
<1>11. events \in Seq(EventRec)
  BY DEF TableInv, OpenedOnce
<1> QED BY <1>1, <1>4, <1>5, <1>7, <1>8, <1>9, <1>10, <1>11, QuestionsTaken DEF Taken

\* The question of a connection meets its peer, which is handshaking.
LEMMA AskerIsShaking ==
    ASSUME Shape, TableInv, Questions, Queue, NEW e, Taken(e), e.kind = "SasRequired"
    PROVE  /\ e.id \in DOMAIN by_id
           /\ by_id[e.id] \in DOMAIN peers
           /\ peers[by_id[e.id]].id = e.id /\ peers[by_id[e.id]].handle = e.from
           /\ peers[by_id[e.id]].status = "Handshaking"
           /\ ~Asks(e.from) /\ e.from \notin answered
<1>1. 1 \in DOMAIN events /\ e = events[1] /\ \A i \in DOMAIN events : ~(i < 1)
  BY TailOfQueue DEF Taken, TableInv, OpenedOnce
<1>2. EventTrue(e) /\ e.kind \in ConnKind
  BY <1>1 DEF Queue, ConnKind
<1>3. Shaking(e.from)
  BY <1>1 DEF Questions, Introduced
<1>4. PICK l \in DOMAIN peers : peers[l].handle = e.from /\ peers[l].status = "Handshaking"
  BY <1>3 DEF Shaking
<1>5. peers[l].id = e.id /\ by_id[e.id] = l /\ e.id \in DOMAIN by_id
  BY <1>2, <1>4 DEF EventTrue, TableInv, Table, Leads
<1>6. Told("SasRequired", e.from)
  BY <1>1 DEF Told, IsEvent
<1> QED BY <1>4, <1>5, <1>6 DEF Questions, AtMostOne

\* It is shown, or rejected for want of room.
LEMMA TakesQuestion ==
    ASSUME Shape, TableInv, Questions, Queue, NEW e, Taken(e), e.kind = "SasRequired",
           e \in EventRec, OnSasRequired(e, by_id[e.id])
    PROVE  Questions'
<1> DEFINE label == by_id[e.id]
           p == Prompt(e, label)
<1>1. /\ label \in DOMAIN peers
      /\ peers[label].id = e.id /\ peers[label].handle = e.from
      /\ peers[label].status = "Handshaking"
      /\ ~Asks(e.from) /\ e.from \notin answered
  BY AskerIsShaking
<1>2. peers' = peers
  BY DEF OnSasRequired, table
<1>3. \A c : (Met(c)' <=> Met(c)) /\ (Shaking(c)' <=> Shaking(c))
  BY <1>2 DEF Met, Shaking
<1>4. \A c : IsEvent(e, "SasRequired", c) <=> c = e.from
  BY DEF IsEvent
<1>5. \A c : ~IsEvent(e, "Opened", c)
  BY DEF IsEvent
<1>6. \A c : ~(Asks(c) /\ c \in answered)
  BY DEF Questions, AtMostOne
<1>7. events \in Seq(EventRec)
  BY DEF TableInv, OpenedOnce
<1>8. CASE sas' = sas /\ answered' = answered \cup {e.from}
  <2>1. Prompts'
    BY <1>2, <1>8, PromptsStay DEF Questions, Taken
  <2>2. \A c : Asks(c)' <=> Asks(c)
    BY <1>8 DEF Asks
  <2> QED BY <1>1, <1>3, <1>4, <1>5, <1>6, <1>7, <1>8, <2>1, <2>2, QuestionsTaken DEF Taken
<1>9. CASE PromptRoom /\ sas' = Append(sas, p) /\ answered' = answered
  <2>1. /\ sas \in Seq(PromptRec)
        /\ \A i \in DOMAIN sas : PromptTrue(sas[i])
        /\ \A i, j \in DOMAIN sas : sas[i].words = sas[j].words => i = j
        /\ Typed
    BY DEF Questions, Prompts
  <2>0. ~Begun(p)
    BY Zenon DEF Prompt, Begun
  <2>2. p.id = e.id /\ p.label = label /\ p.words = e.from
    BY DEF Prompt
  <2>3. p \in PromptRec
    <3>1. label \in Nat
      BY <1>1 DEF TableInv, Table
    <3>2. e.id \in Nat /\ e.from \in Nat
      BY DEF EventRec
    <3>3. PICK blank : blank = ""
      OBVIOUS
    <3>4. blank \in Typing
      BY <3>3, Zenon DEF Typing
    <3>5. p = [id |-> e.id, label |-> label, words |-> e.from, typed |-> blank]
      BY <3>3, Zenon DEF Prompt
    <3> HIDE DEF label, p
    <3> QED BY <3>1, <3>2, <3>4, <3>5 DEF PromptRec
  <2> HIDE DEF p, label
  <2>4. PICK k : k = Len(sas) + 1
    OBVIOUS
  <2>5. /\ sas' \in Seq(PromptRec)
        /\ DOMAIN sas' = DOMAIN sas \cup {k} /\ k \notin DOMAIN sas /\ sas'[k] = p
        /\ \A i \in DOMAIN sas : sas'[i] = sas[i]
    BY <1>9, <2>1, <2>3, <2>4
  <2>6. Len(sas') <= MAX_UNAUTHENTICATED_HANDSHAKES
    <3>1. Len(sas') = Len(sas) + 1 /\ Len(sas) \in Nat
      BY <1>9, <2>1
    <3>2. Len(sas) < MAX_UNAUTHENTICATED_HANDSHAKES /\ MAX_UNAUTHENTICATED_HANDSHAKES \in Nat
      BY <1>9, NetBounds DEF PromptRoom
    <3> QED BY <3>1, <3>2
  <2>7. \A c : Asks(c)' <=> Asks(c) \/ c = e.from
    BY <2>2, <2>5 DEF Asks
  <2>8. \A i, j \in DOMAIN sas' : sas'[i].words = sas'[j].words => i = j
    <3>1. \A i \in DOMAIN sas : sas'[i].words = sas[i].words /\ sas[i].words # e.from
      BY <1>1, <2>5 DEF Asks
    <3>2. sas'[k].words = e.from
      BY <2>2, <2>5
    <3>3. \A i \in DOMAIN sas' : i = k \/ i \in DOMAIN sas
      BY <2>5
    <3> QED BY <2>1, <3>1, <3>2, <3>3
  <2>9. ASSUME NEW i \in DOMAIN sas' PROVE PromptTrue(sas[i])'
    <3>1. PICK q : q = sas'[i]
      OBVIOUS
    <3>2. q = p \/ PromptTrue(q)
      BY <2>1, <2>5, <3>1
    <3>3. PromptTrue(p)
      BY <1>1, <2>2 DEF PromptTrue
    <3> QED BY <1>2, <3>1, <3>2, <3>3 DEF PromptTrue
  <2>10. Typed'
    BY <2>0, <2>1, <2>5, Zenon DEF Typed, Taken, Begun
  <2>11. Prompts'
    BY <2>5, <2>6, <2>8, <2>9, <2>10 DEF Prompts
  <2> QED BY <1>1, <1>3, <1>4, <1>5, <1>6, <1>7, <1>9, <2>7, <2>11, QuestionsTaken DEF Taken
<1> QED BY <1>1, <1>8, <1>9 DEF OnSasRequired

\* The prompts that a closed connection leaves behind.
LEMMA PromptsLeft ==
    ASSUME Shape, TableInv, Prompts, NEW label \in DOMAIN peers, NEW id,
           id = peers[label].id, sas' = Retained(sas, id), seen' = seen,
           \A l \in DOMAIN peers : l # label => l \in DOMAIN peers' /\ peers'[l] = peers[l]
    PROVE  /\ Prompts'
           /\ \A c : Asks(c)' <=> Asks(c) /\ c # peers[label].handle
<1>1. /\ sas \in Seq(PromptRec)
      /\ \A i \in DOMAIN sas : PromptTrue(sas[i])
      /\ \A i, j \in DOMAIN sas : sas[i].words = sas[j].words => i = j
      /\ Len(sas) <= MAX_UNAUTHENTICATED_HANDSHAKES
      /\ Typed
  BY DEF Prompts
<1>2. Left(PromptRec, sas, id, Len(sas), sas')
  BY <1>1, RetainedLeft
<1>3. /\ sas' \in Seq(PromptRec) /\ Len(sas') <= Len(sas)
      /\ \A j \in 1..Len(sas) : sas[j].id # id => \E i \in 1..Len(sas') : sas'[i] = sas[j]
  BY <1>2 DEF Left
<1>4. PICK h \in [1..Len(sas') -> 1..Len(sas)] :
          /\ \A i \in 1..Len(sas') : sas'[i] = sas[h[i]] /\ sas[h[i]].id # id
          /\ \A i, j \in 1..Len(sas') : i < j => h[i] < h[j]
  BY <1>2 DEF Left
<1>5. /\ DOMAIN sas = 1..Len(sas) /\ DOMAIN sas' = 1..Len(sas')
      /\ Len(sas) \in Nat /\ Len(sas') \in Nat
  BY <1>1, <1>3
<1>6. ASSUME NEW p, PromptTrue(p), p.id # id PROVE PromptTrue(p)'
  BY <1>6 DEF PromptTrue
<1>7. ASSUME NEW i \in DOMAIN sas' PROVE PromptTrue(sas[i])'
  <2>1. PICK p : p = sas'[i]
    OBVIOUS
  <2>2. PromptTrue(p) /\ p.id # id
    BY <1>1, <1>4, <1>5, <2>1
  <2> QED BY <1>6, <2>1, <2>2
<1>8. ASSUME NEW i \in DOMAIN sas', NEW j \in DOMAIN sas', sas'[i].words = sas'[j].words
      PROVE  i = j
  <2>1. h[i] = h[j] /\ h[i] \in 1..Len(sas)
    BY <1>1, <1>4, <1>5, <1>8
  <2>2. ~(h[i] < h[j]) /\ ~(h[j] < h[i])
    BY <1>5, <2>1
  <2>3. ~(i < j) /\ ~(j < i)
    BY <1>4, <1>5, <2>2
  <2> QED BY <1>5, <2>3
<1>9. ASSUME NEW i \in DOMAIN sas', sas'[i].typed # "" PROVE i = 1 /\ seen' = sas'[i].words
  <2>1. sas'[i] = sas[h[i]] /\ h[i] \in DOMAIN sas
    BY <1>4, <1>5, ZenonT(30)
  <2>2. h[i] = 1 /\ seen = sas[h[i]].words
    BY <1>1, <1>9, <2>1, ZenonT(30) DEF Typed
  <2>3. i = 1
    BY <1>4, <1>5, <2>2
  <2> QED BY <2>1, <2>2, <2>3
<1>10. Prompts'
  <2>1. Typed'
    BY <1>9 DEF Typed
  <2>2. Len(sas') <= MAX_UNAUTHENTICATED_HANDSHAKES
    BY <1>1, <1>3, <1>5, NetBounds
  <2> QED BY <1>3, <1>7, <1>8, <2>1, <2>2 DEF Prompts
<1>11. ASSUME NEW c, NEW i \in DOMAIN sas', sas'[i].words = c
       PROVE  Asks(c) /\ c # peers[label].handle
  <2>1. /\ h[i] \in DOMAIN sas /\ sas[h[i]].words = c /\ PromptTrue(sas[h[i]])
        /\ sas[h[i]].id # id
    BY <1>1, <1>4, <1>5, <1>11
  <2>2. PICK m \in DOMAIN peers : peers[m].handle = c /\ peers[m].id # id
    BY <2>1 DEF PromptTrue
  <2>3. peers[label].handle # c
    BY <2>2, OnePeer
  <2> QED BY <2>1, <2>3 DEF Asks
<1>12. ASSUME NEW j \in DOMAIN sas, sas[j].words # peers[label].handle
       PROVE  \E i \in DOMAIN sas' : sas'[i] = sas[j]
  <2>1. PromptTrue(sas[j])
    BY <1>1
  <2>2. sas[j].id # id
    BY <1>12, <2>1, OnePeer DEF PromptTrue
  <2> QED BY <1>3, <1>5, <2>2
<1>13. \A c : Asks(c)' => Asks(c) /\ c # peers[label].handle
  BY <1>11 DEF Asks
<1>14. \A c : Asks(c) /\ c # peers[label].handle => Asks(c)'
  BY <1>12 DEF Asks
<1> QED BY <1>10, <1>13, <1>14

\* A connection has closed: its question, if any, has been taken before.
LEMMA TakesClosed ==
    ASSUME Shape, TableInv, Questions, Queue, NEW e, Taken(e), e.kind = "Closed",
           e.id \in DOMAIN by_id, OnClosed(e, by_id[e.id])
    PROVE  Questions'
<1> DEFINE label == by_id[e.id]
<1>1. /\ events \in Seq(EventRec) /\ events # <<>> /\ events' = Tail(events)
      /\ e = Head(events)
  BY DEF Taken, TableInv, OpenedOnce
<1>2. /\ \A i \in DOMAIN events' :
            i \in Nat /\ i + 1 \in DOMAIN events /\ events'[i] = events[i + 1]
      /\ 1 \in DOMAIN events /\ e = events[1]
  BY <1>1, TailOfQueue
<1>3. EventTrue(e) /\ conns[e.from].stage = "Closed"
  BY <1>2 DEF Queue, EventTrue
<1>4. /\ label \in DOMAIN peers /\ peers[label].id = e.id /\ peers[label].handle = e.from
      /\ peers[label] \in PeerRec
  BY <1>3, EventPeer DEF ConnKind
<1>5. ~Told("SasRequired", e.from)'
  <2> SUFFICES ASSUME NEW i \in DOMAIN events', IsEvent(events'[i], "SasRequired", e.from)
               PROVE  FALSE
    BY DEF Told
  <2>1. i + 1 \in DOMAIN events /\ IsEvent(events[i + 1], "SasRequired", e.from) /\ i \in Nat
    BY <1>2
  <2>2. i + 1 < 1
    BY <1>2, <2>1 DEF Queue, AsksOnce, IsEvent
  <2> QED BY <2>1, <2>2
<1>6. /\ sas' = Retained(sas, e.id) /\ seen' = seen /\ answered' = answered
      /\ \/ peers' = [peers EXCEPT ![label].status = "Closed"]
         \/ peers' = Without(peers, label)
  BY DEF OnClosed, PromptsOfOthers, history
<1>7. /\ \A l \in DOMAIN peers : l # label => l \in DOMAIN peers' /\ peers'[l] = peers[l]
      /\ \A l \in DOMAIN peers' : l \in DOMAIN peers /\ peers'[l].handle = peers[l].handle
  BY <1>4, <1>6 DEF Without, PeerRec
<1> HIDE DEF label
<1>8. Prompts' /\ \A c : Asks(c)' <=> Asks(c) /\ c # e.from
  BY <1>4, <1>6, <1>7, PromptsLeft DEF Questions
<1>9. \A c : Met(c)' => Met(c)
  BY <1>7 DEF Met
<1>10. \A c : Shaking(c) => Shaking(c)' \/ c = e.from
  BY <1>4, <1>7 DEF Shaking
<1>11. \A c : ~IsEvent(e, "SasRequired", c) /\ ~IsEvent(e, "Opened", c)
  BY DEF IsEvent
<1>12. \A c : ~(Asks(c) /\ c \in answered)
  BY DEF Questions, AtMostOne
<1>13. ~Pending(conns[e.from])
  BY <1>3 DEF Pending
<1>14. \A c : (Shaking(c) \/ IsEvent(e, "Opened", c)) =>
          Shaking(c)' \/ (conns[c].stage # "Opened" /\ ~Told("SasRequired", c)')
  BY <1>3, <1>5, <1>10, <1>11
<1> QED BY <1>1, <1>6, <1>8, <1>9, <1>11, <1>12, <1>13, <1>14, QuestionsTaken DEF Taken

\* A session is established: the user has approved it.
LEMMA TakesEstablished ==
    ASSUME Shape, TableInv, Questions, Queue, ConnectedWasApproved,
           NEW e, Taken(e), e.kind = "Established",
           e.id \in DOMAIN by_id, OnEstablished(by_id[e.id])
    PROVE  Questions' /\ ConnectedWasApproved'
<1> DEFINE label == by_id[e.id]
<1>1. /\ events \in Seq(EventRec) /\ events # <<>> /\ events' = Tail(events)
      /\ e = Head(events)
  BY DEF Taken, TableInv, OpenedOnce
<1>2. /\ 1 \in DOMAIN events /\ e = events[1]
      /\ \A i \in DOMAIN events' :
            i \in Nat /\ i + 1 \in DOMAIN events /\ events'[i] = events[i + 1]
  BY <1>1, TailOfQueue
<1>3. EventTrue(e) /\ e.from \in approved /\ e.from \in answered
  BY <1>2 DEF Queue, EventTrue
<1>4. /\ label \in DOMAIN peers /\ peers[label].id = e.id /\ peers[label].handle = e.from
      /\ peers[label] \in PeerRec
  BY <1>3, EventPeer DEF ConnKind
<1>5. /\ peers' = [peers EXCEPT ![label].status = "Connected"]
      /\ sas' = sas /\ seen' = seen /\ answered' = answered
  BY DEF OnEstablished, history
<1>6. /\ DOMAIN peers' = DOMAIN peers
      /\ \A l \in DOMAIN peers : /\ peers'[l].handle = peers[l].handle
                                 /\ peers'[l].id = peers[l].id
                                 /\ l # label => peers'[l] = peers[l]
  BY <1>4, <1>5 DEF PeerRec
<1> HIDE DEF label
<1>7. ~Asks(e.from) /\ ~Told("SasRequired", e.from) /\ conns[e.from].stage # "Opened"
  BY <1>3 DEF Questions, AtMostOne, HasAsked
<1>8. ~Told("SasRequired", e.from)'
  BY <1>2, <1>7 DEF Told
<1>9. Prompts'
  BY <1>4, <1>5, <1>6, <1>7, PromptsStay DEF Questions
<1>10. \A c : Asks(c)' <=> Asks(c)
  BY <1>5 DEF Asks
<1>11. \A c : Met(c)' => Met(c)
  BY <1>6 DEF Met
<1>12. \A c : Shaking(c) => Shaking(c)' \/ c = e.from
  BY <1>4, <1>6 DEF Shaking
<1>13. \A c : ~IsEvent(e, "SasRequired", c) /\ ~IsEvent(e, "Opened", c)
  BY DEF IsEvent
<1>14. \A c : ~(Asks(c) /\ c \in answered)
  BY DEF Questions, AtMostOne
<1>15. \A c : (Shaking(c) \/ IsEvent(e, "Opened", c)) =>
          Shaking(c)' \/ (conns[c].stage # "Opened" /\ ~Told("SasRequired", c)')
  BY <1>7, <1>8, <1>12, <1>13
<1>16. Questions'
  BY <1>1, <1>5, <1>9, <1>10, <1>11, <1>13, <1>14, <1>15, QuestionsTaken DEF Taken
<1>17. ConnectedWasApproved'
  BY <1>3, <1>4, <1>6 DEF ConnectedWasApproved, Taken
<1> QED BY <1>16, <1>17

\* The application takes an event.
LEMMA PromptEventStep ==
    ASSUME Shape, TableInv, PromptInv, Progress, OnNetEvent
    PROVE  PromptInv'
<1>1. PICK e : e = Head(events)
  OBVIOUS
<1>2. /\ phase = "Running" /\ phase' = "Running" /\ events # <<>> /\ events' = Tail(events)
      /\ net' = net /\ listeners' = listeners
  BY DEF OnNetEvent
<1>3. /\ Queue /\ Approvals /\ NetsPast /\ ConnectedWasApproved /\ Questions
  BY <1>2 DEF PromptInv, Serving
<1>4. events \in Seq(EventRec) /\ 1 \in DOMAIN events /\ e = events[1]
  BY <1>1, <1>2, TailOfQueue DEF TableInv, OpenedOnce
<1>5. e \in EventRec /\ EventTrue(e)
  BY <1>3, <1>4 DEF Queue
<1>6. \/ OnOpened(e) /\ e.kind = "Opened"
      \/ (Ignored \/ OnListenerStopped(e)) /\ e.kind \in {"DialFailed", "ListenerStopped"}
      \/ OnConnEvent(e) /\ e.kind \in {"SasRequired", "Established", "Message", "Closed"}
  BY <1>1, <1>5 DEF OnNetEvent, EventRec
<1>7. (e.kind = "SasRequired" /\ OnConnEvent(e) /\ e.id \in DOMAIN by_id) =>
         OnSasRequired(e, by_id[e.id])
  BY DEF OnConnEvent
<1>8. e.kind \in {"Established", "Message", "Closed"} /\ OnConnEvent(e) =>
         \/ Ignored
         \/ /\ e.id \in DOMAIN by_id
            /\ \/ e.kind = "Established" /\ OnEstablished(by_id[e.id])
               \/ e.kind = "Message" /\ OnMessage(by_id[e.id])
               \/ e.kind = "Closed" /\ OnClosed(e, by_id[e.id])
  BY DEF OnConnEvent
<1>9. \/ OnOpened(e) /\ e.kind = "Opened"
      \/ (Ignored \/ OnListenerStopped(e)) /\ e.kind \notin {"SasRequired", "Opened"}
      \/ /\ e.kind = "SasRequired"
         /\ e.id \in DOMAIN by_id => OnSasRequired(e, by_id[e.id])
         /\ e.id \notin DOMAIN by_id => Ignored
      \/ /\ e.id \in DOMAIN by_id
         /\ \/ e.kind = "Established" /\ OnEstablished(by_id[e.id])
            \/ e.kind = "Message" /\ OnMessage(by_id[e.id])
            \/ e.kind = "Closed" /\ OnClosed(e, by_id[e.id])
  BY <1>6, <1>7, <1>8 DEF OnConnEvent
<1>10. /\ seen' = seen /\ approved' = approved /\ answered \subseteq answered'
       /\ \/ conns' = conns
          \/ \E x : conns' = TrySend(x, "Reject")
  BY <1>9 DEF OnOpened, Ignored, OnListenerStopped, OnSasRequired, OnEstablished, OnMessage,
              OnClosed, history
<1>11. /\ SameStages
       /\ \A c \in DOMAIN conns : Approving(conns'[c]) => Approving(conns[c])
  <2>1. CASE conns' = conns
    BY <2>1 DEF SameStages
  <2>2. ASSUME NEW x, conns' = TrySend(x, "Reject")
        PROVE  /\ SameStages
               /\ \A c \in DOMAIN conns : Approving(conns'[c]) => Approving(conns[c])
    BY <2>2, SendMoves DEF Shape, ConnCommand
  <2> QED BY <1>10, <2>1, <2>2
<1>12. Taken(e)
  BY <1>1, <1>2, <1>10, <1>11 DEF Taken
<1>13. Grown /\ Onward
  BY <1>10, <1>11, StagesStay DEF Grown
<1>14. Queue'
  BY <1>2, <1>3, <1>4, <1>13, QueueTaken
<1>15. Approvals'
  BY <1>3, <1>10, <1>11 DEF Approvals, SameStages
<1>16. NetsPast'
  BY <1>2, <1>3, <1>11 DEF NetsPast, SameStages
<1>17. Questions' /\ ConnectedWasApproved'
  <2>1. ASSUME UNCHANGED <<peers, sas, answered>>, e.kind \notin {"SasRequired", "Opened"}
        PROVE  Questions' /\ ConnectedWasApproved'
    <3>1. Prompts'
      BY <1>3, <1>12, <2>1, PromptsStay DEF Questions, Taken
    <3>2. \A c : /\ Asks(c)' <=> Asks(c)
                 /\ Met(c)' => Met(c)
                 /\ Shaking(c) => Shaking(c)'
      BY <2>1 DEF Asks, Met, Shaking
    <3>3. Questions'
      BY <1>3, <1>12, <2>1, <3>1, <3>2, QuestionsPassed
    <3>4. ConnectedWasApproved'
      BY <1>3, <1>10, <2>1 DEF ConnectedWasApproved
    <3> QED BY <3>3, <3>4
  <2>2. CASE OnOpened(e) /\ e.kind = "Opened"
    <3>1. Questions'
      BY <1>3, <1>12, <2>2, TakesOpened
    <3>2. ConnectedWasApproved'
      <4> DEFINE r == [id |-> e.id, handle |-> e.from, status |-> "Handshaking",
                       unread |-> FALSE]
      <4>1. peers' = With(peers, next_label + 1, r) /\ r.status # "Connected"
        BY <2>2 DEF OnOpened
      <4> HIDE DEF r
      <4> QED BY <1>3, <1>10, <4>1 DEF ConnectedWasApproved, With
    <3> QED BY <3>1, <3>2
  <2>3. CASE (Ignored \/ OnListenerStopped(e)) /\ e.kind \notin {"SasRequired", "Opened"}
    BY <2>1, <2>3 DEF Ignored, OnListenerStopped, table, history
  <2>4. CASE e.kind = "SasRequired" /\ (e.id \in DOMAIN by_id => OnSasRequired(e, by_id[e.id]))
    <3>1. OnSasRequired(e, by_id[e.id])
      BY <1>3, <1>12, <2>4, AskerIsShaking
    <3>2. Questions'
      BY <1>3, <1>5, <1>12, <2>4, <3>1, TakesQuestion
    <3>3. ConnectedWasApproved'
      BY <1>3, <1>10, <3>1 DEF ConnectedWasApproved, OnSasRequired, table
    <3> QED BY <3>2, <3>3
  <2>5. CASE /\ e.id \in DOMAIN by_id
             /\ e.kind = "Established" /\ OnEstablished(by_id[e.id])
    BY <1>3, <1>12, <2>5, TakesEstablished
  <2>6. CASE e.id \in DOMAIN by_id /\ e.kind = "Message" /\ OnMessage(by_id[e.id])
    <3>1. PICK l : l = by_id[e.id]
      OBVIOUS
    <3>2. l \in DOMAIN peers /\ \A m \in DOMAIN peers : peers[m] \in PeerRec
      BY <2>6, <3>1 DEF TableInv, Table
    <3>3. /\ peers' = [peers EXCEPT ![l].unread = (@ \/ mode # l)]
          /\ UNCHANGED <<sas, answered, seen>>
      BY <2>6, <3>1 DEF OnMessage, history
    <3>4. /\ DOMAIN peers' = DOMAIN peers
          /\ \A m \in DOMAIN peers : /\ peers'[m].handle = peers[m].handle
                                     /\ peers'[m].id = peers[m].id
                                     /\ peers'[m].status = peers[m].status
      BY <3>2, <3>3 DEF PeerRec
    <3>5. Prompts'
      BY <1>3, <3>3, <3>4, PromptsStay DEF Questions
    <3>6. \A c : /\ Asks(c)' <=> Asks(c)
                 /\ Met(c)' => Met(c)
                 /\ Shaking(c) => Shaking(c)'
      BY <3>3, <3>4 DEF Asks, Met, Shaking
    <3>7. Questions'
      BY <1>3, <1>12, <2>6, <3>3, <3>5, <3>6, QuestionsPassed
    <3>8. ConnectedWasApproved'
      BY <1>3, <1>10, <3>4 DEF ConnectedWasApproved
    <3> QED BY <3>7, <3>8
  <2>7. CASE e.id \in DOMAIN by_id /\ e.kind = "Closed" /\ OnClosed(e, by_id[e.id])
    <3>1. Questions'
      BY <1>3, <1>12, <2>7, TakesClosed
    <3>2. \/ peers' = [peers EXCEPT ![by_id[e.id]].status = "Closed"]
          \/ peers' = Without(peers, by_id[e.id])
      BY <2>7 DEF OnClosed
    <3>3. \A m \in DOMAIN peers : peers[m] \in PeerRec
      BY DEF TableInv, Table
    <3>4. \A m \in DOMAIN peers' :
             m \in DOMAIN peers /\ (peers'[m].status = "Connected" => peers'[m] = peers[m])
      BY <3>2, <3>3 DEF Without, PeerRec
    <3>5. ConnectedWasApproved'
      BY <1>3, <1>10, <3>4 DEF ConnectedWasApproved
    <3> QED BY <3>1, <3>5
  <2> QED BY <1>9, <2>2, <2>3, <2>4, <2>5, <2>6, <2>7
<1> QED BY <1>14, <1>15, <1>16, <1>17 DEF PromptInv

-----------------------------------------------------------------------------
(* What the user does.                                                     *)

\* Every step of a task or of a listener.
LEMMA PromptNetStep ==
    ASSUME Shape, TableInv, PromptInv, NetNext, Progress, UNCHANGED appVars
    PROVE  PromptInv'
<1>1. NetMove
  BY NetMoves DEF PromptInv
<1> QED BY <1>1, PromptMoveStep

\* A dial begins.
LEMMA PromptConnectStep ==
    ASSUME Shape, TableInv, PromptInv, Connect, Progress
    PROVE  PromptInv'
<1> DEFINE r == Connection(net, 0, TRUE, "Dialing")
<1>1. /\ conns' = Append(conns, r) /\ net' = net /\ listeners' = listeners /\ events' = events
      /\ UNCHANGED appVars
  BY DEF Connect, dial
<1>2. r.net = net /\ r.stage = "Dialing" /\ r.control = <<>>
  BY DEF Connection
<1> HIDE DEF r
<1>3. conns \in Seq(ConnRec) /\ net \in Nat
  BY NetBounds DEF Shape, ConnInv
<1>4. /\ DOMAIN conns' = DOMAIN conns \cup {Len(conns) + 1}
      /\ conns'[Len(conns) + 1] = r
      /\ \A d \in DOMAIN conns : conns'[d] = conns[d]
  BY <1>1, <1>3
<1>5. NetsPast
  BY DEF PromptInv
<1>6. \A d \in DOMAIN conns : Quiet(conns[d], conns'[d])
  BY <1>4 DEF Quiet, Follows
<1>7. \A d \in DOMAIN conns' : conns'[d].net <= net
  BY <1>2, <1>3, <1>4, <1>5 DEF NetsPast
<1>8. \A d \in DOMAIN conns' \ DOMAIN conns :
          conns'[d].stage \in {"Dialing", "New"} /\ conns'[d].control = <<>>
  BY <1>2, <1>4
<1>9. NetMove
  BY <1>1, <1>4, <1>5, <1>6, <1>7, <1>8 DEF NetMove, Onward, Quiet, NetsPast
<1> QED BY <1>1, <1>9, PromptMoveStep

\* The queue of events and the connections stay where they are.
Standing ==
    /\ SameStages /\ net' = net /\ events' = events /\ Grown
    /\ \A l \in DOMAIN listeners' : listeners'[l].net <= net

\* Then only prompts, answers and peers matter.
LEMMA PromptStands ==
    ASSUME Shape, TableInv, PromptInv, Progress, Standing,
           ConnectedWasApproved', Approvals', Serving' => Questions'
    PROVE  PromptInv'
<1>1. Onward
  BY StagesStay DEF Standing
<1>2. Queue'
  BY <1>1, QueueKept DEF Standing, PromptInv
<1>3. NetsPast'
  BY DEF Standing, SameStages, NetsPast, PromptInv
<1> QED BY <1>2, <1>3 DEF PromptInv

\* Nothing is asked or answered anew, so the questions are those of before.
LEMMA QuestionsStand ==
    ASSUME Questions, Standing, Prompts',
           \A c : (Asks(c)' \/ c \in answered') <=> (Asks(c) \/ c \in answered),
           \A c : ~(Asks(c)' /\ c \in answered'),
           \A c : Met(c)' => Met(c),
           \A c : Shaking(c) => Shaking(c)'
    PROVE  Questions'
<1>1. \A kind, c : Told(kind, c)' <=> Told(kind, c)
  BY DEF Told, Standing
<1>2. AtMostOne /\ AtLeastOne /\ Introduced
  BY DEF Questions
<1>3. /\ DOMAIN conns' = DOMAIN conns /\ net' = net /\ events' = events
      /\ \A c \in DOMAIN conns : /\ HasAsked(conns'[c]) <=> HasAsked(conns[c])
                                 /\ Pending(conns'[c]) <=> Pending(conns[c])
                                 /\ conns'[c].stage = conns[c].stage
                                 /\ conns'[c].net = conns[c].net
  BY StagesStay DEF Standing, SameStages
<1>4. AtMostOne'
  BY <1>1, <1>2, <1>3 DEF AtMostOne
<1>5. AtLeastOne'
  BY <1>1, <1>2, <1>3 DEF AtLeastOne
<1>6. ASSUME NEW i \in DOMAIN events', NEW c, c = events'[i].from,
             events'[i].kind = "SasRequired"
      PROVE  \/ \E x \in DOMAIN events' : x < i /\ IsEvent(events'[x], "Opened", c)
             \/ Shaking(c)'
  <2>1. \/ \E x \in DOMAIN events : x < i /\ IsEvent(events[x], "Opened", c)
        \/ Shaking(c)
    BY <1>2, <1>3, <1>6 DEF Introduced
  <2> QED BY <1>3, <2>1
<1>7. ASSUME NEW c \in DOMAIN conns', conns'[c].net = net', conns'[c].stage = "Opened"
      PROVE  Told("Opened", c)' \/ Shaking(c)'
  BY <1>1, <1>2, <1>3, <1>7 DEF Introduced
<1>8. Introduced'
  BY <1>6, <1>7 DEF Introduced, Shaking
<1> QED BY <1>4, <1>5, <1>8 DEF Questions

\* Prompts, answers and approvals are left alone, and no peer that handshakes is.
LEMMA PromptIdle ==
    ASSUME Shape, TableInv, PromptInv, Progress, Standing,
           \A c \in DOMAIN conns : Approving(conns'[c]) => Approving(conns[c]),
           UNCHANGED <<sas, seen, answered, approved>>,
           \A l \in DOMAIN peers' :
              /\ l \in DOMAIN peers /\ peers'[l].handle = peers[l].handle
              /\ peers'[l].status = "Connected" => peers[l].status = "Connected",
           Serving' => Serving,
           Serving' => \A l \in DOMAIN peers : peers[l].status = "Handshaking" =>
              /\ l \in DOMAIN peers' /\ peers'[l].id = peers[l].id
              /\ peers'[l].status = "Handshaking"
    PROVE  PromptInv'
<1>1. ConnectedWasApproved'
  BY DEF PromptInv, ConnectedWasApproved
<1>2. Approvals'
  BY DEF PromptInv, Approvals, Standing, SameStages
<1>3. ASSUME Serving' PROVE Questions'
  <2>1. Questions
    BY <1>3 DEF PromptInv
  <2>2. \A c : Asks(c)' <=> Asks(c)
    BY DEF Asks
  <2>3. ASSUME NEW l \in DOMAIN peers, Asks(peers[l].handle)
        PROVE  peers[l].status = "Handshaking"
    <3>1. PICK i \in DOMAIN sas : sas[i].words = peers[l].handle
      BY <2>3 DEF Asks
    <3>2. PromptTrue(sas[i])
      BY <2>1 DEF Questions, Prompts
    <3> QED BY <3>1, <3>2, OnePeer DEF PromptTrue
  <2>4. Prompts'
    BY <1>3, <2>1, <2>3, PromptsStay DEF Questions
  <2>5. \A c : Met(c)' => Met(c)
    BY DEF Met
  <2>6. \A c : Shaking(c) => Shaking(c)'
    BY <1>3 DEF Shaking
  <2>7. \A c : ~(Asks(c) /\ c \in answered)
    BY <2>1 DEF Questions, AtMostOne
  <2> QED BY <2>1, <2>2, <2>4, <2>5, <2>6, <2>7, QuestionsStand
<1> QED BY <1>1, <1>2, <1>3, PromptStands

\* The parts of a sequence that is not empty.
LEMMA FrontParts ==
    ASSUME NEW S, NEW s \in Seq(S), s # <<>>
    PROVE  /\ 1 \in DOMAIN s /\ s[1] \in S /\ Head(s) = s[1]
           /\ Tail(s) \in Seq(S) /\ Len(Tail(s)) <= Len(s)
           /\ \A i \in DOMAIN Tail(s) : i + 1 \in DOMAIN s /\ Tail(s)[i] = s[i + 1]
           /\ \A i \in DOMAIN s : i # 1 => i - 1 \in DOMAIN Tail(s) /\ Tail(s)[i - 1] = s[i]
           /\ \A i \in DOMAIN Tail(s) : i \in Nat /\ i + 1 # 1
<1>1. Len(s) \in Nat \ {0} /\ DOMAIN s = 1..Len(s)
  OBVIOUS
<1>2. /\ Tail(s) \in Seq(S) /\ Len(Tail(s)) = Len(s) - 1 /\ DOMAIN Tail(s) = 1..(Len(s) - 1)
      /\ \A i \in 1..(Len(s) - 1) : Tail(s)[i] = s[i + 1]
  BY <1>1
<1>3. \A i \in 1..(Len(s) - 1) : i \in Nat /\ i + 1 \in 1..Len(s) /\ i + 1 # 1
  BY <1>1
<1>4. ASSUME NEW i \in DOMAIN s, i # 1
      PROVE  i - 1 \in 1..(Len(s) - 1) /\ s[(i - 1) + 1] = s[i]
  BY <1>1, <1>4
<1>5. 1 \in DOMAIN s /\ s[1] \in S /\ Head(s) = s[1] /\ Len(s) - 1 <= Len(s)
  BY <1>1
<1> QED BY <1>1, <1>2, <1>3, <1>4, <1>5

\* The user types: the words that count are those shown at the first letter.
LEMMA PromptTypeStep ==
    ASSUME Shape, TableInv, PromptInv, Progress, TypeAnswer
    PROVE  PromptInv'
<1>1. PICK typed \in Typing : sas' = [sas EXCEPT ![1].typed = typed]
  BY Zenon DEF TypeAnswer, Typing
<1>2. /\ phase = "Running" /\ sas # <<>>
      /\ seen' = IF sas[1].typed = "" THEN sas[1].words ELSE seen
      /\ UNCHANGED <<net, next_id, permits, conns, listeners, events, phase, peers,
                     answered, approved>>
  <2>1. Head(sas) = sas[1]
    OBVIOUS
  <2> QED BY <2>1, Zenon DEF TypeAnswer, netVars, table
<1>3. Questions
  BY <1>2 DEF PromptInv, Serving
<1>4. /\ sas \in Seq(PromptRec)
      /\ \A i \in DOMAIN sas : PromptTrue(sas[i])
      /\ \A i, j \in DOMAIN sas : sas[i].words = sas[j].words => i = j
      /\ Len(sas) <= MAX_UNAUTHENTICATED_HANDSHAKES
      /\ Typed
  BY <1>3 DEF Questions, Prompts
<1>5. 1 \in DOMAIN sas /\ sas[1] \in PromptRec
  BY <1>2, <1>4, FrontParts
<1> DEFINE r == [sas[1] EXCEPT !.typed = typed]
<1>6. /\ r \in PromptRec /\ r.typed = typed
      /\ r.words = sas[1].words /\ r.label = sas[1].label /\ r.id = sas[1].id
  <2> HIDE DEF PromptRec
  <2> QED BY <1>5 DEF PromptRec
<1>7. sas' = [sas EXCEPT ![1] = r]
  BY <1>1
<1> HIDE DEF r
<1>8. /\ sas' \in Seq(PromptRec) /\ Len(sas') = Len(sas) /\ DOMAIN sas' = DOMAIN sas
      /\ sas'[1] = r /\ \A i \in DOMAIN sas : i # 1 => sas'[i] = sas[i]
  BY <1>4, <1>5, <1>6, <1>7
<1>9. ASSUME NEW i \in DOMAIN sas' PROVE PromptTrue(sas[i])'
  <2>1. PICK p : p = sas'[i]
    OBVIOUS
  <2>2. PromptTrue(p)
    BY <1>4, <1>5, <1>6, <1>8, <2>1 DEF PromptTrue
  <2> QED BY <1>2, <2>1, <2>2 DEF PromptTrue
<1>10. \A i \in DOMAIN sas : sas'[i].words = sas[i].words
  BY <1>6, <1>8
<1>11. ASSUME NEW i \in DOMAIN sas', sas'[i].typed # "" PROVE i = 1 /\ seen' = sas'[i].words
  <2>1. CASE i # 1
    BY <1>4, <1>8, <1>11, <2>1, Zenon DEF Typed
  <2>2. CASE i = 1
    <3>1. sas[1].typed # "" => seen = sas[1].words
      BY <1>4, <1>5, Zenon DEF Typed
    <3>2. seen' = sas[1].words
      BY <1>2, <3>1, Zenon
    <3> QED BY <1>5, <1>10, <2>2, <3>2
  <2> QED BY <2>1, <2>2
<1>12. Typed'
  BY <1>11, Zenon DEF Typed
<1>13. Prompts'
  BY <1>4, <1>8, <1>9, <1>10, <1>12 DEF Prompts
<1>14. Standing
  BY <1>2 DEF Standing, SameStages, Grown, PromptInv, NetsPast
<1>15. \A c : /\ Asks(c)' <=> Asks(c)
              /\ Met(c)' <=> Met(c)
              /\ Shaking(c)' <=> Shaking(c)
  BY <1>2, <1>8, <1>10 DEF Asks, Met, Shaking
<1>16. \A c : ~(Asks(c) /\ c \in answered)
  BY <1>3 DEF Questions, AtMostOne
<1>17. Questions'
  BY <1>2, <1>3, <1>13, <1>14, <1>15, <1>16, QuestionsStand
<1>18. ConnectedWasApproved' /\ Approvals'
  BY <1>2 DEF PromptInv, ConnectedWasApproved, Approvals
<1> QED BY <1>14, <1>17, <1>18, PromptStands

\* The prompt in front is answered; its words are those that were shown.
LEMMA PromptAnswerStep ==
    ASSUME Shape, TableInv, PromptInv, Progress, NEW approve \in BOOLEAN, AnswerSas(approve),
           approve => Begun(Head(sas))
    PROVE  PromptInv'
<1>1. PICK p : p = sas[1]
  OBVIOUS
<1>2. /\ phase = "Running" /\ sas # <<>> /\ sas' = Tail(sas)
      /\ approved' = IF approve THEN approved \cup {seen} ELSE approved
      /\ UNCHANGED <<net, listeners, events, phase, peers, seen>>
  BY DEF AnswerSas, Answered, table
<1>3. Questions
  BY <1>2 DEF PromptInv, Serving
<1>4. /\ sas \in Seq(PromptRec)
      /\ \A i \in DOMAIN sas : PromptTrue(sas[i])
      /\ \A i, j \in DOMAIN sas : sas[i].words = sas[j].words => i = j
      /\ Len(sas) <= MAX_UNAUTHENTICATED_HANDSHAKES
      /\ Typed
  BY <1>3 DEF Questions, Prompts
<1>5. /\ 1 \in DOMAIN sas /\ Head(sas) = p
      /\ sas' \in Seq(PromptRec) /\ Len(sas') <= Len(sas)
      /\ \A i \in DOMAIN sas' : i \in Nat /\ i + 1 \in DOMAIN sas /\ sas'[i] = sas[i + 1]
                                /\ i + 1 # 1
      /\ \A i \in DOMAIN sas : i # 1 => i - 1 \in DOMAIN sas' /\ sas'[i - 1] = sas[i]
  BY <1>1, <1>2, <1>4, FrontParts
<1>6. PromptTrue(p)
  BY <1>1, <1>4, <1>5
<1>7. /\ p.label \in DOMAIN peers /\ peers[p.label].handle = p.words
  BY <1>6 DEF PromptTrue
<1>8. /\ conns' = TrySend(p.words, IF approve THEN "Approve" ELSE "Reject")
      /\ answered' = answered \cup {p.words}
  BY <1>2, <1>5, <1>7 DEF AnswerSas
<1>9. approve => seen = p.words
  <2>1. approve => Begun(p)
    BY <1>5
  <2> QED BY <1>1, <1>4, <1>5, <2>1, Zenon DEF Typed, Begun
<1>10. /\ SameStages
       /\ \A c \in DOMAIN conns :
             Approving(conns'[c]) => Approving(conns[c]) \/ (c = p.words /\ approve)
  <2>1. PICK command \in ConnCommand :
            /\ command = IF approve THEN "Approve" ELSE "Reject"
            /\ conns' = TrySend(p.words, command)
    BY <1>8 DEF ConnCommand
  <2> QED BY <2>1, SendMoves DEF Shape
<1>11. Standing
  BY <1>2, <1>8, <1>10 DEF Standing, Grown, PromptInv, NetsPast
<1>12. Approvals'
  BY <1>2, <1>8, <1>9, <1>10 DEF PromptInv, Approvals, SameStages
<1>13. ConnectedWasApproved'
  BY <1>2 DEF PromptInv, ConnectedWasApproved
<1>14. \A c : Asks(c) <=> Asks(c)' \/ c = p.words
  BY <1>1, <1>5 DEF Asks
<1>15. ~Asks(p.words)'
  BY <1>1, <1>4, <1>5 DEF Asks
<1>16. ASSUME NEW i \in DOMAIN sas' PROVE PromptTrue(sas[i])'
  <2>1. PICK q : q = sas'[i]
    OBVIOUS
  <2>2. PromptTrue(q)
    BY <1>4, <1>5, <2>1
  <2> QED BY <1>2, <2>1, <2>2 DEF PromptTrue
<1>17. Typed'
  <2>1. ASSUME NEW i \in DOMAIN sas', sas'[i].typed # "" PROVE FALSE
    <3>1. PICK k \in DOMAIN sas : k # 1 /\ sas'[i] = sas[k]
      BY <1>5
    <3> QED BY <1>4, <2>1, <3>1, Zenon DEF Typed
  <2> QED BY <2>1, Zenon DEF Typed
<1>18. \A i, j \in DOMAIN sas' : sas'[i].words = sas'[j].words => i = j
  <2> SUFFICES ASSUME NEW i \in DOMAIN sas', NEW j \in DOMAIN sas',
                      sas'[i].words = sas'[j].words
               PROVE  i = j
    OBVIOUS
  <2>1. PICK k \in DOMAIN sas : k = i + 1 /\ sas'[i] = sas[k]
    BY <1>5
  <2>2. PICK l \in DOMAIN sas : l = j + 1 /\ sas'[j] = sas[l]
    BY <1>5
  <2>3. k = l
    BY <1>4, <2>1, <2>2
  <2>4. i \in Nat /\ j \in Nat
    BY <1>5
  <2> QED BY <2>1, <2>2, <2>3, <2>4
<1>19. Prompts'
  <2>1. Len(sas) \in Nat /\ Len(sas') \in Nat
    BY <1>4, <1>5
  <2>2. Len(sas') <= MAX_UNAUTHENTICATED_HANDSHAKES
    BY <1>4, <1>5, <2>1, NetBounds
  <2> QED BY <1>5, <1>16, <1>17, <1>18, <2>2 DEF Prompts
<1>20. \A c : (Asks(c)' \/ c \in answered') <=> (Asks(c) \/ c \in answered)
  BY <1>8, <1>14
<1>21. \A c : ~(Asks(c)' /\ c \in answered')
  <2>1. \A c : ~(Asks(c) /\ c \in answered)
    BY <1>3 DEF Questions, AtMostOne
  <2> QED BY <1>8, <1>14, <1>15, <2>1
<1>22. \A c : (Met(c)' => Met(c)) /\ (Shaking(c) => Shaking(c)')
  BY <1>2 DEF Met, Shaking
<1>23. Questions'
  BY <1>3, <1>11, <1>19, <1>20, <1>21, <1>22, QuestionsStand
<1> QED BY <1>11, <1>12, <1>13, <1>23, PromptStands

\* No connection and no answer changes by the commands of the REPL and the chat.
LEMMA PromptCommandStep ==
    ASSUME Shape, TableInv, PromptInv, Progress,
           \/ Start \/ Stop \/ LeaveChat \/ SwitchProfile \/ LoadFails
           \/ \E label \in DOMAIN peers :
                 UseTarget(label) \/ CloseSession(label) \/ RequestRekey(label)
                    \/ TryEnterChat(label)
    PROVE  PromptInv'
<1>1. /\ NetsPast
      /\ net \in Nat /\ listeners \in Seq(ListenerRec)
      /\ \A l \in DOMAIN peers : peers[l] \in PeerRec
  BY NetBounds DEF PromptInv, Shape, TableInv, Table
<1>2. ASSUME UNCHANGED <<net, conns, events, peers, sas, seen, answered, approved>>,
             Serving' => Serving,
             \A l \in DOMAIN listeners' : listeners'[l].net <= net
      PROVE  PromptInv'
  <2>1. Standing
    BY <1>2 DEF Standing, SameStages, Grown
  <2>2. \A c \in DOMAIN conns : Approving(conns'[c]) => Approving(conns[c])
    BY <1>2
  <2> QED BY <1>2, <2>1, <2>2, PromptIdle
<1>3. CASE Start
  <2> DEFINE r == [net |-> net, state |-> "Accepting", failures |-> 0]
  <2>1. listeners' = Append(listeners, r) /\ r.net = net
    BY <1>3 DEF Start, listen
  <2> HIDE DEF r
  <2>2. \A l \in DOMAIN listeners' : listeners'[l] = r
                                     \/ (l \in DOMAIN listeners /\ listeners'[l] = listeners[l])
    BY <1>1, <2>1
  <2>3. \A l \in DOMAIN listeners' : listeners'[l].net <= net
    BY <1>1, <2>1, <2>2 DEF NetsPast
  <2>4. UNCHANGED <<net, conns, events, phase, peers, sas, seen, answered, approved>>
    BY <1>3 DEF Start, table, history
  <2> QED BY <1>2, <2>3, <2>4 DEF Serving
<1>4. CASE Stop
  <2>1. listeners' = [listeners EXCEPT ![listener].state = "Ended"]
    BY <1>4 DEF Stop, Stopped
  <2>2. DOMAIN listeners' = DOMAIN listeners
        /\ \A l \in DOMAIN listeners : listeners'[l].net = listeners[l].net
    BY <1>1, <2>1 DEF ListenerRec
  <2>3. \A l \in DOMAIN listeners' : listeners'[l].net <= net
    BY <1>1, <2>2 DEF NetsPast
  <2>4. UNCHANGED <<net, conns, events, phase, peers, sas, seen, answered, approved>>
    BY <1>4 DEF Stop, table, history
  <2> QED BY <1>2, <2>3, <2>4 DEF Serving
<1>5. CASE SwitchProfile \/ LoadFails
  <2>1. /\ UNCHANGED <<net, conns, events, peers, sas, seen, answered, approved, listeners>>
        /\ Serving
    BY <1>5 DEF SwitchProfile, LoadFails, AtRepl, netVars, table, history, Serving
  <2> QED BY <1>1, <1>2, <2>1 DEF NetsPast
<1>6. ASSUME NEW label \in DOMAIN peers, UseTarget(label) PROVE PromptInv'
  <2>1. /\ UNCHANGED <<net, conns, events, peers, sas, seen, answered, approved, listeners>>
        /\ Serving
    BY <1>6 DEF UseTarget, AtRepl, netVars, history, Serving
  <2> QED BY <1>1, <1>2, <2>1 DEF NetsPast
<1>7. ASSUME NEW label \in DOMAIN peers, CloseSession(label) \/ RequestRekey(label)
      PROVE  PromptInv'
  <2>1. PICK command \in {"Close", "Rekey"} : conns' = TrySend(peers[label].handle, command)
    BY <1>7 DEF CloseSession, RequestRekey
  <2>2. /\ UNCHANGED <<net, events, phase, peers, sas, seen, answered, approved, listeners>>
    BY <1>7 DEF CloseSession, RequestRekey, appVars
  <2>3. /\ SameStages
        /\ \A c \in DOMAIN conns : Approving(conns'[c]) => Approving(conns[c])
    BY <2>1, SendMoves DEF Shape, ConnCommand
  <2>4. Standing
    BY <1>1, <2>2, <2>3 DEF Standing, Grown, NetsPast
  <2> QED BY <2>2, <2>3, <2>4, PromptIdle DEF Serving
<1>8. ASSUME NEW label \in DOMAIN peers, TryEnterChat(label) PROVE PromptInv'
  <2>1. /\ UNCHANGED <<net, conns, events, phase, sas, seen, answered, approved, listeners>>
        /\ peers' = [peers EXCEPT ![label].unread = FALSE]
    BY <1>8 DEF TryEnterChat, netVars, history
  <2>2. /\ DOMAIN peers' = DOMAIN peers
        /\ \A l \in DOMAIN peers : /\ peers'[l].handle = peers[l].handle
                                   /\ peers'[l].id = peers[l].id
                                   /\ peers'[l].status = peers[l].status
    BY <1>1, <2>1 DEF PeerRec
  <2>3. Standing
    BY <1>1, <2>1 DEF Standing, SameStages, Grown, NetsPast
  <2>4. \A c \in DOMAIN conns : Approving(conns'[c]) => Approving(conns[c])
    BY <2>1
  <2> QED BY <2>1, <2>2, <2>3, <2>4, PromptIdle DEF Serving
<1>9. CASE LeaveChat
  <2>1. /\ UNCHANGED <<net, conns, events, phase, sas, seen, answered, approved, listeners>>
        /\ peers' = peers \/ (ForgetsClosed(mode) /\ peers' = Without(peers, mode))
    BY <1>9 DEF LeaveChat, netVars, history
  <2>2. /\ \A l \in DOMAIN peers' : l \in DOMAIN peers /\ peers'[l] = peers[l]
        /\ \A l \in DOMAIN peers : peers[l].status = "Handshaking" => l \in DOMAIN peers'
    BY <2>1 DEF Without, ForgetsClosed
  <2>3. Standing
    BY <1>1, <2>1 DEF Standing, SameStages, Grown, NetsPast
  <2>4. \A c \in DOMAIN conns : Approving(conns'[c]) => Approving(conns[c])
    BY <2>1
  <2> QED BY <2>1, <2>2, <2>3, <2>4, PromptIdle DEF Serving
<1> QED BY <1>3, <1>4, <1>5, <1>6, <1>7, <1>8, <1>9

\* Another identity begins with an empty table and an empty queue.
LEMMA PromptInstallStep ==
    ASSUME Shape, TableInv, PromptInv, InstallIdentity
    PROVE  PromptInv'
<1>1. /\ phase = "Loading" /\ net' = net + 1 /\ events' = <<>>
      /\ UNCHANGED <<conns, listeners, peers, sas, seen, answered, approved>>
  BY DEF InstallIdentity, table, history
<1>2. /\ NetsPast /\ Approvals /\ ConnectedWasApproved /\ Questions
      /\ DOMAIN peers = {} /\ net \in Nat
      /\ listeners \in Seq(ListenerRec)
      /\ conns \in Seq(ConnRec)
  BY <1>1, NetBounds DEF PromptInv, Serving, TableInv, Shape, ConnInv
<1>3. /\ \A c \in DOMAIN conns : conns[c].net \in Nat
      /\ \A l \in DOMAIN listeners : listeners[l].net \in Nat
  <2>1. \A c \in DOMAIN conns : conns[c] \in ConnRec
    BY <1>2
  <2>2. \A l \in DOMAIN listeners : listeners[l] \in ListenerRec
    BY <1>2
  <2> QED BY <2>1, <2>2 DEF ConnRec, ListenerRec, Nets
<1>4. NetsPast' /\ \A c \in DOMAIN conns' : conns'[c].net # net'
  <2>1. \A n \in Nat : n <= net => n <= net + 1 /\ n # net + 1
    BY <1>2
  <2> QED BY <1>1, <1>2, <1>3, <2>1 DEF NetsPast
<1>5. DOMAIN events' = {}
  BY <1>1
<1>6. Queue'
  BY <1>5 DEF Queue, AsksOnce
<1>7. \A kind, c : ~Told(kind, c)'
  BY <1>5 DEF Told
<1>8. DOMAIN sas = {} /\ DOMAIN sas' = {}
  BY <1>1, <1>2 DEF Questions, Prompts, PromptTrue
<1>9. Prompts'
  BY <1>1, <1>2, <1>8 DEF Questions, Prompts, Typed
<1>10. AtMostOne' /\ AtLeastOne'
  <2>1. \A c : ~Asks(c)' /\ ~Asks(c) /\ ~Met(c)'
    BY <1>1, <1>2, <1>8 DEF Asks, Met
  <2>2. AtMostOne'
    BY <1>1, <1>2, <1>7, <2>1 DEF Questions, AtMostOne
  <2>3. AtLeastOne'
    BY <1>7, <2>1 DEF AtLeastOne
  <2> QED BY <2>2, <2>3
<1>11. Introduced'
  BY <1>4, <1>5 DEF Introduced
<1>12. Approvals' /\ ConnectedWasApproved'
  BY <1>1, <1>2 DEF Approvals, ConnectedWasApproved
<1> QED BY <1>4, <1>6, <1>9, <1>10, <1>11, <1>12 DEF PromptInv, Questions

\* Shutdown: the prompts do not matter any more.
LEMMA PromptStopStep ==
    ASSUME Shape, TableInv, PromptInv, Progress, Quit \/ AwaitClosed \/ Exit
    PROVE  PromptInv'
<1>1. /\ NetsPast
      /\ listeners \in Seq(ListenerRec) /\ events \in Seq(EventRec)
      /\ \A l \in DOMAIN peers : peers[l] \in PeerRec
  BY DEF PromptInv, Shape, TableInv, Table, OpenedOnce
<1>2. CASE Quit
  <2>1. /\ UNCHANGED <<net, events, peers, sas, seen, answered, approved>>
        /\ phase' = "Stopping"
        /\ listeners' = listeners \/ listeners' = [listeners EXCEPT ![listener].state = "Ended"]
        /\ conns' = [c \in DOMAIN conns |->
                        IF AskedToClose(c) THEN TrySend(c, "Close")[c] ELSE conns[c]]
    BY <1>2 DEF Quit, Stopped, table, history
  <2>2. ASSUME NEW c \in DOMAIN conns
        PROVE  /\ conns'[c].stage = conns[c].stage /\ conns'[c].net = conns[c].net
               /\ Approving(conns'[c]) => Approving(conns[c])
    <3>1. conns[c] \in ConnRec /\ conns[c].control \in Seq(ConnCommand)
      BY ConnFields DEF Shape
    <3>2. PICK r : r = [conns[c] EXCEPT !.control = Append(@, "Close")]
      OBVIOUS
    <3>3. conns'[c] = conns[c] \/ conns'[c] = r
      BY <2>1, <3>2 DEF TrySend, Shape, ConnInv
    <3>4. /\ r.stage = conns[c].stage /\ r.net = conns[c].net
          /\ r.control = Append(conns[c].control, "Close")
      BY <3>1, <3>2 DEF ConnRec
    <3>5. \A i \in DOMAIN Append(conns[c].control, "Close") :
             \/ i \in DOMAIN conns[c].control
                /\ Append(conns[c].control, "Close")[i] = conns[c].control[i]
             \/ Append(conns[c].control, "Close")[i] = "Close"
      BY <3>1
    <3>6. Approving(r) => Approving(conns[c])
      BY <3>4, <3>5 DEF Approving
    <3> QED BY <3>3, <3>4, <3>6
  <2>3. DOMAIN listeners' = DOMAIN listeners
        /\ \A l \in DOMAIN listeners : listeners'[l].net = listeners[l].net
    <3>1. CASE listeners' = listeners
      BY <3>1
    <3>2. CASE listeners' = [listeners EXCEPT ![listener].state = "Ended"]
      BY <1>1, <3>2 DEF ListenerRec
    <3> QED BY <2>1, <3>1, <3>2
  <2>4. Standing
    BY <1>1, <2>1, <2>2, <2>3 DEF Standing, SameStages, Grown, NetsPast
  <2>5. ~Serving'
    BY <2>1 DEF Serving
  <2> QED BY <2>1, <2>2, <2>4, <2>5, PromptIdle
<1>3. CASE AwaitClosed
  <2>1. /\ UNCHANGED <<net, conns, listeners, sas, seen, answered, approved>>
        /\ phase' = "Stopping" /\ events # <<>> /\ events' = Tail(events)
    BY <1>3 DEF AwaitClosed, history
  <2>2. PICK e : e = Head(events)
    OBVIOUS
  <2>3. \/ peers' = peers
        \/ peers' = [peers EXCEPT ![by_id[e.id]].status = "Closed"]
    BY <1>3, <2>2 DEF AwaitClosed
  <2>4. \A l \in DOMAIN peers' :
              /\ l \in DOMAIN peers /\ peers'[l].handle = peers[l].handle
              /\ peers'[l].status = "Connected" => peers[l].status = "Connected"
    BY <1>1, <2>3 DEF PeerRec
  <2>5. SameStages /\ Grown /\ Onward
    <3>1. SameStages
      BY <2>1 DEF SameStages
    <3> QED BY <2>1, <3>1, StagesStay DEF Grown
  <2>6. Queue'
    BY <1>1, <2>1, <2>5, QueueTaken DEF PromptInv
  <2>7. Approvals' /\ NetsPast'
    BY <2>1 DEF PromptInv, Approvals, NetsPast
  <2>8. ConnectedWasApproved'
    BY <2>1, <2>4 DEF PromptInv, ConnectedWasApproved
  <2>9. ~Serving'
    BY <2>1 DEF Serving
  <2> QED BY <2>6, <2>7, <2>8, <2>9 DEF PromptInv
<1>4. CASE Exit
  <2>1. /\ UNCHANGED <<net, conns, listeners, events, seen, answered, approved>>
        /\ phase' = "Exited" /\ DOMAIN peers' = {}
    BY <1>4 DEF Exit, netVars, history
  <2>2. SameStages /\ Grown /\ Onward
    <3>1. SameStages
      BY <2>1 DEF SameStages
    <3> QED BY <2>1, <3>1, StagesStay DEF Grown
  <2>3. Queue'
    BY <2>1, <2>2, QueueKept DEF PromptInv
  <2>4. Approvals' /\ NetsPast'
    BY <2>1 DEF PromptInv, Approvals, NetsPast
  <2>5. ConnectedWasApproved' /\ ~Serving'
    BY <2>1 DEF ConnectedWasApproved, Serving
  <2> QED BY <2>3, <2>4, <2>5 DEF PromptInv
<1> QED BY <1>2, <1>3, <1>4

\* Initially there is no connection, no peer and no prompt.
LEMMA PromptInit == Init => PromptInv
<1> SUFFICES ASSUME Init PROVE PromptInv
  OBVIOUS
<1>1. /\ DOMAIN conns = {} /\ DOMAIN listeners = {} /\ DOMAIN events = {}
      /\ DOMAIN peers = {} /\ DOMAIN sas = {} /\ answered = {}
      /\ sas = <<>>
  BY DEF Init, NetInit
<1>2. Queue /\ Approvals /\ NetsPast /\ ConnectedWasApproved
  BY <1>1 DEF Queue, AsksOnce, Approvals, NetsPast, ConnectedWasApproved
<1>3. Prompts
  <2>1. sas \in Seq(PromptRec) /\ Len(sas) = 0
    BY <1>1
  <2> QED BY <1>1, <2>1, NetBounds DEF Prompts, Typed
<1>4. AtMostOne /\ AtLeastOne /\ Introduced
  BY <1>1 DEF AtMostOne, AtLeastOne, Introduced, Told, Asks
<1> QED BY <1>2, <1>3, <1>4 DEF PromptInv, Questions

\* Every step keeps the prompts and the answers exact.
LEMMA PromptNext ==
    ASSUME Shape, TableInv, PromptInv, [Next]_vars
    PROVE  PromptInv'
<1>1. Progress
  BY ShapeNext
<1>2. ASSUME Enter PROVE PromptInv'
  <2>1. PICK approve \in BOOLEAN :
            AnswerSas(approve) /\ (approve => Head(sas).typed = "yes")
    BY <1>2 DEF Enter
  <2>2. approve => Begun(Head(sas))
    BY <2>1, Zenon DEF Begun
  <2> QED BY <1>1, <2>1, <2>2, PromptAnswerStep
<1>3. ASSUME Escape PROVE PromptInv'
  BY <1>1, <1>3, PromptAnswerStep DEF Escape
<1>4. CASE UNCHANGED vars
  <2>1. UNCHANGED <<net, conns, listeners, events, phase, peers, sas, seen, answered, approved>>
    BY <1>4 DEF vars, netVars, appVars
  <2>2. Standing
    BY <2>1 DEF Standing, SameStages, Grown, PromptInv, NetsPast
  <2>3. \A c \in DOMAIN conns : Approving(conns'[c]) => Approving(conns[c])
    BY <2>1
  <2> QED BY <1>1, <2>1, <2>2, <2>3, PromptIdle DEF Serving
<1> QED
  BY <1>1, <1>2, <1>3, <1>4, PromptNetStep, PromptEventStep, PromptTypeStep, PromptConnectStep,
     PromptCommandStep, PromptInstallStep, PromptStopStep DEF Next

\* The prompts and the answers stay exact.
LEMMA PromptHolds == Spec => [](Shape /\ TableInv /\ PromptInv)
BY PromptInit, PromptNext, ShapeHolds, TableHolds, PTL DEF Spec

\* Each prompt on the screen asks about a peer that is still handshaking, every
\* connection that asked has its prompt or its answer and never both, and the
\* queue of prompts keeps its limit, while connections come and go.
THEOREM PromptsStayExact == Spec => []PromptsExact
<1>1. Shape /\ TableInv /\ PromptInv => PromptsExact
  BY PromptsFromInv
<1> QED BY <1>1, PromptHolds, PTL

\* A peer is shown as connected only if the user typed yes under its own words.
THEOREM ConnectedStaysApproved == Spec => []ConnectedWasApproved
<1>1. PromptInv => ConnectedWasApproved
  BY DEF PromptInv
<1> QED BY <1>1, PromptHolds, PTL
=============================================================================
