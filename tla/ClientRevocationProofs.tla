----------------------- MODULE ClientRevocationProofs -----------------------
(***************************************************************************)
(* What revocation promises, for every set of files, chains, connections   *)
(* and bounds, whatever is written, spoiled or half reloaded meanwhile.    *)
(*                                                                         *)
(* The argument: a list that some attempt has read was issued by the       *)
(* publisher of its path, and ends at most a validity period after the     *)
(* clock; so a list read before a certificate was named ends at most a     *)
(* validity period after the naming, and one read later names it.  The     *)
(* index keeps the earliest end of an issuer's lists, and every list is    *)
(* read before any is installed, so what was named stays named.            *)
(***************************************************************************)
EXTENDS ClientRevocation, WellFoundedInduction, TLAPS

Crl == [issuer : STRING, revoked : SUBSET Certs, next : Int]

(* A list the publisher of path p has issued so far. *)
Issued(d, p) ==
  /\ d.issuer = IssuerAt[p] /\ d.revoked \subseteq listed[p]
  /\ d.next \in Nat /\ d.next <= now + Validity

FilesInv ==
  /\ now \in Nat /\ writes \in Nat
  /\ listed \in [Paths -> SUBSET Certs]
  /\ \A p \in Paths : \A c \in listed[p] : IssuerOf[c] = IssuerAt[p]
  /\ file \in [Paths -> Crl \cup {Bad}]
  /\ \A p \in Paths : file[p] # Bad => Issued(file[p], p) /\ file[p].revoked = listed[p]
  /\ revokedAt \in [Certs -> Nat \cup {Unset}]

(* Gathering the lists; holding the whole set; having installed some of it. *)
Gathering == {"read", "gate", "built"}

Installing == {"indexed", "swapped"}

WorkInv ==
  /\ worker \in Gathering \cup Installing \cup {"sleep", "failed", "panicked", "gone"}
  /\ toRead \subseteq Paths
  /\ worker \in Gathering \cup Installing =>
       \A d \in got : d \in Crl /\ \E p \in Paths : Issued(d, p)
  /\ worker \in Gathering \cup Installing => \A p \in Paths \ toRead : \E d \in got : Issued(d, p)
  /\ worker \in {"gate", "built"} \cup Installing => toRead = {}

PostureInv ==
  /\ worker \in Installing => index = per_issuer(got)
  /\ worker = "swapped" => snapshot = got
  /\ worker \in Gathering \cup {"sleep", "failed"} => evidence = snapshot /\ index = per_issuer(snapshot)
  /\ snapshot \subseteq Crl /\ Bad \notin snapshot /\ Bad \notin evidence
  /\ stopped \in BOOLEAN /\ retired \in BOOLEAN
  /\ retired => stopped

IndexInv ==
  /\ DOMAIN index = {IssuerAt[p] : p \in Paths}
  /\ \A p \in Paths : index[IssuerAt[p]].next \in Nat /\ index[IssuerAt[p]].next <= now + Validity

(* The path whose list has named a certificate: what of it is installed,   *)
(* and what an attempt has read, names it or ends in time.                 *)
NamedBy(p, c) == p \in Paths /\ IssuerAt[p] = IssuerOf[c] /\ c \in listed[p]

Dated(c) ==
  \E p \in Paths :
    /\ NamedBy(p, c)
    /\ \/ c \in index[IssuerAt[p]].revoked
       \/ index[IssuerAt[p]].next <= revokedAt[c] + Validity
    /\ worker \in Gathering /\ p \notin toRead =>
         \E d \in got : Issued(d, p) /\ (c \in d.revoked \/ d.next <= revokedAt[c] + Validity)

Kept(c) ==
  \E p \in Paths :
    /\ NamedBy(p, c)
    /\ c \in index[IssuerAt[p]].revoked
    /\ worker \in Gathering /\ p \notin toRead => \E d \in got : Issued(d, p) /\ c \in d.revoked

NamedInv ==
  /\ \A c \in Certs : revokedAt[c] # Unset => Dated(c)
  /\ \A c \in enforced : Kept(c)

ConnState ==
  [at : {"closed", "hello", "open", "judge", "admitted"}, leaf : Leaves \cup {Unset},
   config : SUBSET Crl, t : Nat, known : SUBSET Certs]

ConnInv ==
  /\ conn \in [Conns -> ConnState]
  /\ \A k \in Conns :
       /\ conn[k].at # "closed" => conn[k].leaf \in Leaves
       /\ conn[k].t <= now /\ conn[k].known = {}
       /\ conn[k].at = "admitted" /\ revokedAt[conn[k].leaf] # Unset =>
            conn[k].t < revokedAt[conn[k].leaf] + Validity

IInv == FilesInv /\ WorkInv /\ PostureInv /\ IndexInv /\ NamedInv /\ ConnInv

----------------------------------------------------------------------------
(* A set of lists has an earliest end. *)
LEMMA Earliest ==
  ASSUME NEW S \in SUBSET Nat, S # {}
  PROVE  Min(S) \in S /\ \A j \in S : Min(S) <= j
<1>1. PICK i \in S : \A j \in S : ~(<<j, i>> \in OpToRel(<, Nat))
  BY NatLessThanWellFounded, WFMin
<1>2. \A j \in S : ~(j < i)
  BY <1>1 DEF OpToRel
<1>3. \A j \in S : i <= j
  BY <1>2
<1> QED
  BY <1>3 DEF Min

(* The index of a set of lists: what any of them names is revoked, and an  *)
(* issuer's status ends with the first of its lists.                       *)
LEMMA IndexOf ==
  ASSUME NEW S, \A d \in S : d.next \in Nat, NEW d \in S
  PROVE  /\ d.issuer \in DOMAIN per_issuer(S)
         /\ d.revoked \subseteq per_issuer(S)[d.issuer].revoked
         /\ per_issuer(S)[d.issuer].next \in Nat
         /\ per_issuer(S)[d.issuer].next <= d.next
<1> DEFINE N == {c.next : c \in {e \in S : e.issuer = d.issuer}}
<1>1. N \in SUBSET Nat /\ d.next \in N
  OBVIOUS
<1>2. Min(N) \in Nat /\ Min(N) <= d.next
  BY <1>1, Earliest
<1>3. d.issuer \in {c.issuer : c \in S}
  OBVIOUS
<1>4. DOMAIN per_issuer(S) = {c.issuer : c \in S}
  BY DEF per_issuer
<1>5. per_issuer(S)[d.issuer] =
        [revoked |-> UNION {c.revoked : c \in {e \in S : e.issuer = d.issuer}}, next |-> Min(N)]
  BY <1>3 DEF per_issuer
<1> HIDE DEF N
<1>6. per_issuer(S)[d.issuer].next = Min(N)
      /\ per_issuer(S)[d.issuer].revoked = UNION {c.revoked : c \in {e \in S : e.issuer = d.issuer}}
  BY <1>5
<1> QED
  BY <1>2, <1>3, <1>4, <1>6

(* Its issuers are those of its lists. *)
LEMMA IndexDomain == ASSUME NEW S PROVE DOMAIN per_issuer(S) = {d.issuer : d \in S}
BY DEF per_issuer

(* A leaf is a certificate. *)
LEMMA LeafIsCert == \A l \in Leaves : l \in Certs /\ Issuers(l) \subseteq Certs
<1> SUFFICES ASSUME NEW l \in Leaves PROVE l \in Certs /\ Issuers(l) \subseteq Certs
  OBVIOUS
<1>1. Chain[l] \in Seq(DOMAIN IssuerOf) /\ Chain[l] # <<>> /\ Chain[l][1] = l
  BY RevocationAssumption
<1>2. Len(Chain[l]) \in Nat /\ Len(Chain[l]) >= 1
  BY <1>1
<1>3. {Chain[l][i] : i \in 1..Len(Chain[l])} \subseteq Certs
  BY DEF Certs
<1>4. l \in {Chain[l][i] : i \in 1..Len(Chain[l])}
  BY <1>1, <1>2
<1>5. Issuers(l) \subseteq {Chain[l][i] : i \in 1..Len(Chain[l])}
  BY <1>2 DEF Issuers
<1> QED
  BY <1>3, <1>4, <1>5

(* What does not read as a list is none. *)
LEMMA BadFacts == Bad.next \notin Nat
<1>1. Bad.next = 0 - 1
  BY DEF Bad
<1> QED
  BY <1>1

(* A list read at startup. *)
LEMMA FreshFacts ==
  ASSUME NEW p \in Paths
  PROVE  /\ Fresh(p) \in Crl /\ Fresh(p) # Bad
         /\ Fresh(p).issuer = IssuerAt[p] /\ Fresh(p).revoked = {} /\ Fresh(p).next = Validity
<1>1. IssuerAt[p] \in STRING /\ Validity \in Nat
  BY RevocationAssumption
<1>2. /\ Fresh(p) \in Crl
      /\ Fresh(p).issuer = IssuerAt[p] /\ Fresh(p).revoked = {} /\ Fresh(p).next = Validity
  BY <1>1 DEF Fresh, Crl
<1>3. Bad.next \notin Nat
  BY BadFacts
<1> QED
  BY <1>1, <1>2, <1>3

(* The invariant holds at startup. *)
LEMMA InitIInv == Init => IInv
<1> SUFFICES ASSUME Init PROVE IInv
  OBVIOUS
<1>v. Validity \in Nat \ {0}
  BY RevocationAssumption
<1>1. FilesInv
  BY <1>v, FreshFacts DEF Init, FilesInv, Issued
<1>2. \A d \in snapshot : d \in Crl /\ d # Bad /\ d.next \in Nat /\ d.next = Validity
  BY <1>v, FreshFacts DEF Init
<1>3. WorkInv
  BY DEF Init, WorkInv, Gathering, Installing
<1>4. PostureInv
  BY <1>2 DEF Init, PostureInv, Gathering, Installing
<1>5. IndexInv
  <2>1. DOMAIN index = {IssuerAt[p] : p \in Paths}
    <3>1. DOMAIN index = {d.issuer : d \in snapshot}
      BY IndexDomain DEF Init
    <3>2. {d.issuer : d \in snapshot} = {IssuerAt[p] : p \in Paths}
      BY FreshFacts DEF Init
    <3> QED
      BY <3>1, <3>2
  <2>2. ASSUME NEW p \in Paths
        PROVE  index[IssuerAt[p]].next \in Nat /\ index[IssuerAt[p]].next <= now + Validity
    <3>1. Fresh(p) \in snapshot /\ index = per_issuer(snapshot) /\ now = 0
      BY DEF Init
    <3>2. per_issuer(snapshot)[Fresh(p).issuer].next \in Nat
          /\ per_issuer(snapshot)[Fresh(p).issuer].next <= Fresh(p).next
      BY <1>2, <3>1, IndexOf
    <3> QED
      BY <1>v, <3>1, <3>2, FreshFacts
  <2> QED
    BY <2>1, <2>2 DEF IndexInv
<1>6. NamedInv
  BY DEF Init, NamedInv
<1>7. ConnInv
  BY <1>v DEF Init, ConnInv, ConnState, Idle
<1> QED
  BY <1>1, <1>3, <1>4, <1>5, <1>6, <1>7 DEF IInv

----------------------------------------------------------------------------
(* An issued list stays one. *)
LEMMA IssuedKept ==
  ASSUME FilesInv, NEW p \in Paths, NEW d, Issued(d, p), now' \in Nat, now' >= now,
         listed[p] \subseteq listed'[p]
  PROVE  Issued(d, p)' /\ d # Bad
<1>1. d # Bad
  BY BadFacts DEF Issued
<1>2. d.next <= now' + Validity
  BY RevocationAssumption DEF Issued, FilesInv
<1> QED
  BY <1>1, <1>2 DEF Issued

(* Connections and requests touch neither the files nor the lists. *)
LEMMA ServingFrame ==
  ASSUME IInv, UNCHANGED <<now, files, reload>>
  PROVE  FilesInv' /\ WorkInv' /\ PostureInv' /\ IndexInv' /\ NamedInv'
<1>1. /\ UNCHANGED <<now, listed, file, writes, revokedAt>>
      /\ UNCHANGED <<worker, toRead, got, index, snapshot, evidence, stopped, retired, enforced>>
  BY DEF files, reload
<1>2. FilesInv' /\ IndexInv'
  BY <1>1 DEF IInv, FilesInv, IndexInv, Issued
<1>3. WorkInv' /\ PostureInv'
  BY <1>1 DEF IInv, WorkInv, PostureInv, Issued
<1>4. NamedInv'
  BY <1>1 DEF IInv, NamedInv, Dated, Kept, NamedBy, Issued
<1> QED
  BY <1>2, <1>3, <1>4

(* The worker and the plane touch neither the files nor the connections. *)
LEMMA WorkFrame ==
  ASSUME IInv, UNCHANGED <<now, files, serving>>
  PROVE  /\ FilesInv' /\ ConnInv'
         /\ \A p, d : Issued(d, p)' <=> Issued(d, p)
         /\ \A p, c : NamedBy(p, c)' <=> NamedBy(p, c)
<1>1. UNCHANGED <<now, listed, file, writes, revokedAt, conn>>
  BY DEF files, serving
<1>2. FilesInv' /\ ConnInv'
  BY <1>1 DEF IInv, FilesInv, ConnInv, Issued
<1> QED
  BY <1>1, <1>2 DEF Issued, NamedBy

(* A step of the worker that neither reads nor installs, and does not go   *)
(* on with an attempt it had not begun.                                    *)
LEMMA IdleStep ==
  ASSUME IInv, UNCHANGED <<now, files, serving>>, UNCHANGED <<index, snapshot, enforced>>,
         worker' \in {"sleep", "read", "failed", "panicked", "gone"},
         worker' = "read" => toRead' = Paths /\ got' = {},
         toRead' \subseteq Paths,
         worker' \in {"sleep", "read", "failed"} => evidence' = snapshot /\ index = per_issuer(snapshot),
         Bad \notin evidence', stopped' \in BOOLEAN, retired' \in BOOLEAN, retired' => stopped'
  PROVE  IInv'
<1>1. FilesInv' /\ ConnInv'
  BY WorkFrame
<1>2. WorkInv'
  BY DEF WorkInv, Gathering, Installing
<1>3. PostureInv'
  BY DEF IInv, PostureInv, Gathering, Installing
<1>4. IndexInv'
  BY DEF IInv, IndexInv, files
<1>5. NamedInv'
  <2>1. ASSUME NEW c, Dated(c) PROVE Dated(c)'
    BY <2>1, WorkFrame DEF Dated, Gathering, files, IInv
  <2>2. ASSUME NEW c, Kept(c) PROVE Kept(c)'
    BY <2>2, WorkFrame DEF Kept, Gathering, files, IInv
  <2> QED
    BY <2>1, <2>2 DEF IInv, NamedInv, files
<1> QED
  BY <1>1, <1>2, <1>3, <1>4, <1>5 DEF IInv

(* Reading one more file of the attempt. *)
LEMMA ReadStep ==
  ASSUME IInv, NEW p \in Paths, Read(p)
  PROVE  IInv'
<1>u. /\ UNCHANGED <<now, files, serving>> /\ UNCHANGED <<index, snapshot, evidence, enforced, stopped, retired>>
      /\ worker = "read" /\ p \in toRead /\ got' = got \cup {file[p]} /\ toRead' = toRead \ {p}
      /\ worker' = IF file[p] = Bad THEN "failed" ELSE IF toRead' = {} THEN "gate" ELSE "read"
  BY DEF Read
<1>i. FilesInv /\ WorkInv /\ PostureInv /\ IndexInv /\ NamedInv
  BY DEF IInv
<1>f. /\ FilesInv' /\ ConnInv'
      /\ \A q, d : Issued(d, q)' <=> Issued(d, q)
      /\ \A q, c : NamedBy(q, c)' <=> NamedBy(q, c)
  BY <1>u, WorkFrame
<1>p. toRead' \subseteq Paths /\ evidence = snapshot /\ index = per_issuer(snapshot)
      /\ Bad \notin evidence /\ stopped \in BOOLEAN /\ retired \in BOOLEAN /\ (retired => stopped)
  BY <1>u, <1>i DEF WorkInv, PostureInv, Gathering
<1>1. CASE file[p] = Bad
  BY <1>1, <1>u, <1>p, IdleStep
<1>2. CASE file[p] # Bad
  <2>1. Issued(file[p], p) /\ file[p].revoked = listed[p] /\ file[p] \in Crl
    BY <1>2, <1>i DEF FilesInv
  <2>2. worker' \in {"read", "gate"} /\ (worker' = "gate" => toRead' = {})
    BY <1>u, <1>2
  <2>3. WorkInv'
    <3>1. \A d \in got' : d \in Crl /\ \E q \in Paths : Issued(d, q)
      BY <1>u, <1>i, <2>1 DEF WorkInv, Gathering
    <3>2. \A q \in Paths \ toRead' : \E d \in got' : Issued(d, q)
      BY <1>u, <1>i, <2>1 DEF WorkInv, Gathering
    <3> QED
      BY <1>f, <1>p, <2>2, <3>1, <3>2 DEF WorkInv, Gathering, Installing
  <2>4. PostureInv' /\ IndexInv'
    BY <1>u, <1>i, <1>p, <2>2 DEF PostureInv, IndexInv, Gathering, Installing, files
  <2>5. NamedInv'
    <3>1. ASSUME NEW c \in Certs, revokedAt[c] # Unset PROVE Dated(c)'
      <4>1. PICK q \in Paths :
              /\ NamedBy(q, c)
              /\ \/ c \in index[IssuerAt[q]].revoked
                 \/ index[IssuerAt[q]].next <= revokedAt[c] + Validity
              /\ q \notin toRead =>
                   \E d \in got : Issued(d, q) /\ (c \in d.revoked \/ d.next <= revokedAt[c] + Validity)
        BY <1>u, <1>i, <3>1 DEF NamedInv, Dated, Gathering
      <4>2. q \notin toRead' =>
              \E d \in got' : Issued(d, q) /\ (c \in d.revoked \/ d.next <= revokedAt[c] + Validity)
        BY <1>u, <2>1, <4>1 DEF NamedBy
      <4>3. revokedAt' = revokedAt /\ index' = index
        BY <1>u DEF files
      <4> QED
        BY <1>f, <4>1, <4>2, <4>3 DEF Dated
    <3>2. ASSUME NEW c \in enforced PROVE Kept(c)'
      <4>1. PICK q \in Paths :
              /\ NamedBy(q, c)
              /\ c \in index[IssuerAt[q]].revoked
              /\ q \notin toRead => \E d \in got : Issued(d, q) /\ c \in d.revoked
        BY <1>u, <1>i, <3>2 DEF NamedInv, Kept, Gathering
      <4>2. q \notin toRead' => \E d \in got' : Issued(d, q) /\ c \in d.revoked
        BY <1>u, <2>1, <4>1 DEF NamedBy
      <4> QED
        BY <1>u, <1>f, <4>1, <4>2 DEF Kept
    <3> QED
      BY <1>u, <3>1, <3>2 DEF NamedInv, files
  <2> QED
    BY <1>f, <2>3, <2>4, <2>5 DEF IInv
<1> QED
  BY <1>1, <1>2

(* The gate and the rebuilding. *)
LEMMA RebuildStep ==
  ASSUME IInv, Rebuild
  PROVE  IInv'
<1>u. /\ UNCHANGED <<now, files, serving>>
      /\ UNCHANGED <<got, toRead, index, snapshot, evidence, enforced, stopped, retired>>
      /\ worker = "gate" /\ worker' \in {"built", "failed"}
  BY DEF Rebuild
<1>i. FilesInv /\ WorkInv /\ PostureInv /\ IndexInv /\ NamedInv
  BY DEF IInv
<1>f. /\ FilesInv' /\ ConnInv'
      /\ \A q, d : Issued(d, q)' <=> Issued(d, q)
      /\ \A q, c : NamedBy(q, c)' <=> NamedBy(q, c)
  BY <1>u, WorkFrame
<1>p. toRead' \subseteq Paths /\ evidence = snapshot /\ index = per_issuer(snapshot)
      /\ Bad \notin evidence /\ stopped \in BOOLEAN /\ retired \in BOOLEAN /\ (retired => stopped)
  BY <1>u, <1>i DEF WorkInv, PostureInv, Gathering
<1>1. CASE worker' = "failed"
  BY <1>1, <1>u, <1>p, IdleStep
<1>2. CASE worker' = "built"
  <2>1. WorkInv'
    BY <1>u, <1>i, <1>f, <1>2 DEF WorkInv, Gathering, Installing
  <2>2. PostureInv' /\ IndexInv'
    BY <1>u, <1>i, <1>p, <1>2 DEF PostureInv, IndexInv, Gathering, Installing, files
  <2>3. NamedInv'
    BY <1>u, <1>i, <1>f, <1>2 DEF NamedInv, Dated, Kept, Gathering, files
  <2> QED
    BY <1>f, <2>1, <2>2, <2>3 DEF IInv
<1> QED
  BY <1>1, <1>2, <1>u

(* Installing the request index: every path has been read, so no issuer is *)
(* lost, and each list names what its path has named or ends in time.      *)
LEMMA StoreStep ==
  ASSUME IInv, StoreIndex
  PROVE  IInv'
<1>u. /\ UNCHANGED <<now, files, serving>>
      /\ UNCHANGED <<got, toRead, snapshot, evidence, stopped, retired>>
      /\ worker = "built" /\ worker' = "indexed" /\ index' = per_issuer(got)
      /\ enforced' = enforced \cup UNION {c.revoked : c \in got}
  BY DEF StoreIndex
<1>i. FilesInv /\ WorkInv /\ PostureInv /\ IndexInv /\ NamedInv
  BY DEF IInv
<1>f. /\ FilesInv' /\ ConnInv'
      /\ \A q, d : Issued(d, q)' <=> Issued(d, q)
      /\ \A q, c : NamedBy(q, c)' <=> NamedBy(q, c)
  BY <1>u, WorkFrame
<1>w. /\ toRead = {}
      /\ \A d \in got : d \in Crl /\ \E p \in Paths : Issued(d, p)
      /\ \A p \in Paths : \E d \in got : Issued(d, p)
  BY <1>u, <1>i DEF WorkInv, Gathering
<1>n. \A d \in got : d.next \in Nat
  BY <1>w DEF Issued
<1>d. \A d \in got : /\ d.issuer \in DOMAIN index'
                     /\ d.revoked \subseteq index'[d.issuer].revoked
                     /\ index'[d.issuer].next \in Nat
                     /\ index'[d.issuer].next <= d.next
  BY <1>u, <1>n, IndexOf
<1>1. WorkInv'
  BY <1>u, <1>i, <1>f DEF WorkInv, Gathering, Installing
<1>2. PostureInv'
  BY <1>u, <1>i DEF PostureInv, Gathering, Installing
<1>3. IndexInv'
  <2>1. DOMAIN index' = {IssuerAt[p] : p \in Paths}
    <3>1. DOMAIN index' = {d.issuer : d \in got}
      BY <1>u, IndexDomain
    <3>2. \A d \in got : \E p \in Paths : d.issuer = IssuerAt[p]
      BY <1>w DEF Issued
    <3>3. \A p \in Paths : \E d \in got : d.issuer = IssuerAt[p]
      BY <1>w DEF Issued
    <3> QED
      BY <3>1, <3>2, <3>3
  <2>2. ASSUME NEW p \in Paths
        PROVE  index'[IssuerAt[p]].next \in Nat /\ index'[IssuerAt[p]].next <= now' + Validity
    <3>1. PICK d \in got : Issued(d, p)
      BY <1>w
    <3>2. d.next \in Nat /\ d.next <= now + Validity /\ d.issuer = IssuerAt[p]
          /\ now' = now /\ now \in Nat /\ Validity \in Nat
      BY <1>u, <1>i, <3>1, RevocationAssumption DEF Issued, FilesInv
    <3> QED
      BY <1>d, <3>2
  <2> QED
    BY <2>1, <2>2 DEF IndexInv
<1>4. NamedInv'
  <2>1. ASSUME NEW c \in Certs, revokedAt[c] # Unset PROVE Dated(c)'
    <3>1. PICK q \in Paths :
            /\ NamedBy(q, c)
            /\ \E d \in got : Issued(d, q) /\ (c \in d.revoked \/ d.next <= revokedAt[c] + Validity)
      BY <1>u, <1>i, <1>w, <2>1 DEF NamedInv, Dated, Gathering
    <3>2. PICK d \in got : Issued(d, q) /\ (c \in d.revoked \/ d.next <= revokedAt[c] + Validity)
      BY <3>1
    <3>3. /\ d.issuer = IssuerAt[q] /\ d.next \in Nat /\ Validity \in Nat
          /\ revokedAt' = revokedAt /\ revokedAt[c] \in Nat
      BY <1>u, <1>i, <2>1, <3>2, RevocationAssumption DEF Issued, files, FilesInv
    <3>4. \/ c \in index'[IssuerAt[q]].revoked
          \/ index'[IssuerAt[q]].next <= revokedAt[c] + Validity
      <4>1. CASE c \in d.revoked
        BY <1>d, <3>3, <4>1
      <4>2. CASE d.next <= revokedAt[c] + Validity
        <5>1. index'[IssuerAt[q]].next \in Nat /\ index'[IssuerAt[q]].next <= d.next
          BY <1>d, <3>3
        <5> QED
          BY <3>3, <4>2, <5>1
      <4> QED
        BY <3>2, <4>1, <4>2
    <3> QED
      BY <1>u, <1>f, <3>1, <3>3, <3>4 DEF Dated, Gathering
  <2>2. ASSUME NEW c \in enforced PROVE Kept(c)'
    <3>1. PICK q \in Paths : NamedBy(q, c) /\ \E d \in got : Issued(d, q) /\ c \in d.revoked
      BY <1>u, <1>i, <1>w, <2>2 DEF NamedInv, Kept, Gathering
    <3>2. PICK d \in got : Issued(d, q) /\ c \in d.revoked
      BY <3>1
    <3>3. c \in index'[IssuerAt[q]].revoked
      BY <1>d, <3>2 DEF Issued
    <3> QED
      BY <1>u, <1>f, <3>1, <3>3 DEF Kept, Gathering
  <2>3. ASSUME NEW d \in got, NEW c \in d.revoked PROVE Kept(c)'
    <3>1. PICK q \in Paths : Issued(d, q)
      BY <1>w
    <3>2. NamedBy(q, c)
      BY <1>i, <3>1, <2>3 DEF Issued, FilesInv, NamedBy
    <3>3. c \in index'[IssuerAt[q]].revoked
      BY <1>d, <2>3, <3>1 DEF Issued
    <3> QED
      BY <1>u, <1>f, <3>2, <3>3 DEF Kept, Gathering
  <2> QED
    BY <1>u, <2>1, <2>2, <2>3 DEF NamedInv, files
<1> QED
  BY <1>f, <1>1, <1>2, <1>3, <1>4 DEF IInv

(* Installing the handshake verifier. *)
LEMMA SwapStep ==
  ASSUME IInv, Swap
  PROVE  IInv'
<1>u. /\ UNCHANGED <<now, files, serving>>
      /\ UNCHANGED <<got, toRead, index, evidence, enforced, stopped, retired>>
      /\ worker = "indexed" /\ worker' = "swapped" /\ snapshot' = got
  BY DEF Swap
<1>i. FilesInv /\ WorkInv /\ PostureInv /\ IndexInv /\ NamedInv
  BY DEF IInv
<1>f. /\ FilesInv' /\ ConnInv'
      /\ \A q, d : Issued(d, q)' <=> Issued(d, q)
      /\ \A q, c : NamedBy(q, c)' <=> NamedBy(q, c)
  BY <1>u, WorkFrame
<1>w. \A d \in got : d \in Crl /\ d # Bad
  <2>1. \A d \in got : d \in Crl /\ d.next \in Nat
    BY <1>u, <1>i DEF WorkInv, Issued, Installing
  <2> QED
    BY <2>1, BadFacts
<1>1. WorkInv'
  BY <1>u, <1>i, <1>f DEF WorkInv, Gathering, Installing
<1>2. PostureInv' /\ IndexInv'
  BY <1>u, <1>i, <1>w DEF PostureInv, IndexInv, Gathering, Installing, files
<1>3. NamedInv'
  BY <1>u, <1>i, <1>f DEF NamedInv, Dated, Kept, Gathering, files
<1> QED
  BY <1>f, <1>1, <1>2, <1>3 DEF IInv

(* The steps of the worker that are neither a reading nor an installing. *)
LEMMA WorkerIdles ==
  ASSUME IInv, Sleeps \/ StandsDown \/ Republish \/ KeptLastGood \/ Panic \/ stop_and_retract
  PROVE  IInv'
<1>i. WorkInv /\ PostureInv
  BY DEF IInv
<1>p. /\ toRead \subseteq Paths /\ Bad \notin evidence /\ Bad \notin snapshot
      /\ stopped \in BOOLEAN /\ retired \in BOOLEAN /\ (retired => stopped)
  BY <1>i DEF WorkInv, PostureInv
<1>1. CASE Sleeps
  <2>1. /\ UNCHANGED <<now, files, serving>>
        /\ UNCHANGED <<index, snapshot, evidence, enforced, stopped, retired>>
        /\ worker = "sleep" /\ worker' = "read" /\ toRead' = Paths /\ got' = {}
    BY <1>1 DEF Sleeps
  <2>2. evidence = snapshot /\ index = per_issuer(snapshot)
    BY <1>i, <2>1 DEF PostureInv
  <2> QED
    BY <1>p, <2>1, <2>2, IdleStep
<1>2. CASE StandsDown
  <2>1. /\ UNCHANGED <<now, files, serving>>
        /\ UNCHANGED <<index, snapshot, evidence, enforced, toRead, retired>>
        /\ worker' = "gone" /\ stopped' = TRUE
    BY <1>2 DEF StandsDown
  <2> QED
    BY <1>p, <2>1, IdleStep
<1>3. CASE Republish
  <2>1. /\ UNCHANGED <<now, files, serving>>
        /\ UNCHANGED <<index, snapshot, enforced, stopped, retired>>
        /\ worker = "swapped" /\ worker' = "sleep" /\ toRead' = {} /\ evidence' = got
    BY <1>3 DEF Republish, Forgets
  <2>2. snapshot = got /\ index = per_issuer(got)
    BY <1>i, <2>1 DEF PostureInv, Installing
  <2> QED
    BY <1>p, <2>1, <2>2, IdleStep
<1>4. CASE KeptLastGood
  <2>1. /\ UNCHANGED <<now, files, serving>>
        /\ UNCHANGED <<index, snapshot, evidence, enforced, stopped, retired>>
        /\ worker = "failed" /\ worker' = "sleep" /\ toRead' = {}
    BY <1>4 DEF KeptLastGood, Forgets
  <2>2. evidence = snapshot /\ index = per_issuer(snapshot)
    BY <1>i, <2>1 DEF PostureInv
  <2> QED
    BY <1>p, <2>1, <2>2, IdleStep
<1>5. CASE Panic
  <2>1. /\ UNCHANGED <<now, files, serving>>
        /\ UNCHANGED <<index, snapshot, evidence, enforced, stopped, retired>>
        /\ worker' = "panicked" /\ toRead' = {}
    BY <1>5 DEF Panic, Forgets
  <2> QED
    BY <1>p, <2>1, IdleStep
<1>6. CASE stop_and_retract
  <2>1. /\ UNCHANGED <<now, files, serving>>
        /\ UNCHANGED <<index, snapshot, evidence, enforced, toRead>>
        /\ worker' = "gone" /\ stopped' = TRUE /\ retired' = TRUE
    BY <1>6 DEF stop_and_retract
  <2> QED
    BY <1>p, <2>1, IdleStep
<1> QED
  BY <1>1, <1>2, <1>3, <1>4, <1>5, <1>6

(* Dropping the plane, at any point of a reload. *)
LEMMA PlaneStep ==
  ASSUME IInv, Retire \/ HaltWorker
  PROVE  IInv'
<1>u. /\ UNCHANGED <<now, files, serving>>
      /\ UNCHANGED <<worker, got, toRead, index, snapshot, evidence, enforced>>
      /\ \/ stopped' = TRUE /\ retired' = TRUE
         \/ stopped' = stopped /\ retired' = retired
  BY DEF Retire, HaltWorker
<1>i. WorkInv /\ PostureInv /\ IndexInv /\ NamedInv
  BY DEF IInv
<1>f. /\ FilesInv' /\ ConnInv'
      /\ \A q, d : Issued(d, q)' <=> Issued(d, q)
      /\ \A q, c : NamedBy(q, c)' <=> NamedBy(q, c)
  BY <1>u, WorkFrame
<1>1. WorkInv'
  BY <1>u, <1>i, <1>f DEF WorkInv
<1>2. stopped' \in BOOLEAN /\ retired' \in BOOLEAN /\ (retired' => stopped')
  <2>1. stopped \in BOOLEAN /\ retired \in BOOLEAN /\ (retired => stopped)
    BY <1>i DEF PostureInv
  <2>2. CASE stopped' = TRUE /\ retired' = TRUE
    BY <2>2
  <2>3. CASE stopped' = stopped /\ retired' = retired
    BY <2>1, <2>3, Zenon
  <2> QED
    BY <1>u, <2>2, <2>3
<1>3. PostureInv' /\ IndexInv'
  BY <1>u, <1>i, <1>2 DEF PostureInv, IndexInv, files
<1>4. NamedInv'
  BY <1>u, <1>i, <1>f DEF NamedInv, Dated, Kept, files
<1> QED
  BY <1>f, <1>1, <1>3, <1>4 DEF IInv

----------------------------------------------------------------------------
(* Time and the files: whatever an attempt has read stays issued, and what *)
(* was named stays named.                                                  *)
LEMMA OutsideFrame ==
  ASSUME IInv, UNCHANGED reload, now' \in Nat, now' >= now,
         \A p \in Paths : listed[p] \subseteq listed'[p]
  PROVE  /\ WorkInv' /\ PostureInv' /\ IndexInv'
         /\ \A c \in enforced' : Kept(c)'
         /\ \A c : Dated(c) /\ revokedAt'[c] = revokedAt[c] => Dated(c)'
<1>u. UNCHANGED <<worker, toRead, got, index, snapshot, evidence, stopped, retired, enforced>>
  BY DEF reload
<1>i. FilesInv /\ WorkInv /\ PostureInv /\ IndexInv /\ NamedInv
  BY DEF IInv
<1>f. /\ \A p \in Paths : \A d : Issued(d, p) => Issued(d, p)'
      /\ \A p \in Paths : \A c : NamedBy(p, c) => NamedBy(p, c)'
  <2>1. ASSUME NEW p \in Paths, NEW d, Issued(d, p) PROVE Issued(d, p)'
    BY <1>i, <2>1, IssuedKept
  <2>2. ASSUME NEW p \in Paths, NEW c, NamedBy(p, c) PROVE NamedBy(p, c)'
    BY <2>2 DEF NamedBy
  <2> QED
    BY <2>1, <2>2
<1>1. WorkInv'
  BY <1>u, <1>i, <1>f DEF WorkInv
<1>2. PostureInv'
  BY <1>u, <1>i DEF PostureInv
<1>3. IndexInv'
  <2>1. ASSUME NEW p \in Paths
        PROVE  index'[IssuerAt[p]].next \in Nat /\ index'[IssuerAt[p]].next <= now' + Validity
    <3>1. index[IssuerAt[p]].next \in Nat /\ index[IssuerAt[p]].next <= now + Validity
      BY <1>i DEF IndexInv
    <3>2. now \in Nat /\ Validity \in Nat
      BY <1>i, RevocationAssumption DEF FilesInv
    <3> QED
      BY <1>u, <3>1, <3>2
  <2> QED
    BY <1>u, <1>i, <2>1 DEF IndexInv
<1>4. ASSUME NEW c \in enforced' PROVE Kept(c)'
  <2>1. PICK p \in Paths :
          /\ NamedBy(p, c)
          /\ c \in index[IssuerAt[p]].revoked
          /\ worker \in Gathering /\ p \notin toRead => \E d \in got : Issued(d, p) /\ c \in d.revoked
    BY <1>u, <1>i, <1>4 DEF NamedInv, Kept
  <2> QED
    BY <1>u, <1>f, <2>1 DEF Kept
<1>5. ASSUME NEW c, Dated(c), revokedAt'[c] = revokedAt[c] PROVE Dated(c)'
  <2>1. PICK p \in Paths :
          /\ NamedBy(p, c)
          /\ \/ c \in index[IssuerAt[p]].revoked
             \/ index[IssuerAt[p]].next <= revokedAt[c] + Validity
          /\ worker \in Gathering /\ p \notin toRead =>
               \E d \in got : Issued(d, p) /\ (c \in d.revoked \/ d.next <= revokedAt[c] + Validity)
    BY <1>5 DEF Dated
  <2> QED
    BY <1>u, <1>f, <1>5, <2>1 DEF Dated
<1> QED
  BY <1>1, <1>2, <1>3, <1>4, <1>5

(* The clock, and a file that stops reading as a list. *)
LEMMA WearStep ==
  ASSUME IInv, Tick \/ \E p \in Paths : Spoil(p)
  PROVE  IInv'
<1>i. FilesInv /\ NamedInv /\ ConnInv
  BY DEF IInv
<1>u. /\ UNCHANGED <<listed, revokedAt>> /\ UNCHANGED reload /\ UNCHANGED conn
      /\ now' \in Nat /\ now' >= now /\ writes' \in Nat
      /\ file' \in [Paths -> Crl \cup {Bad}] /\ \A p \in Paths : file'[p] \in {file[p], Bad}
  <2>1. CASE Tick
    BY <2>1, <1>i DEF Tick, files, serving, FilesInv
  <2>2. ASSUME NEW p \in Paths, Spoil(p)
        PROVE  /\ UNCHANGED <<listed, revokedAt>> /\ UNCHANGED reload /\ UNCHANGED conn
               /\ now' \in Nat /\ now' >= now /\ writes' \in Nat
               /\ file' \in [Paths -> Crl \cup {Bad}] /\ \A q \in Paths : file'[q] \in {file[q], Bad}
    BY <2>2, <1>i DEF Spoil, serving, FilesInv
  <2> QED
    BY <2>1, <2>2
<1>1. /\ WorkInv' /\ PostureInv' /\ IndexInv'
      /\ \A c \in enforced' : Kept(c)'
      /\ \A c : Dated(c) /\ revokedAt'[c] = revokedAt[c] => Dated(c)'
  BY <1>u, OutsideFrame
<1>2. NamedInv'
  BY <1>u, <1>i, <1>1 DEF NamedInv
<1>3. FilesInv'
  <2>1. ASSUME NEW p \in Paths, file'[p] # Bad
        PROVE  (Issued(file[p], p) /\ file[p].revoked = listed[p])'
    <3>1. PICK d : d = file[p]
      OBVIOUS
    <3>2. file'[p] = d /\ Issued(d, p) /\ d.revoked = listed[p]
      BY <1>u, <1>i, <2>1, <3>1 DEF FilesInv
    <3>3. Issued(d, p)'
      BY <1>u, <1>i, <3>2, IssuedKept
    <3>4. Issued(file[p], p)'
      BY <3>2, <3>3
    <3> QED
      BY <1>u, <3>2, <3>4
  <2> QED
    BY <1>u, <1>i, <2>1 DEF FilesInv
<1>4. ConnInv'
  <2>1. ASSUME NEW k \in Conns PROVE conn[k].t <= now'
    <3>1. conn[k].t \in Nat /\ conn[k].t <= now /\ now \in Nat
      BY <1>i DEF ConnInv, ConnState, FilesInv
    <3> QED
      BY <1>u, <3>1
  <2> QED
    BY <1>u, <1>i, <2>1 DEF ConnInv
<1> QED
  BY <1>1, <1>2, <1>3, <1>4 DEF IInv

(* A new list: a certificate named for the first time finds every list     *)
(* that leaves it out ending within a validity period of now.              *)
LEMMA PublishStep ==
  ASSUME IInv, NEW p \in Paths, NEW cs \in SUBSET Certs, Publish(p, cs)
  PROVE  IInv'
<1>i. FilesInv /\ WorkInv /\ PostureInv /\ IndexInv /\ NamedInv /\ ConnInv
  BY DEF IInv
<1>v. Validity \in Nat \ {0} /\ IssuerAt[p] \in STRING
  BY RevocationAssumption
<1>u. /\ now' = now /\ now \in Nat /\ UNCHANGED reload /\ UNCHANGED conn /\ writes' \in Nat
      /\ \A c \in cs : IssuerOf[c] = IssuerAt[p]
      /\ revokedAt' = [c \in Certs |-> IF c \in cs /\ revokedAt[c] = Unset THEN now ELSE revokedAt[c]]
  BY <1>i DEF Publish, serving, FilesInv
<1>l. /\ listed' \in [Paths -> SUBSET Certs]
      /\ \A q \in Paths : listed'[q] = IF q = p THEN listed[p] \cup cs ELSE listed[q]
  BY <1>i DEF Publish, FilesInv
<1>n. PICK d : d = [issuer |-> IssuerAt[p], revoked |-> listed'[p], next |-> now + Validity]
  OBVIOUS
<1>d. d \in Crl /\ Issued(d, p)' /\ d.revoked = listed'[p]
  BY <1>n, <1>v, <1>u, <1>l DEF Crl, Issued
<1>w. file' = [file EXCEPT ![p] = d]
  BY <1>n DEF Publish
<1>1. /\ WorkInv' /\ PostureInv' /\ IndexInv'
      /\ \A c \in enforced' : Kept(c)'
      /\ \A c : Dated(c) /\ revokedAt'[c] = revokedAt[c] => Dated(c)'
  <2>1. \A q \in Paths : listed[q] \subseteq listed'[q]
    BY <1>l
  <2>2. now' \in Nat /\ now' >= now
    BY <1>u
  <2> QED
    BY <1>u, <2>1, <2>2, OutsideFrame
<1>2. FilesInv'
  <2>1. \A q \in Paths : \A c \in listed'[q] : IssuerOf[c] = IssuerAt[q]
    BY <1>i, <1>u, <1>l DEF FilesInv
  <2>2. file' \in [Paths -> Crl \cup {Bad}]
    BY <1>i, <1>d, <1>w DEF FilesInv
  <2>3. ASSUME NEW q \in Paths, file'[q] # Bad
        PROVE  (Issued(file[q], q) /\ file[q].revoked = listed[q])'
    <3>1. CASE q = p
      <4>1. file'[p] = d
        BY <1>i, <1>w DEF FilesInv
      <4> QED
        BY <1>d, <3>1, <4>1
    <3>2. CASE q # p
      <4>1. PICK e : e = file[q]
        OBVIOUS
      <4>2. file'[q] = e /\ Issued(e, q) /\ e.revoked = listed[q] /\ listed'[q] = listed[q]
        BY <1>i, <1>w, <1>l, <2>3, <3>2, <4>1 DEF FilesInv
      <4>3. Issued(e, q)'
        BY <1>i, <1>u, <4>2, IssuedKept
      <4> QED
        BY <4>2, <4>3
    <3> QED
      BY <3>1, <3>2
  <2>4. revokedAt' \in [Certs -> Nat \cup {Unset}]
    BY <1>i, <1>u DEF FilesInv
  <2> QED
    BY <1>u, <1>l, <2>1, <2>2, <2>3, <2>4 DEF FilesInv
<1>3. NamedInv'
  <2>1. ASSUME NEW c \in Certs, revokedAt'[c] # Unset PROVE Dated(c)'
    <3>1. CASE revokedAt[c] # Unset
      <4>1. revokedAt'[c] = revokedAt[c]
        BY <1>u, <3>1
      <4> QED
        BY <1>i, <1>1, <3>1, <4>1 DEF NamedInv
    <3>2. CASE revokedAt[c] = Unset
      <4>1. c \in cs /\ revokedAt'[c] = now
        BY <1>u, <2>1, <3>2
      <4>2. NamedBy(p, c)'
        BY <1>u, <1>l, <4>1 DEF NamedBy
      <4>3. index'[IssuerAt[p]].next <= now + Validity
        BY <1>i, <1>u DEF IndexInv, reload
      <4>4. worker \in Gathering /\ p \notin toRead =>
              \E e \in got : Issued(e, p) /\ e.next <= now + Validity
        BY <1>i DEF WorkInv, Issued
      <4>5. \A e : Issued(e, p) => Issued(e, p)'
        BY <1>i, <1>u, <1>l, IssuedKept
      <4>6. UNCHANGED <<worker, toRead, got>>
        BY <1>u DEF reload
      <4> QED
        BY <4>1, <4>2, <4>3, <4>4, <4>5, <4>6 DEF Dated
    <3> QED
      BY <3>1, <3>2
  <2> QED
    BY <1>1, <2>1 DEF NamedInv
<1>4. ConnInv'
  <2>1. ASSUME NEW k \in Conns, conn[k].at = "admitted", revokedAt'[conn[k].leaf] # Unset
        PROVE  conn[k].t < revokedAt'[conn[k].leaf] + Validity
    <3>1. /\ conn[k].leaf \in Certs /\ conn[k].t \in Nat /\ conn[k].t <= now
          /\ revokedAt[conn[k].leaf] # Unset => conn[k].t < revokedAt[conn[k].leaf] + Validity
      BY <1>i, <2>1, LeafIsCert DEF ConnInv, ConnState
    <3>2. CASE revokedAt[conn[k].leaf] # Unset
      BY <1>u, <3>1, <3>2
    <3>3. CASE revokedAt[conn[k].leaf] = Unset
      <4>1. revokedAt'[conn[k].leaf] = now
        BY <1>u, <2>1, <3>1, <3>3
      <4> QED
        BY <1>u, <1>v, <3>1, <4>1
    <3> QED
      BY <3>2, <3>3
  <2> QED
    BY <1>i, <1>u, <2>1 DEF ConnInv
<1> QED
  BY <1>1, <1>2, <1>3, <1>4 DEF IInv

----------------------------------------------------------------------------
(* The verdict on a named certificate: it is refused from a validity       *)
(* period after it was first named on, and always once an index named it.  *)
LEMMA NamedIsJudged ==
  ASSUME FilesInv, IndexInv, NamedInv, NEW l \in Leaves, NEW t \in Nat, Current(index, l, t)
  PROVE  /\ revokedAt[l] # Unset => t < revokedAt[l] + Validity
         /\ enforced \cap ({l} \cup Issuers(l)) = {}
<1>v. Validity \in Nat /\ l \in Certs /\ Issuers(l) \subseteq Certs
  BY RevocationAssumption, LeafIsCert
<1>p. Paths # {} => /\ verdict(index, l, t) = "Good"
                    /\ \A c \in Issuers(l) : verdict(index, c, t) # "Revoked"
  BY DEF Current
<1>d. DOMAIN index = {IssuerAt[p] : p \in Paths}
  BY DEF IndexInv
<1>1. ASSUME revokedAt[l] # Unset PROVE t < revokedAt[l] + Validity
  <2>1. PICK p \in Paths :
          /\ NamedBy(p, l)
          /\ \/ l \in index[IssuerAt[p]].revoked
             \/ index[IssuerAt[p]].next <= revokedAt[l] + Validity
    BY <1>1, <1>v DEF NamedInv, Dated
  <2>2. verdict(index, l, t) = "Good" /\ IssuerOf[l] = IssuerAt[p]
        /\ IssuerAt[p] \in DOMAIN index
    BY <1>p, <1>d, <2>1 DEF NamedBy
  <2>3. l \notin index[IssuerAt[p]].revoked /\ ~(t >= index[IssuerAt[p]].next)
    BY <2>2 DEF verdict
  <2>4. index[IssuerAt[p]].next \in Nat /\ revokedAt[l] \in Nat
    BY <1>1, <1>v DEF IndexInv, FilesInv
  <2> QED
    BY <1>v, <2>1, <2>3, <2>4
<1>2. ASSUME NEW c \in enforced, c \in {l} \cup Issuers(l) PROVE FALSE
  <2>1. PICK p \in Paths : NamedBy(p, c) /\ c \in index[IssuerAt[p]].revoked
    BY <1>2 DEF NamedInv, Kept
  <2>2. verdict(index, c, t) = "Revoked"
    BY <1>d, <2>1 DEF NamedBy, verdict
  <2> QED
    BY <1>2, <1>p, <2>1, <2>2
<1> QED
  BY <1>1, <1>2

(* One connection changes, and stays within what the invariant says of it. *)
LEMMA ConnStep ==
  ASSUME IInv, NEW k \in Conns, UNCHANGED <<now, files, reload>>,
         conn' \in [Conns -> ConnState], \A j \in Conns \ {k} : conn'[j] = conn[j],
         conn'[k].at # "closed" => conn'[k].leaf \in Leaves,
         conn'[k].t <= now, conn'[k].known = {},
         conn'[k].at = "admitted" /\ revokedAt[conn'[k].leaf] # Unset =>
           conn'[k].t < revokedAt[conn'[k].leaf] + Validity
  PROVE  IInv'
<1>1. FilesInv' /\ WorkInv' /\ PostureInv' /\ IndexInv' /\ NamedInv'
  BY ServingFrame
<1>2. UNCHANGED <<now, revokedAt>>
  BY DEF files
<1>3. ConnInv'
  BY <1>2 DEF IInv, ConnInv
<1> QED
  BY <1>1, <1>3 DEF IInv

(* Connections and requests.  A handshake admits nothing by itself; what   *)
(* admits a request is its own judgement, on the index of the moment.      *)
LEMMA ServeStep ==
  ASSUME IInv, NEW k \in Conns,
         \/ \E l \in Leaves : AcceptConn(k, l)
         \/ FullHandshake(k) \/ ResumedHandshake(k) \/ Close(k) \/ Request(k) \/ Judge(k)
         \/ Answered(k)
  PROVE  IInv'
<1>i. FilesInv /\ PostureInv /\ IndexInv /\ NamedInv /\ ConnInv
  BY DEF IInv
<1>c. /\ conn \in [Conns -> ConnState]
      /\ conn[k].at # "closed" => conn[k].leaf \in Leaves
      /\ conn[k].t <= now /\ conn[k].t \in Nat /\ conn[k].known = {} /\ now \in Nat
  BY <1>i DEF ConnInv, ConnState, FilesInv
<1>1. ASSUME NEW l \in Leaves, AcceptConn(k, l) PROVE IInv'
  <2>1. snapshot \subseteq Crl
    BY <1>i DEF PostureInv
  <2>2. conn' = [conn EXCEPT ![k] = [at |-> "hello", leaf |-> l, config |-> snapshot, t |-> 0,
                                     known |-> {}]]
    BY <1>1 DEF AcceptConn
  <2>3. /\ conn' \in [Conns -> ConnState] /\ \A j \in Conns \ {k} : conn'[j] = conn[j]
        /\ conn'[k].at = "hello" /\ conn'[k].leaf = l /\ conn'[k].t = 0 /\ conn'[k].known = {}
    BY <1>c, <2>1, <2>2 DEF ConnState
  <2>4. UNCHANGED <<now, files, reload>>
    BY <1>1 DEF AcceptConn
  <2> QED
    BY <1>c, <2>3, <2>4, ConnStep
<1>2. CASE FullHandshake(k) \/ ResumedHandshake(k)
  <2>1. /\ conn[k].at = "hello" /\ conn' = [conn EXCEPT ![k].at = "open", ![k].config = {}]
        /\ UNCHANGED <<now, files, reload>>
    BY <1>2 DEF FullHandshake, ResumedHandshake
  <2>2. /\ conn' \in [Conns -> ConnState] /\ \A j \in Conns \ {k} : conn'[j] = conn[j]
        /\ conn'[k].at = "open" /\ conn'[k].leaf = conn[k].leaf /\ conn'[k].t = conn[k].t
        /\ conn'[k].known = {}
    BY <1>c, <2>1 DEF ConnState
  <2> QED
    BY <1>c, <2>1, <2>2, ConnStep
<1>3. CASE Close(k)
  <2>1. Idle \in ConnState /\ Idle.at = "closed" /\ Idle.t = 0 /\ Idle.known = {}
    BY DEF Idle, ConnState
  <2>2. conn' = [conn EXCEPT ![k] = Idle] /\ UNCHANGED <<now, files, reload>>
    BY <1>3 DEF Close
  <2>3. /\ conn' \in [Conns -> ConnState] /\ \A j \in Conns \ {k} : conn'[j] = conn[j]
        /\ conn'[k] = Idle
    BY <1>c, <2>1, <2>2
  <2> QED
    BY <1>c, <2>1, <2>2, <2>3, ConnStep
<1>4. CASE Request(k)
  <2>1. /\ conn[k].at = "open" /\ conn' = [conn EXCEPT ![k].at = "judge", ![k].t = now]
        /\ UNCHANGED <<now, files, reload>>
    BY <1>4 DEF Request
  <2>2. /\ conn' \in [Conns -> ConnState] /\ \A j \in Conns \ {k} : conn'[j] = conn[j]
        /\ conn'[k].at = "judge" /\ conn'[k].leaf = conn[k].leaf /\ conn'[k].t = now
        /\ conn'[k].known = {}
    BY <1>c, <2>1 DEF ConnState
  <2> QED
    BY <1>c, <2>1, <2>2, ConnStep
<1>5. CASE Judge(k)
  <2>1. conn[k].at = "judge" /\ UNCHANGED <<now, files, reload>>
    BY <1>5 DEF Judge
  <2>2. CASE Current(index, conn[k].leaf, conn[k].t)
    <3>1. /\ revokedAt[conn[k].leaf] # Unset => conn[k].t < revokedAt[conn[k].leaf] + Validity
          /\ enforced \cap ({conn[k].leaf} \cup Issuers(conn[k].leaf)) = {}
      BY <1>i, <1>c, <2>1, <2>2, NamedIsJudged
    <3>2. conn' = [conn EXCEPT ![k] = [conn[k] EXCEPT !.at = "admitted", !.known = {}]]
      BY <1>5, <1>c, <2>2, <3>1 DEF Judge
    <3>3. /\ conn' \in [Conns -> ConnState] /\ \A j \in Conns \ {k} : conn'[j] = conn[j]
          /\ conn'[k].leaf = conn[k].leaf /\ conn'[k].t = conn[k].t /\ conn'[k].known = {}
      BY <1>c, <3>2 DEF ConnState
    <3> QED
      BY <1>c, <2>1, <3>1, <3>3, ConnStep
  <2>3. CASE ~ Current(index, conn[k].leaf, conn[k].t)
    <3>1. conn' = [conn EXCEPT ![k] = [conn[k] EXCEPT !.at = "open", !.t = 0]]
      BY <1>5, <1>c, <2>3 DEF Judge
    <3>2. /\ conn' \in [Conns -> ConnState] /\ \A j \in Conns \ {k} : conn'[j] = conn[j]
          /\ conn'[k].at = "open" /\ conn'[k].leaf = conn[k].leaf /\ conn'[k].t = 0
          /\ conn'[k].known = {}
      BY <1>c, <3>1 DEF ConnState
    <3> QED
      BY <1>c, <2>1, <3>2, ConnStep
  <2> QED
    BY <2>2, <2>3
<1>6. CASE Answered(k)
  <2>1. /\ conn[k].at = "admitted" /\ UNCHANGED <<now, files, reload>>
        /\ conn' = [conn EXCEPT ![k] = [conn[k] EXCEPT !.at = "open", !.t = 0, !.known = {}]]
    BY <1>6, <1>c DEF Answered
  <2>2. /\ conn' \in [Conns -> ConnState] /\ \A j \in Conns \ {k} : conn'[j] = conn[j]
        /\ conn'[k].at = "open" /\ conn'[k].leaf = conn[k].leaf /\ conn'[k].t = 0
        /\ conn'[k].known = {}
    BY <1>c, <2>1 DEF ConnState
  <2> QED
    BY <1>c, <2>1, <2>2, ConnStep
<1> QED
  BY <1>1, <1>2, <1>3, <1>4, <1>5, <1>6

----------------------------------------------------------------------------
(* Every step keeps the invariant. *)
LEMMA StepIInv == IInv /\ [Next]_vars => IInv'
<1> SUFFICES ASSUME IInv, [Next]_vars PROVE IInv'
  OBVIOUS
<1>1. CASE Tick \/ \E p \in Paths : Spoil(p)
  BY <1>1, WearStep
<1>2. CASE Work
  BY <1>2, WorkerIdles, ReadStep, RebuildStep, StoreStep, SwapStep DEF Work
<1>3. CASE Panic
  BY <1>3, WorkerIdles
<1>4. CASE Retire \/ HaltWorker
  BY <1>4, PlaneStep
<1>5. ASSUME NEW p \in Paths, NEW cs \in SUBSET Certs, Publish(p, cs) PROVE IInv'
  BY <1>5, PublishStep
<1>6. ASSUME NEW k \in Conns,
             \/ \E l \in Leaves : AcceptConn(k, l)
             \/ FullHandshake(k) \/ ResumedHandshake(k) \/ Close(k) \/ Request(k) \/ Judge(k)
             \/ Answered(k)
      PROVE  IInv'
  BY <1>6, ServeStep
<1>7. CASE UNCHANGED vars
  <2>1. UNCHANGED <<now, files, reload>> /\ UNCHANGED conn
    BY <1>7 DEF vars, files, reload
  <2>2. FilesInv' /\ WorkInv' /\ PostureInv' /\ IndexInv' /\ NamedInv'
    BY <2>1, ServingFrame
  <2>3. ConnInv'
    BY <2>1 DEF IInv, ConnInv, files
  <2> QED
    BY <2>2, <2>3 DEF IInv
<1> QED
  BY <1>1, <1>2, <1>3, <1>4, <1>5, <1>6, <1>7 DEF Next

(* The invariant holds throughout. *)
LEMMA Invariant == Spec => []IInv
BY InitIInv, StepIInv, PTL DEF Spec

(* No certificate is admitted a validity period after a list first named   *)
(* it, and none at all once an installed index named it                    *)
(* (resolve_channel_peer, ClientRevocationIndex::verdict): for any files,  *)
(* any chains and any connections, whatever the worker fails at.           *)
THEOREM RevokedIsRefusedHolds == Spec => []RevokedIsRefused
<1>1. IInv => RevokedIsRefused
  <2> SUFFICES ASSUME IInv PROVE RevokedIsRefused
    OBVIOUS
  <2>1. ConnInv /\ DOMAIN conn = Conns
    BY DEF IInv, ConnInv
  <2> QED
    BY <2>1 DEF RevokedIsRefused, ExposureBound, NoneKnownRevoked, ConnInv
<1> QED
  BY <1>1, Invariant, PTL

(* Between reloads the operator is told the very lists that requests and   *)
(* handshakes are judged by, every issuer's list is among them, and a      *)
(* retracted claim stays retracted.                                        *)
(* (crl_reload_worker, ClientRevocationCurrency)                           *)
THEOREM PostureHonestHolds == Spec => []PostureHonest
<1>1. IInv => PostureHonest
  <2> SUFFICES ASSUME IInv PROVE PostureHonest
    OBVIOUS
  <2>i. FilesInv /\ WorkInv /\ PostureInv /\ IndexInv /\ ConnInv
    BY DEF IInv
  <2>1. TypeOK
    <3>1. now \in Nat /\ writes \in Nat
      BY <2>i DEF FilesInv
    <3>2. worker \in {"sleep", "read", "gate", "built", "indexed", "swapped", "failed",
                      "panicked", "gone"}
      BY <2>i DEF WorkInv, Gathering, Installing
    <3>3. Bad \notin snapshot /\ Bad \notin evidence
      BY <2>i DEF PostureInv
    <3>4. DOMAIN index \subseteq {IssuerAt[p] : p \in Paths}
      BY <2>i DEF IndexInv
    <3>5. maintenance \in {"Maintained", "Degraded", "Stopped"}
      BY DEF maintenance
    <3>6. \A k \in DOMAIN conn : conn[k].at \in {"closed", "hello", "open", "judge", "admitted"}
      BY <2>i DEF ConnInv, ConnState
    <3> QED
      BY <3>1, <3>2, <3>3, <3>4, <3>5, <3>6 DEF TypeOK
  <2>2. PostureMatches
    BY <2>i DEF PostureMatches, PostureInv
  <2>3. RetractionSticks
    BY <2>i DEF RetractionSticks, PostureInv, maintenance
  <2>4. IssuersKept
    BY <2>i DEF IssuersKept, FilesInv, Issued, IndexInv
  <2> QED
    BY <2>1, <2>2, <2>3, <2>4 DEF PostureHonest
<1> QED
  BY <1>1, Invariant, PTL
=============================================================================
