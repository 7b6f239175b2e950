----------------------------- MODULE Identity -----------------------------
(***************************************************************************)
(* The identity manager of a conversation (merkle-tox-core, identity.rs):  *)
(* which device may speak for which logical identity, and with which       *)
(* permissions, at a given point of the causal history.  A logical         *)
(* identity is named by its master device, as to_physical and to_logical   *)
(* keep the key.  Certificates do not expire here.                         *)
(*                                                                         *)
(* An identity state is a record                                           *)
(*   auth     the AuthRecords: dev, logical, issuer, perms, rank, hash     *)
(*   revs     the RevocationRecords: dev, rank, seniority, hash            *)
(*   members  the logical members: who, role (0 is the founder)            *)
(*   paths    the path cache: the nodes found authorised                   *)
(* A CausalContext is the set anc of the admin ancestors of a node.        *)
(***************************************************************************)
EXTENDS FiniteSets, Naturals

CONSTANTS
    Devices,
    MaxAuthDepth, MaxDevices,   \* MAX_AUTH_DEPTH, MAX_DEVICES_PER_IDENTITY
    HashNo(_)                   \* the order of node hashes; 0 is the zero hash

All == {"admin", "message"}

NoIdentity == [auth |-> {}, revs |-> {}, members |-> {}, paths |-> {}]

(* Seniority is compared as the pair (rank, hash). *)
Senior(s, t) == s[1] < t[1] \/ (s[1] = t[1] /\ s[2] <= t[2])
Master == <<0, 0>>
NoSeniority == <<1000, 1000>>
Seniority(rec) == <<rec.rank, HashNo(rec.hash)>>

(* is_mutual_revocation: the device that revoked was itself revoked by the *)
(* device it revoked.  All the revocations known count, whatever the       *)
(* causal context.                                                         *)
IsMutualRevocation(id, revoker, target) ==
    /\ revoker # 0
    /\ \E a \in id.auth, v \in id.revs :
           /\ HashNo(a.hash) = revoker
           /\ v.dev = a.dev
           /\ v.seniority[2] = target

(* A mutual revocation is decided by the whole seniority, any other by the *)
(* rank alone.                                                             *)
CanRevoke(id, rev, rec) ==
    IF IsMutualRevocation(id, rev.seniority[2], HashNo(rec.hash))
    THEN Senior(rev.seniority, Seniority(rec))
    ELSE rev.seniority[1] <= rec.rank

Revoked(id, rec, anc, rank) ==
    \E rev \in id.revs :
        /\ rev.dev = rec.dev
        /\ rev.hash \in anc
        /\ rev.rank <= rank
        /\ CanRevoke(id, rev, rec)

(* The records that let dev act for logical at this point. *)
Live(id, dev, logical, anc, rank) ==
    {rec \in id.auth : /\ rec.dev = dev
                       /\ rec.logical = logical
                       /\ rec.rank <= rank
                       /\ rec.hash \in anc
                       /\ ~Revoked(id, rec, anc, rank)}

(* (Mutant: a record counts whoever issued it.)                            *)
ChainsOfOne(id, dev, logical, anc, rank) ==
    IF dev = logical THEN {All}
    ELSE {rec.perms : rec \in Live(id, dev, logical, anc, rank)}

(* is_authorized_recursive and get_permissions_recursive: the permissions  *)
(* of each chain of live records from dev up to the master; no chain means *)
(* not authorised, the union over the chains is what dev may do.           *)
Chains(id, dev, logical, anc, rank) ==
    LET up[k \in 0 .. MaxAuthDepth + 1] ==
            [d \in Devices |->
               IF k = 0 THEN {}
               ELSE IF d = logical THEN {All}
               ELSE UNION {IF rec.issuer = logical THEN {rec.perms}
                           ELSE {rec.perms \cap p : p \in up[k - 1][rec.issuer]} :
                           rec \in Live(id, d, logical, anc, rank)}]
    IN  up[MaxAuthDepth + 1][dev]

(* get_permissions *)
GetPermissions(id, dev, logical, anc, rank) ==
    UNION Chains(id, dev, logical, anc, rank)

(* get_auth_depth: the records on the shortest chain, live or not. *)
AuthDepth(id, dev, logical, rank) ==
    LET reach[k \in 0 .. MaxAuthDepth] ==
            IF k = 0 THEN {logical}
            ELSE reach[k - 1] \cup
                 {rec.dev : rec \in {a \in id.auth : /\ a.logical = logical
                                                     /\ a.rank <= rank
                                                     /\ a.issuer \in reach[k - 1]}}
        at == {k \in 0 .. MaxAuthDepth : dev \in reach[k]}
    IN  IF at = {} THEN 0 ELSE CHOOSE k \in at : \A j \in at : k <= j

DevicesOf(id, logical) ==
    {rec.dev : rec \in {a \in id.auth : a.logical = logical}}

(* The authorised admin device that signed cert, as authorize_device finds *)
(* it, may hand on what it has itself.                                     *)
MayIssue(id, anc, logical, cert, rank) ==
    LET own == GetPermissions(id, cert.issuer, logical, anc, rank) IN
    /\ \E rec \in id.auth : /\ rec.dev = cert.issuer
                            /\ rec.logical = logical
                            /\ rec.rank <= rank
                            /\ "admin" \in rec.perms
    /\ "admin" \in own
    /\ cert.perms \subseteq own
    /\ AuthDepth(id, cert.issuer, logical, rank) + 1 <= MaxAuthDepth
    /\ Cardinality(DevicesOf(id, logical)) < MaxDevices

(* authorize_device: the record, or nothing when there is no trust path.   *)
(* The path cache is cleared first in either case.                         *)
CanAuthorize(id, anc, logical, cert, rank) ==
    cert.issuer = logical \/ MayIssue(id, anc, logical, cert, rank)

AuthorizeDevice(id, anc, logical, cert, rank, hash) ==
    [id EXCEPT !.paths = {},
               !.auth = @ \cup {rec \in
                   {[dev |-> cert.dev, logical |-> logical,
                     issuer |-> cert.issuer, perms |-> cert.perms,
                     rank |-> rank, hash |-> hash]} :
                   CanAuthorize(id, anc, logical, cert, rank)}]

(* revoke_device: the seniority is that of the revoker's oldest admin      *)
(* record.                                                                 *)
RevokerSeniority(id, dev, logical, rank) ==
    LET granted == {Seniority(rec) : rec \in
                      {a \in id.auth : /\ a.dev = dev
                                       /\ a.logical = logical
                                       /\ a.rank <= rank
                                       /\ "admin" \in a.perms}}
    IN  IF dev = logical THEN Master
        ELSE IF granted = {} THEN NoSeniority
        ELSE CHOOSE s \in granted : \A t \in granted : Senior(s, t)

RevokeDevices(id, revoker, logical, targets, rank, hash) ==
    [id EXCEPT !.paths = {},
               !.revs = @ \cup
                   {[dev |-> d, rank |-> rank, hash |-> hash,
                     seniority |-> RevokerSeniority(id, revoker, logical, rank)] :
                    d \in targets}]

(* add_member and remove_member; the devices of a member who leaves are    *)
(* revoked.                                                                *)
AddMember(id, who, role) ==
    [id EXCEPT !.members = {m \in @ : m.who # who} \cup
                           {[who |-> who, role |-> role]}]

RemoveMember(id, revoker, logical, who, rank, hash) ==
    RevokeDevices([id EXCEPT !.members = {m \in @ : m.who # who}],
                  revoker, logical, DevicesOf(id, who), rank, hash)

HasFounder(id) == \E m \in id.members : m.role = 0

(* list_all_authorized_sender_pairs: the devices known, each with the      *)
(* identities it was authorised for, and the masters of the members.       *)
SenderPairs(id) ==
    {<<rec.dev, rec.logical>> : rec \in id.auth}
    \cup {<<m.who, m.who>> : m \in id.members}
=============================================================================
