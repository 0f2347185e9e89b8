---------------------------- MODULE MCEntitlements ----------------------------
(***************************************************************************)
(* The three places that decide who may have how much: the reseller's      *)
(* terms and balance, the sign-in of administrators, and the connection    *)
(* limits on a node.  They share no state and each is explored on its own: *)
(* the initial state chooses one and the others keep their initial values. *)
(***************************************************************************)
EXTENDS Resellers, Auth, Enforcement, TLC

VARIABLE focus

entitlementVars == <<focus, rsVars, auVars, efVars>>

Terms(on, most, quota, floor) ==
    [enabled |-> on, max |-> most, maxQuota |-> quota, floor |-> floor]
MCOffers == {Terms(TRUE, 1, 3, 0), Terms(TRUE, 3, 1, -1), Terms(FALSE, 3, 3, 0)}
CSV(rows, quota, off, cold) ==
    [rows |-> rows, quota |-> quota, disabled |-> off, frozen |-> cold]
MCUploads == {CSV({"n1"}, 0, FALSE, FALSE), CSV({"n1", "n2"}, 1, TRUE, TRUE)}
MCLimits == {-1, 1}

\* Accounts are interchangeable, and so are clients.
AccountSymmetry == Permutations(Admins) \cup Permutations(Clients)

EntitlementsInit ==
    /\ focus \in {"resellers", "auth", "enforcement"}
    /\ RsInit /\ AuInit /\ EfInit
    /\ focus # "resellers" => rsTerms = [r \in Sellers |-> Absent]
    /\ focus # "auth" => \A a \in Admins : auAdmin[a].secret = 0

EntitlementsNext ==
    \/ focus = "resellers" /\ RsNext /\ UNCHANGED <<focus, auVars, efVars>>
    \/ focus = "auth" /\ AuNext /\ UNCHANGED <<focus, rsVars, efVars>>
    \/ focus = "enforcement" /\ EfNext /\ UNCHANGED <<focus, rsVars, auVars>>

EntitlementsSpec == EntitlementsInit /\ [][EntitlementsNext]_entitlementVars

\* Every variable of the reseller service, of the sign-in handlers and of the
\* node's connection tracker stays in its type.
EntitlementsTypeOK == RsTypeOK /\ AuTypeOK /\ EfTypeOK
=============================================================================
