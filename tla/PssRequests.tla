---------------------------- MODULE PssRequests -----------------------------
(***************************************************************************)
(* The server against every client and every network: any authentic        *)
(* request may arrive at any time, late, out of order, and any number of   *)
(* times; the process may be restarted and the machine may lose power.     *)
(***************************************************************************)
EXTENDS PssServer

CONSTANTS
    MaxVersion, Stamp,   \* versions and timestamps clients sign
    MaxEffects           \* bound: requests that take effect

\* What is signed; and a row that was written is one.
ASSUME RequestsAssumption ==
    /\ MaxVersion \in Nat /\ Stamp \subseteq Int /\ MaxEffects \in Nat
    /\ NoSlot \notin [version : 1 .. MaxVersion, prevVersion : 0 .. MaxVersion - 1, data : {"data"}]

VARIABLES
    effects,   \* signatures of the requests that took effect in this process
    rows       \* [made, kept]: accounts created since the start, and as of synced

requestVars == <<serverVars, effects, rows>>

Puts == {Put(a, c, v, p, "data", t, i) :
           a \in Account, c \in Collection, v \in 1 .. MaxVersion,
           p \in 0 .. MaxVersion - 1, t \in Stamp, i \in Invite \cup {NoInvite}}
Deletes == [account : Account, nonce : {1}, timestamp : Stamp]

InitRequests ==
    /\ startServer
    /\ effects = <<>>
    /\ rows = [made |-> 0, kept |-> 0]

tookEffect(sig) == effects' = IF slots' = slots THEN effects ELSE Append(effects, sig)

PutArrives(r) ==
    /\ handlePut(r, TRUE)
    /\ tookEffect(putSig(r))
    /\ rows' = IF slots' # slots /\ ~hasAccountRow(r.route[1])
               THEN [rows EXCEPT !.made = @ + 1] ELSE rows

DeleteArrives(r) ==
    /\ handleDelete(r, TRUE)
    /\ tookEffect(deleteSig(r))
    /\ UNCHANGED rows

Operate ==
    \/ Restart /\ effects' = <<>> /\ UNCHANGED rows
    \/ PowerLoss /\ effects' = <<>> /\ rows' = [rows EXCEPT !.made = rows.kept]
    \/ Checkpoint /\ rows' = [rows EXCEPT !.kept = rows.made] /\ UNCHANGED effects

NextRequests ==
    \/ Tick /\ UNCHANGED <<effects, rows>>
    \/ Operate
    \/ /\ Len(effects) < MaxEffects
       /\ \/ \E r \in Puts : PutArrives(r)
          \/ \E r \in Deletes : DeleteArrives(r)

SpecRequests == InitRequests /\ [][NextRequests]_requestVars

-----------------------------------------------------------------------------
\* A request takes effect at most once in a server process, however often it is
\* delivered and whatever the clocks: the guard outlives the span in which a
\* timestamp is fresh.  Without it a repeated DELETE erases what the owner wrote
\* since, and after a DELETE a repeated PUT is the first write again.
TakesEffectOnce == \A j, k \in DOMAIN effects : effects[j] = effects[k] => j = k

\* Each account that was created, or created again after a deletion, spent one
\* code, and no code was burnt for a write that did not land; a power loss takes
\* the row and the spending of its code together.
InvitesConserved == Cardinality(Invite \ unspent) = rows.made

=============================================================================
