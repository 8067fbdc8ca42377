----------------------------- MODULE MCEdgarReads ----------------------------
(* What the EDGAR client keeps: one issuer's filing list, the issuer record over it, or
   one answer of a search.  No file and no memory is read by two of them, so each is
   explored with the others at rest. *)
EXTENDS FilingList, IssuerRecord, EdgarSearches

VARIABLE moving

(* At rest, the others' first state is one of many: the least is enough. *)
ReadsInit ==
    /\ moving \in {"list", "record", "search"}
    /\ ListInit   /\ (moving # "list"   => edge[0] = 1 /\ main = NoList)
    /\ Init       /\ (moving # "record" => disk = Absent /\ ~whole)
    /\ SearchInit /\ (moving # "search" => query = "raw" /\ shown = NeverShown)

ReadsNext ==
    /\ UNCHANGED moving
    /\ \/ moving = "list" /\ ListNext /\ UNCHANGED <<vars, searchVars>>
       \/ moving = "record" /\ Next /\ UNCHANGED <<listVars, searchVars>>
       \/ moving = "search" /\ SearchNext /\ UNCHANGED <<listVars, vars>>

ReadsSpec == ReadsInit /\ [][ReadsNext]_<<listVars, vars, searchVars, moving>>
=============================================================================
