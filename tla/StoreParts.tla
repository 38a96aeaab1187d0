----------------------------- MODULE StoreParts -----------------------------
(* The four small components of and around the stores, one of which steps  *)
(* in each behaviour.                                                      *)
EXTENDS RunPages, FindingRevisions, ResourceSlots, StoreMigration

VARIABLE part

partVars == <<pageVars, revisionVars, slotVars, schemaVars, part>>

TypeOK == PagesTypeOK /\ RevisionsTypeOK /\ SlotsTypeOK /\ MigrationTypeOK

(* The types, and what makes a listing and a comparison inductive.         *)
PartsInv == TypeOK /\ PagesInv /\ RevisionsInv

(* What does not step starts in one state only.                            *)
Idle ==
    /\ part # "pages" => filter = AnyStatus /\ DOMAIN runs = {}
    /\ part # "migration" => engine = "sqlite" /\ auto /\ cols = {}

Init ==
    /\ part \in {"pages", "revisions", "slots", "migration"}
    /\ PagesInit /\ RevisionsInit /\ SlotsInit /\ MigrationInit
    /\ Idle

Next ==
    \/ part = "pages" /\ PagesNext /\ UNCHANGED <<revisionVars, slotVars, schemaVars, part>>
    \/ part = "revisions" /\ RevisionsNext /\ UNCHANGED <<pageVars, slotVars, schemaVars, part>>
    \/ part = "slots" /\ SlotsNext /\ UNCHANGED <<pageVars, revisionVars, schemaVars, part>>
    \/ part = "migration" /\ MigrationNext /\ UNCHANGED <<pageVars, revisionVars, slotVars, part>>

Spec == Init /\ [][Next]_partVars
=============================================================================
