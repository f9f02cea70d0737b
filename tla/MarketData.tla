------------------------------ MODULE MarketData ------------------------------
(***************************************************************************)
(* Bars and what is computed from them: the SHARADAR script (BarIngest)    *)
(* and market-ingest write bar_1d while feature-builder (FeatureService)   *)
(* reads it.  What a transaction changes is what feature-builder's results *)
(* may be out of date by; the two share nothing else.                      *)
(***************************************************************************)
EXTENDS BarIngest, FeatureService

vars == <<ingestVars, featureVars>>

TypeOK == IngestTypes /\ FeatureTypes

Init == IngestInit /\ FeatureInit

\* The script's own steps, and a chunk's transaction, whatever symbols it has
\* rows of; a dry run has none.
IngestStep ==
    \/ /\ \/ \E chosen \in SUBSET Tables, resume, dry \in BOOLEAN :
                RunIngest(chosen, resume, dry)
          \/ \E t \in Tables : Skip(t) \/ ResumeFails(t) \/ Open(t) \/ Close(t)
          \/ Stop
       /\ UNCHANGED featureVars
    \/ \E t \in Tables, changed \in SUBSET Symbols :
          /\ UpsertChunk(t) \/ UpsertFails(t)
          /\ loader.dry => changed = {}
          /\ BarsChange(changed)

\* market-ingest: a backfill of a symbol is one transaction, a bar from the
\* stream another.
Backfill(s) == BarsChange({s}) /\ UNCHANGED ingestVars

Next ==
    \/ IngestStep
    \/ \E s \in Symbols : Backfill(s)
    \/ FeatureStep /\ UNCHANGED ingestVars

Spec == Init /\ [][Next]_vars
=============================================================================
