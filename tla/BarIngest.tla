------------------------------ MODULE BarIngest ------------------------------
(***************************************************************************)
(* scripts/ingest_sharadar.py: the CSV files of SHARADAR are read and      *)
(* upserted chunk by chunk, every chunk in a transaction of its own, one   *)
(* file after the other; a file that fails is rolled back and told of, and *)
(* the next one is taken.  The script may be run for some of the tables    *)
(* (--tables), may skip what looks loaded (--resume) or only read          *)
(* (--dry-run), may be run again, and may be killed.                       *)
(*                                                                         *)
(* Operators named Mutant... are slips of the definition that follows them *)
(* and are used by no definition.                                          *)
(***************************************************************************)
EXTENDS Integers, Sequences

CONSTANTS Size,    \* chunks of the CSV file of each table, in the order they go
          Expected \* EXPECTED_COUNTS, in chunks

ASSUME IngestAssumption ==
    /\ Size \in Seq(Nat \ {0})
    /\ Expected \in [1 .. Len(Size) -> Nat \ {0}]

VARIABLES loaded,  \* chunks of each file whose rows are committed
          loader,  \* the run of the script: file and chunk it is at
          outcome  \* what the run at hand says of each table

ingestVars == <<loaded, loader, outcome>>

Tables == 1 .. Len(Size)

LoaderType == [table : Nat, chunk : Nat, tables : SUBSET Tables,
               resume : BOOLEAN, dry : BOOLEAN]

IngestTypes ==
    /\ loaded \in [Tables -> Nat]
    /\ loader \in LoaderType
    /\ loader.table <= Len(Size) + 1
    /\ loader.table \in Tables => loader.chunk <= Size[loader.table] + 1
    /\ outcome \in [Tables -> {"none", "ok", "skipped", "error"}]

\* table 0: the script is not running; chunk 0: the file has not been opened.
NoLoader == [table |-> 0, chunk |-> 0, tables |-> {}, resume |-> FALSE, dry |-> FALSE]
Silence  == [t \in Tables |-> "none"]

IngestInit ==
    /\ loaded = [t \in Tables |-> 0]
    /\ loader = NoLoader
    /\ outcome = Silence

-----------------------------------------------------------------------------
\* Of the tables chosen, t is followed by u; Len(Size) + 1 is the end.
Follows(chosen, t, u) ==
    /\ t < u
    /\ u \in chosen \cup {Len(Size) + 1}
    /\ \A v \in chosen : ~(t < v /\ v < u)

\* --tables names one at least; a dry run does not look at --resume.
RunIngest(chosen, resume, dry) ==
    /\ loader = NoLoader /\ chosen # {}
    /\ \E u \in Tables :
          /\ Follows(chosen, 0, u)
          /\ loader' = [table |-> u, chunk |-> 0, tables |-> chosen,
                        resume |-> resume /\ ~dry, dry |-> dry]
    /\ outcome' = Silence
    /\ UNCHANGED loaded

\* A table is told of, and the next one is taken.
NextTable(t, said) ==
    /\ \E u \in 1 .. Len(Size) + 1 :
          /\ Follows(loader.tables, t, u)
          /\ loader' = [loader EXCEPT !.table = u, !.chunk = 0]
    /\ outcome' = [outcome EXCEPT ![t] = said]

\* check_resume: more than 80% of what is expected is there.
LooksLoaded(t) == loaded[t] * 5 > Expected[t] * 4

Skip(t) ==
    /\ loader.table = t /\ loader.chunk = 0 /\ loader.resume /\ LooksLoaded(t)
    /\ NextTable(t, "skipped")
    /\ UNCHANGED loaded

\* check_resume answers "no" also when its query raises, and the file is opened
\* whatever is there; but the transaction is aborted by then, so that storing
\* the first chunk raises as well.
ResumeFails(t) ==
    /\ loader.table = t /\ loader.chunk = 0 /\ loader.resume
    /\ NextTable(t, "error")
    /\ UNCHANGED loaded

Open(t) ==
    /\ loader.table = t /\ loader.chunk = 0 /\ ~(loader.resume /\ LooksLoaded(t))
    /\ loader' = [loader EXCEPT !.chunk = 1]
    /\ UNCHANGED <<loaded, outcome>>

\* Rows that are there already are updated; a dry run stores none.
Commit(t) ==
    loaded' = [loaded EXCEPT ![t] = IF loader.dry \/ @ >= loader.chunk THEN @ ELSE loader.chunk]

\* A chunk too many is asked of the reader.
MutantUpsertPastEnd(t) ==
    /\ loader.table = t /\ loader.chunk \in 1 .. Size[t] + 1
    /\ Commit(t)
    /\ loader' = [loader EXCEPT !.chunk = @ + 1]
    /\ UNCHANGED outcome

\* A chunk is gone on to before the one at hand is committed.
MutantUpsertChunk(t) ==
    /\ loader.table = t /\ loader.chunk \in 1 .. Size[t]
    /\ loader' = [loader EXCEPT !.chunk = @ + 1]
    /\ Commit(t) \/ UNCHANGED loaded
    /\ UNCHANGED outcome

UpsertChunk(t) ==
    /\ loader.table = t /\ loader.chunk \in 1 .. Size[t]
    /\ Commit(t)
    /\ loader' = [loader EXCEPT !.chunk = @ + 1]
    /\ UNCHANGED outcome

\* Reading or storing a chunk raises, the latter before or after its commit.
UpsertFails(t) ==
    /\ loader.table = t /\ loader.chunk \in 1 .. Size[t]
    /\ Commit(t) \/ UNCHANGED loaded
    /\ NextTable(t, "error")

\* Also of a dry run, which has stored nothing.
Close(t) ==
    /\ loader.table = t /\ loader.chunk = Size[t] + 1
    /\ NextTable(t, "ok")
    /\ UNCHANGED loaded

\* The script has told of its tables and is done, or is killed, after a commit
\* or before it.
Stop ==
    /\ loader.table # 0
    /\ loader' = NoLoader
    /\ outcome' = Silence
    /\ UNCHANGED loaded

-----------------------------------------------------------------------------
(* Properties                                                              *)

\* What a run of the script says, also after others that failed or were killed:
\* it tells of every table chosen that it is past and of no other, and when it
\* says "ok" of one, all its rows are stored, unless it was a dry run (whose
\* "ok" looks the same and says nothing of the database).
LoadIsTrue ==
    \A t \in Tables :
        /\ outcome[t] # "none" <=> t \in loader.tables /\ t < loader.table
        /\ outcome[t] = "ok" /\ ~loader.dry => loaded[t] = Size[t]
=============================================================================
