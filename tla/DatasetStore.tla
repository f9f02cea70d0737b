----------------------------- MODULE DatasetStore -----------------------------
(***************************************************************************)
(* The datasets of dataset-builder: building one (feature rows are         *)
(* fetched and split, the splits and a manifest are put into the object    *)
(* store, a row is inserted) and deleting one (the row goes, then whatever *)
(* lies under its path).  Handlers run in threads of their own, so any     *)
(* number of them is under way at a time.                                  *)
(*                                                                         *)
(* The path of a dataset is made from a hash of what was asked for: two    *)
(* datasets built from the same request share their objects, and nothing   *)
(* keeps their builds and deletions apart.  A put, an insert or a commit   *)
(* may raise having been applied, and a crash ends every handler.          *)
(*                                                                         *)
(* Operators named Mutant... are slips of the definition that follows them *)
(* and are used by no definition.                                          *)
(***************************************************************************)
EXTENDS Integers

CONSTANTS Requests, \* build requests and the datasets that come of them
          Configs,  \* what a request may ask for: [splits, num, den],
                    \* train_frac being num / den
          MaxDates  \* bound on the trading days found

ASSUME DatasetAssumption ==
    /\ MaxDates \in Nat
    /\ Configs # {}
    /\ \A c \in Configs : /\ c.splits \in Nat \ {0}
                          /\ c.num \in Nat /\ c.den \in Nat \ {0}
                          /\ c.num < c.den

VARIABLES req,   \* a request or its dataset: how far it is, what it is of
          files, \* objects under the path of a config: 0 is manifest.json,
                 \* 2i - 1 and 2i are train.parquet and test.parquet of split i
          hit    \* history: datasets that lost an object to another request

vars == <<req, files, hit>>

Keys(c) == 0 .. 2 * c.splits

Stages == {"idle", "upload", "cleanup", "manifest", "record", "registered", "list", "remove"}

ReqType == [pc : Stages, config : Configs, dates : 0 .. MaxDates, put : Nat, listed : SUBSET Nat]

TypeOK ==
    /\ req \in [Requests -> ReqType]
    /\ \A r \in Requests : /\ req[r].put <= 2 * req[r].config.splits
                           /\ req[r].listed \subseteq Keys(req[r].config)
    /\ DOMAIN files = Configs
    /\ \A c \in Configs : files[c] \subseteq Keys(c)
    /\ hit \subseteq Requests

\* No request: which config it has makes no difference.
Idle == [pc |-> "idle", config |-> CHOOSE c \in Configs : TRUE, dates |-> 0,
         put |-> 0, listed |-> {}]

Init ==
    /\ req = [r \in Requests |-> Idle]
    /\ files = [c \in Configs |-> {}]
    /\ hit = {}

-----------------------------------------------------------------------------
(* build_walk_forward_splits, by index into the n sorted dates.  Where it  *)
(* breaks off for want of a test window it cannot: see SplitsWalkForward.  *)

AtMost(a, b)  == IF a <= b THEN a ELSE b
AtLeast(a, b) == IF a >= b THEN a ELSE b

\* The last date is not kept for the test window.
MutantTrainEnd(c, n, i) == (n * c.num * i) \div (c.den * c.splits)

TrainEnd(c, n, i) == AtMost((n * c.num * i) \div (c.den * c.splits), n - 2)

TestStart(c, n, i) == TrainEnd(c, n, i) + 1

\* What is left of the dates is shared evenly by the splits that are left.
TestEnd(c, n, i) ==
    LET window == AtLeast(1, (n - TestStart(c, n, i)) \div (c.splits - i + 1))
    IN  AtMost(TestStart(c, n, i) + window - 1, n - 1)

-----------------------------------------------------------------------------
(* POST /datasets/build                                                    *)

Go(r, pc) == req' = [req EXCEPT ![r].pc = pc]

End(r) == req' = [req EXCEPT ![r] = Idle]

\* fetch_features has found n dates; with fewer than this the answer is 422.
Build(r, c, n) ==
    /\ req[r].pc = "idle"
    /\ n >= c.splits + 1
    /\ req' = [req EXCEPT ![r] = [pc |-> "upload", config |-> c, dates |-> n,
                                  put |-> 0, listed |-> {}]]
    /\ hit' = hit \ {r}
    /\ UNCHANGED files

AddFile(r, k) == files' = [files EXCEPT ![req[r].config] = @ \cup {k}]

\* One file too many is put.
MutantUploadParquet(r) ==
    LET n == req[r].put + 1 IN
    /\ req[r].pc = "upload"
    /\ AddFile(r, n)
    /\ req' = [req EXCEPT ![r].put = n,
                          ![r].pc = IF n > 2 * req[r].config.splits THEN "manifest" ELSE @]
    /\ UNCHANGED hit

\* The next parquet file is put.
UploadParquet(r) ==
    LET n == req[r].put + 1 IN
    /\ req[r].pc = "upload"
    /\ AddFile(r, n)
    /\ req' = [req EXCEPT ![r].put = n,
                          ![r].pc = IF n = 2 * req[r].config.splits THEN "manifest" ELSE @]
    /\ UNCHANGED hit

\* The put raises: what was put before it is to be deleted.
UploadFails(r) ==
    /\ req[r].pc = "upload"
    /\ IF req[r].put = 0 THEN End(r) ELSE Go(r, "cleanup")
    /\ AddFile(r, req[r].put + 1) \/ UNCHANGED files
    /\ UNCHANGED hit

\* What a build has put so far, or a dataset consists of.
Put(r) ==
    CASE req[r].pc \in {"upload", "manifest"} -> 1 .. req[r].put
      [] req[r].pc \in {"record", "registered"} -> Keys(req[r].config)
      [] OTHER -> {}

\* Objects that a request deletes may be another's as well.
Delete(r, keys) ==
    /\ files' = [files EXCEPT ![req[r].config] = @ \ keys]
    /\ hit' = hit \cup {q \in Requests \ {r} : req[q].config = req[r].config /\ Put(q) \cap keys # {}}

\* As much of it is deleted as the store will; errors are swallowed.
CleanUp(r) ==
    /\ req[r].pc = "cleanup"
    /\ End(r)
    /\ \E keys \in SUBSET (1 .. req[r].put) : Delete(r, keys)

\* From here on a failure leaves the objects where they are.
PutManifest(r) ==
    /\ req[r].pc = "manifest"
    /\ \/ AddFile(r, 0) /\ Go(r, "record")
       \/ AddFile(r, 0) /\ End(r)
       \/ UNCHANGED files /\ End(r)
    /\ UNCHANGED hit

\* The row is inserted as soon as the parquet files are there.
MutantRegisterManifest(r) ==
    /\ req[r].pc = "manifest"
    /\ Go(r, "registered")
    /\ UNCHANGED <<files, hit>>

\* The insert is committed, answered or not, or it is not.
RegisterManifest(r) ==
    /\ req[r].pc = "record"
    /\ Go(r, "registered") \/ End(r)
    /\ UNCHANGED <<files, hit>>

-----------------------------------------------------------------------------
(* DELETE /datasets/{id}                                                   *)

\* The files go first, and the row when that has been done.
MutantDeleteDataset(r) ==
    /\ req[r].pc = "registered"
    /\ \/ Delete(r, files[req[r].config]) /\ UNCHANGED req
       \/ files[req[r].config] = {} /\ End(r) /\ UNCHANGED <<files, hit>>

\* The deletion of the row is committed; what is to follow it may not.
DeleteDataset(r) ==
    /\ req[r].pc = "registered"
    /\ Go(r, "list") \/ End(r)
    /\ UNCHANGED <<files, hit>>

\* The objects under the path are listed, or that raises and they stay.
ListObjects(r) ==
    /\ req[r].pc = "list"
    /\ \/ req' = [req EXCEPT ![r].pc = "remove", ![r].listed = files[req[r].config]]
       \/ End(r)
    /\ UNCHANGED <<files, hit>>

\* As much of what was listed is deleted as the store will.
DeleteObjects(r) ==
    /\ req[r].pc = "remove"
    /\ End(r)
    /\ \E keys \in SUBSET req[r].listed : Delete(r, keys)

Crash ==
    /\ req' = [r \in Requests |-> IF req[r].pc = "registered" THEN req[r] ELSE Idle]
    /\ UNCHANGED <<files, hit>>

-----------------------------------------------------------------------------
Handler(r) ==
    \/ \E c \in Configs, n \in 0 .. MaxDates : Build(r, c, n)
    \/ UploadParquet(r) \/ UploadFails(r) \/ CleanUp(r)
    \/ PutManifest(r) \/ RegisterManifest(r)
    \/ DeleteDataset(r) \/ ListObjects(r) \/ DeleteObjects(r)

Next == Crash \/ \E r \in Requests : Handler(r)

Spec == Init /\ [][Next]_vars

-----------------------------------------------------------------------------
(* Properties                                                              *)

\* A dataset that is listed has all its objects, whatever failed while it, or
\* another one, was built or deleted, unless a request for the same config has
\* deleted objects that were its own too.
DatasetComplete ==
    \A r \in Requests :
        req[r].pc = "registered" /\ r \notin hit => files[req[r].config] = Keys(req[r].config)

\* The splits of a build never test on a date they train on or on none, both
\* windows move forward from split to split, and the last reaches the end.
WalksForward(c, n) ==
    /\ \A i \in 1 .. c.splits :
          /\ 0 <= TrainEnd(c, n, i) /\ TrainEnd(c, n, i) < TestStart(c, n, i)
          /\ TestStart(c, n, i) <= TestEnd(c, n, i) /\ TestEnd(c, n, i) < n
    /\ \A i \in 1 .. c.splits - 1 :
          /\ TrainEnd(c, n, i) <= TrainEnd(c, n, i + 1)
          /\ TestEnd(c, n, i) <= TestEnd(c, n, i + 1)
    /\ TestEnd(c, n, c.splits) = n - 1

SplitsWalkForward ==
    \A r \in Requests : req[r].pc # "idle" => WalksForward(req[r].config, req[r].dates)
=============================================================================
