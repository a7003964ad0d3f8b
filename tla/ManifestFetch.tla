--------------------------- MODULE ManifestFetch ---------------------------
(***************************************************************************)
(* Fetching and parsing a subscription manifest (subscription.rs): the     *)
(* curl process that is started, written to, read from and reaped, and the *)
(* node pool that is made of what it delivered.                            *)
(*                                                                         *)
(* Bytes are counted in chunks.  A manifest is a sequence of entries, a    *)
(* profile a sequence of files, each a manifest or unreadable.             *)
(***************************************************************************)
EXTENDS Naturals, Sequences, FiniteSets

CONSTANTS
    MaxBody,    \* MAX_REMOTE_MANIFEST_BYTES, in chunks
    Pipe,       \* chunks a pipe holds
    Attempts,   \* attempts to start curl
    Unreadable, \* a file that cannot be read or is not YAML
    Missing     \* a field that is not there, an entry that is no node

ASSUME FetchAssumption ==
    MaxBody \in Nat \ {0} /\ Pipe \in Nat \ {0} /\ Attempts \in Nat \ {0}

-----------------------------------------------------------------------------
(* The pool.                                                                *)

(* RawProxy: what an entry says; Node: what the pool is made of. *)
RawProxy == [kind : STRING, name : {Missing} \cup STRING, complete : BOOLEAN, plugin : STRING]
Node     == [name : {Missing} \cup STRING, kind : STRING, plugin : {"none"} \cup STRING]

ASSUME MissingAssumption == Missing \notin Node

(* ss_node: complete fields, and no plugin or obfs with a mode. *)
SsNode(entry) ==
    IF entry.complete /\ entry.plugin \in {"none", "obfs"}
    THEN [name |-> entry.name, kind |-> "ss", plugin |-> entry.plugin]
    ELSE Missing

(* anytls_node: there are no plugins. *)
AnytlsNode(entry) ==
    IF entry.complete THEN [name |-> entry.name, kind |-> "anytls", plugin |-> "none"]
    ELSE Missing

(* What becomes of an entry; `junk` is not even a RawProxy. *)
NodeOf(entry) ==
    CASE entry.kind = "ss"     -> SsNode(entry)
      [] entry.kind = "anytls" -> AnytlsNode(entry)
      [] OTHER                 -> Missing

NamesIn(pool) == {pool[i].name : i \in DOMAIN pool}

(* A node joins a pool unless its name is taken. *)
Join(pool, node) == IF node.name \in NamesIn(pool) THEN pool ELSE Append(pool, node)

(* parse_str_with_logging that notes the name before the entry is a node. *)
ParseStrNotingNames(entries) ==
    LET pool[n \in 0..Len(entries)] ==
          IF n = 0 THEN <<>>
          ELSE LET node == NodeOf(entries[n])
               IN  IF node = Missing \/ \E m \in 1..(n - 1) : entries[m].name = entries[n].name
                   THEN pool[n - 1] ELSE Append(pool[n - 1], node)
    IN  pool[Len(entries)]

(* parse_str_with_logging *)
ParseStr(entries) ==
    LET pool[n \in 0..Len(entries)] ==
          IF n = 0 THEN <<>>
          ELSE LET node == NodeOf(entries[n])
               IN  IF node = Missing THEN pool[n - 1] ELSE Join(pool[n - 1], node)
    IN  pool[Len(entries)]

(* The loop of load_all over the nodes of one file. *)
JoinAll(pool, nodes) ==
    LET joined[n \in 0..Len(nodes)] == IF n = 0 THEN pool ELSE Join(joined[n - 1], nodes[n])
    IN  joined[Len(nodes)]

(* load_all: files in order, unreadable ones skipped. *)
LoadAll(files) ==
    LET pool[n \in 0..Len(files)] ==
          IF n = 0 THEN <<>>
          ELSE IF files[n] = Unreadable THEN pool[n - 1]
          ELSE JoinAll(pool[n - 1], ParseStr(files[n]))
    IN  pool[Len(files)]

-----------------------------------------------------------------------------
(* The fetcher.                                                             *)

VARIABLES
    fetch,  \* fetch_remote_manifest_with: where it is, attempts, chunks read
    curl    \* the process: its state, chunks it has to deliver, chunks in the pipe

fetchVars == <<fetch, curl>>

Results == {"Body", "InvalidUrlFile", "FetchStart", "FetchIo", "TooLarge", "FetchFailed"}

FetchTypeOK ==
    /\ fetch.at \in {"idle", "spawn", "config", "read", "wait", "drop", "done"}
    /\ fetch.attempt \in 0..Attempts /\ fetch.got \in 0..(MaxBody + 1)
    /\ fetch.result \in Results \cup {"none"}
    /\ curl.at \in {"none", "config", "sending", "exited", "reaped"}
    /\ curl.left \in 0..(MaxBody + 2) /\ curl.pipe \in 0..Pipe

(* The provider has a body of some length. *)
FetchInit ==
    /\ fetch = [at |-> "idle", attempt |-> 0, got |-> 0, result |-> "none"]
    /\ \E n \in 0..(MaxBody + 2) :
          curl = [at |-> "none", left |-> n, pipe |-> 0, ok |-> FALSE, size |-> n]

(* The error is returned; what owns the process is dropped on the way. *)
Return(result) == fetch' = [fetch EXCEPT !.at = "drop", !.result = result]

(* A private file, not too long, with an https URL in it. *)
CheckUrlFile ==
    /\ fetch.at = "idle"
    /\ fetch' = [fetch EXCEPT !.at = "spawn"] \/ Return("InvalidUrlFile")
    /\ UNCHANGED curl

Spawned ==
    /\ fetch.at = "spawn" /\ fetch.attempt < Attempts
    /\ fetch' = [fetch EXCEPT !.at = "config"]
    /\ curl' = [curl EXCEPT !.at = "config"]

(* ETXTBSY: another attempt unless this is the last. *)
SpawnBusy ==
    /\ fetch.at = "spawn" /\ fetch.attempt < Attempts
    /\ IF fetch.attempt < Attempts - 1 THEN fetch' = [fetch EXCEPT !.attempt = @ + 1]
                                       ELSE Return("FetchStart")
    /\ UNCHANGED curl

SpawnFails == fetch.at = "spawn" /\ fetch.attempt < Attempts /\ Return("FetchStart") /\ UNCHANGED curl

(* The URL goes to curl's standard input, which is then closed. *)
WriteConfig ==
    /\ fetch.at = "config"
    /\ \/ /\ curl.at = "config"
          /\ fetch' = [fetch EXCEPT !.at = "read"]
          /\ curl' = [curl EXCEPT !.at = "sending"]
       \/ curl.at = "exited" /\ Return("FetchIo") /\ UNCHANGED curl

(* read_to_end of at most one chunk more than the limit: end of file comes *)
(* when the process is gone and the pipe is empty.                         *)
ReadBody ==
    /\ fetch.at = "read"
    /\ \/ /\ curl.pipe > 0 /\ fetch.got <= MaxBody
          /\ fetch' = [fetch EXCEPT !.got = @ + 1]
          /\ curl' = [curl EXCEPT !.pipe = @ - 1]
       \/ fetch.got > MaxBody /\ Return("TooLarge") /\ UNCHANGED curl
       \/ /\ curl.at = "exited" /\ curl.pipe = 0 /\ fetch.got <= MaxBody
          /\ fetch' = [fetch EXCEPT !.at = "wait"] /\ UNCHANGED curl
       \/ Return("FetchIo") /\ UNCHANGED curl

(* FetchWait that does not look at the status. *)
FetchWaitAnyStatus ==
    /\ fetch.at = "wait" /\ curl.at = "exited"
    /\ Return("Body")
    /\ curl' = [curl EXCEPT !.at = "reaped"]

(* wait: the status decides, and whether the body is UTF-8. *)
FetchWait ==
    /\ fetch.at = "wait" /\ curl.at = "exited"
    /\ \/ /\ (curl.ok /\ Return("Body")) \/ Return("FetchFailed")
          /\ curl' = [curl EXCEPT !.at = "reaped"]
       \/ Return("FetchIo") /\ UNCHANGED curl

(* Drop that only waits for a process that may be blocked. *)
DropFetcherWaits ==
    /\ fetch.at = "drop" /\ curl.at \in {"none", "exited", "reaped"}
    /\ fetch' = [fetch EXCEPT !.at = "done"]
    /\ curl' = [curl EXCEPT !.at = IF @ = "none" THEN @ ELSE "reaped"]

(* Drop of OwnedFetcher: unless it was waited for, kill and wait. *)
DropFetcher ==
    /\ fetch.at = "drop"
    /\ fetch' = [fetch EXCEPT !.at = "done"]
    /\ curl' = [curl EXCEPT !.at = IF @ = "none" THEN @ ELSE "reaped"]

(* External: curl sends what it gets, as far as the pipe takes it, ... *)
CurlSends ==
    /\ curl.at = "sending" /\ curl.left > 0 /\ curl.pipe < Pipe
    /\ curl' = [curl EXCEPT !.left = @ - 1, !.pipe = @ + 1]
    /\ UNCHANGED fetch

(* ... ends well at the end of the body, or badly at any time (--fail,     *)
(* --max-time).  It is not heard of while it is blocked.                   *)
CurlExits ==
    /\ \/ curl.at = "sending" /\ curl.left = 0 /\ curl' = [curl EXCEPT !.at = "exited", !.ok = TRUE]
       \/ curl.at \in {"config", "sending"} /\ curl.pipe < Pipe
          /\ curl' = [curl EXCEPT !.at = "exited"]
    /\ UNCHANGED fetch

FetchStep ==
    \/ CheckUrlFile \/ Spawned \/ SpawnBusy \/ SpawnFails \/ WriteConfig
    \/ ReadBody \/ FetchWait \/ DropFetcher

FetchNext == FetchStep \/ CurlSends \/ CurlExits

-----------------------------------------------------------------------------
(***************************************************************************)
(* OnlyWholeBodies.  A body that is accepted is the provider's, complete   *)
(* and within the limit: neither curl's failure after some of it nor the   *)
(* limit on what is read passes a truncated manifest off as the new pool   *)
(* (communicate_with_fetcher_limit).                                       *)
(***************************************************************************)
OnlyWholeBodies == fetch.result = "Body" => fetch.got = curl.size /\ curl.size <= MaxBody

(***************************************************************************)
(* FetcherReaped.  However a fetch ends, its process is neither running    *)
(* nor a zombie afterwards ("Own a fetcher from spawn through its final    *)
(* wait", subscription.rs).                                                *)
(***************************************************************************)
FetcherReaped == fetch.at = "done" => curl.at \in {"none", "reaped"}

(***************************************************************************)
(* FetchEnds.  Every fetch ends: the attempts to start curl with a process *)
(* or an error, and a body beyond the limit, which leaves curl blocked on  *)
(* a pipe that nobody reads, with the process killed (OwnedFetcher).       *)
(***************************************************************************)
FetchEnds == (fetch.at # "idle") ~> (fetch.at = "done")

(***************************************************************************)
(* FetchEndsReaped.  Every fetch ends, and leaves no process behind        *)
(* (FetchEnds, FetcherReaped).                                             *)
(***************************************************************************)
FetchEndsReaped == FetchEnds /\ []FetcherReaped

-----------------------------------------------------------------------------
(***************************************************************************)
(* The inductive invariant behind OnlyWholeBodies: no chunk is lost or     *)
(* made up, a good exit comes after the last one, and the end of file is   *)
(* seen when the pipe of a process that is gone has been emptied.          *)
(***************************************************************************)
FetchInv ==
    /\ fetch \in [at : {"idle", "spawn", "config", "read", "wait", "drop", "done"},
                  attempt : Nat, got : Nat, result : Results \cup {"none"}]
    /\ curl \in [at : {"none", "config", "sending", "exited", "reaped"},
                 left : Nat, pipe : Nat, ok : BOOLEAN, size : Nat]
    /\ fetch.got + curl.pipe + curl.left = curl.size
    /\ curl.ok => curl.left = 0
    /\ fetch.at = "wait" => curl.at = "exited" /\ curl.pipe = 0 /\ fetch.got <= MaxBody
    /\ fetch.result # "none" => fetch.at \in {"drop", "done"}
    /\ fetch.at = "done" => curl.at \in {"none", "reaped"}
    /\ fetch.result = "Body" => /\ curl.at = "reaped"
                                /\ fetch.got = curl.size /\ curl.size <= MaxBody

=============================================================================
