---------------------------- MODULE ClientServer ----------------------------
(***************************************************************************)
(* The storage as the command line client drives it: makeApiCall and       *)
(* recDirWrite in client.c turn an option and a file into a sequence of    *)
(* calls of api.c, which goes on by what the server answers.  Each call is *)
(* one request, and its step is the handler of Storage.tla together with   *)
(* the client that gets the answer.                                        *)
(*                                                                         *)
(* An option with a list of files, or with a directory, is one option for  *)
(* each of them, in any order.  What an option does locally (reading the   *)
(* file to send, saving the files received) only appears where its failure *)
(* leaves the sequence.  A client whose option failed goes on with the     *)
(* next one, and ends with closeConnection.                                *)
(***************************************************************************)
EXTENDS Storage

CONSTANTS
    OptionsOf,      \* the options that the clients of each descriptor use
    NoJob           \* a client between two options

VARIABLES
    job,            \* the option each client works at, on which file, and its next call
    careless        \* history: the descriptors whose client left an option without CLOSE

clientvars == <<vars, job, careless>>

(* -w and -W write, -r reads, -l locks, -u unlocks, -c removes a file.     *)
Options == {"w", "W", "r", "l", "u", "c"}
Calls == {"create", "open", "write", "append", "read", "lock", "unlock", "remove", "close"}
Jobs == [option : Options, path : Paths, next : Calls]

ASSUME OptionsAssumption == OptionsOf \in [Clients -> SUBSET Options]
ASSUME NoJobAssumption == NoJob \notin Jobs

ClientsInit ==
    /\ Init
    /\ job = [c \in Clients |-> NoJob]
    /\ careless = {}

-----------------------------------------------------------------------------
Writing(option) == option \in {"w", "W"}

FirstCall(option) == IF Writing(option) THEN "create" ELSE "open"

(* The call that an option makes between OPEN and CLOSE.                   *)
Middle(option) ==
    CASE Writing(option) -> "append"
      [] option = "r" -> "read"
      [] option = "l" -> "lock"
      [] option = "u" -> "unlock"
      [] option = "c" -> "remove"

(* What follows a call, by whether its answer was OK; "none" leaves the    *)
(* option.  The calls of api.c tell a refusal from an error, so that       *)
(* only -w and -W look at the answer to OPEN; -W gives up when both kinds  *)
(* of OPEN are refused, -w goes on to CLOSE.  A -r may fail to save what   *)
(* it has read.                                                            *)
FollowingHasty(option, call, ok) ==                 \* mutant: the answer to OPEN is not tested
    CASE call = "create" -> {"write"}
      [] call = "open" -> {Middle(option)}
      [] call \in {"read", "write", "append", "lock", "unlock"} -> {"close"}
      [] call \in {"remove", "close"} -> {"none"}

Following(option, call, ok) ==
    CASE call = "create" -> IF ok THEN {"write"} ELSE {"open"}
      [] call = "open" /\ Writing(option) /\ ~ok -> IF option = "W" THEN {"none"} ELSE {"close"}
      [] call = "open" /\ (~Writing(option) \/ ok) -> {Middle(option)}
      [] call = "read" -> IF ok THEN {"close", "none"} ELSE {"close"}
      [] call \in {"write", "append", "lock", "unlock"} -> {"close"}
      [] call \in {"remove", "close"} -> {"none"}

(* The client goes on with its next call, or leaves the option.            *)
GoOn(c, j, next) ==
    job' = [job EXCEPT ![c] = IF next = "none" THEN NoJob ELSE [j EXCEPT !.next = next]]

(* It leaves the option, and the server may still have it as an opener.    *)
LeavesOpen(j, next, ok) ==
    next = "none" /\ j.next # "close" /\ ~(j.next = "remove" /\ ok)

(* The answer to client c, which makes the call of j, if this step brings  *)
(* one.  The handler may also end the server, or start to evict.           *)
Answered(c, j) ==
    \/ /\ sent' = {}
       /\ job' = [job EXCEPT ![c] = j]
       /\ UNCHANGED careless
    \/ \E r \in sent' :
          /\ r.to = c /\ r.path = j.path
          /\ \E next \in Following(j.option, j.next, r.code = "OK") :
                /\ GoOn(c, j, next)
                /\ careless' = IF LeavesOpen(j, next, r.code = "OK")
                               THEN careless \cup {c} ELSE careless

(* One call of api.c: the request, its handler, the answer.  appendToFile  *)
(* fails before it would send a request without data.                      *)
Request(c, p, call) ==
    \/ call = "create" /\ OpenCreate(c, p, FALSE)
    \/ call = "open" /\ OpenExisting(c, p, FALSE)
    \/ call = "write" /\ \E n \in Sizes : WriteFile(c, p, n)
    \/ call = "append" /\ \E n \in Sizes \ {0} : AppendToFile(c, p, n)
    \/ call = "read" /\ ReadFile(c, p)
    \/ call = "lock" /\ LockFile(c, p)
    \/ call = "unlock" /\ UnlockFile(c, p)
    \/ call = "remove" /\ RemoveFile(c, p)
    \/ call = "close" /\ CloseFile(c, p)

Call(c, j) == Request(c, j.path, j.next) /\ Answered(c, j)

(* The next option of the command line, and its first call.                *)
Begin(c, option, p) ==
    /\ job[c] = NoJob
    /\ option \in OptionsOf[c]
    /\ Call(c, [option |-> option, path |-> p, next |-> FirstCall(option)])

Continue(c) == job[c] # NoJob /\ Call(c, job[c])

(* The eviction loop of a WRITE, and its answer at the end.                *)
ContinueWrite ==
    \/ EvictOne /\ UNCHANGED <<job, careless>>
    \/ /\ FinishWrite
       /\ Answered(writing.client, job[writing.client])

(* The file to send cannot be read, or is empty where it should be         *)
(* appended: -W leaves the option, and so does -w, unless the failure is   *)
(* one of writeFile or appendToFile.                                       *)
LocalFailure(c) ==
    /\ status = "running" /\ writing = NoWrite
    /\ job[c] # NoJob
    /\ job[c].next \in {"write", "append"}
    /\ \E next \in {"close", "none"} :
          /\ next = "close" => job[c].option = "w"
          /\ next = "none" => job[c].option = "W" \/ job[c].next = "append"
          /\ GoOn(c, job[c], next)
          /\ careless' = IF next = "none" THEN careless \cup {c} ELSE careless
    /\ UNCHANGED vars

(* -R asks for n files, or for all.                                        *)
ReadN(c) ==
    /\ job[c] = NoJob
    /\ \E n \in Counts : ReadNFiles(c, n)
    /\ UNCHANGED <<job, careless>>

(* openConnection before the first option, closeConnection after the last. *)
Connection(c) ==
    /\ job[c] = NoJob
    /\ Accept(c) \/ CloseConnection(c)
    /\ UNCHANGED <<job, careless>>

(* The client is killed in the middle of its options.                      *)
Killed(c) == ClientDies(c) /\ UNCHANGED <<job, careless>>

ClientsNext ==
    \/ \E c \in Clients, option \in Options, p \in Paths : Begin(c, option, p)
    \/ \E c \in Clients : Continue(c) \/ LocalFailure(c) \/ ReadN(c) \/ Connection(c) \/ Killed(c)
    \/ ContinueWrite

ClientsSpec == ClientsInit /\ [][ClientsNext]_clientvars

-----------------------------------------------------------------------------
(* The types of the storage, of the options and of the history.            *)
ClientsTypeOK ==
    /\ TypeOK
    /\ job \in [Clients -> Jobs \cup {NoJob}]
    /\ careless \subseteq Clients

(* A client that has never left an option before its CLOSE, nor one before *)
(* it with the same descriptor, is an opener of a file of the FIFO only    *)
(* while an option of its own works on that file, and only once: whatever  *)
(* was removed, evicted and created anew under the same name meanwhile,    *)
(* no open outlives its option or its connection (client.c:247-476,        *)
(* server.c:418, 983).                                                     *)
Opens(c, p) == Cardinality({i \in DOMAIN openers[p].items : openers[p].items[i] = c})

CarefulClientsClose ==
    \A c \in Clients \ careless, p \in Elements(filepaths) :
        IsOpener(p, c) => Opens(c, p) = 1 /\ job[c] # NoJob /\ job[c].path = p

(* A WRITE is denied only if between the two requests another client has   *)
(* locked the file, or has replaced it: the creator has not lost its place *)
(* among the openers by what others opened and closed, and nobody can have *)
(* filled its file (client.c:259-260, server.c:583).                       *)
WriteRefused ==
    \A r \in sent' :
        r.op = "WRITE" /\ r.code = "DENIED" =>
            creator[r.path] # r.to \/ locker[r.path] \notin {0, r.to}

WriteOnlyRefusedIfTaken == [][WriteRefused]_sent

(* A file whose first WRITE did not take place stays empty for as long as  *)
(* it is stored: no later option of any client fills it, not even of one   *)
(* that gets the descriptor of its creator, because the creator may no     *)
(* longer be in the middle of its option (server.c:583, 592, 712).         *)
Filling(p) ==
    \E c \in Clients :
        job[c] # NoJob /\ job[c].path = p /\ job[c].next = "write" /\ creator[p] = c

OrphanStep ==
    \A p \in hashtable :
        datasize[p] = 0 /\ ~Filling(p) /\ p \in hashtable' => datasize'[p] = 0 /\ creator'[p] = creator[p]

OrphansStay == [][OrphanStep]_clientvars
=============================================================================
