------------------------------ MODULE Commands ------------------------------
(***************************************************************************)
(* The commands of src/execute/*.cpp, run by several threads against the   *)
(* one storage they share.  A command is a short program of storage calls; *)
(* each call is the atomic section of MapBasedGlobalLockImpl, and between  *)
(* two calls of one command any other thread may run whole calls of its    *)
(* own.                                                                    *)
(*                                                                         *)
(* Data blocks are sequences of tags, so that "value + args" is `\o' and   *)
(* size() is Len.                                                          *)
(***************************************************************************)
EXTENDS MapBasedGlobalLockImpl

CONSTANTS
  Client,     \* the threads that execute commands
  Args,       \* the data blocks clients send
  GetKeys,    \* the key lists a get command may name
  Names,      \* the commands in use
  NoClient    \* nobody holds the storage's lock

StoreNames == {"set", "add", "append", "replace"}

ASSUME CommandsAssumption ==
  /\ Args \subseteq Value
  /\ \A v \in Value : ValueSize[v] = Len(v)
  /\ \A k \in Key, v \in Value, a \in Args :
       ItemSize(k, v) <= MaxSize => v \o a \in Value
  /\ GetKeys \subseteq Seq(Key)
  /\ Names \subseteq StoreNames \cup {"get", "stats"}
  /\ NoClient \notin Client

VARIABLES
  cmd,        \* per thread: the command it executes and its local variables
  holder      \* the thread whose storage call is in progress

cvars == <<vars, cmd, holder>>

Idle == [pc |-> "idle", name |-> "none", keys |-> <<>>, args |-> <<>>,
         value |-> <<>>, out |-> "none", items |-> <<>>, wrote |-> FALSE]

CTypeOK ==
  /\ holder \in Client \cup {NoClient}
  /\ cmd \in [Client ->
       [pc : {"idle", "first", "second", "done"},
        name : Names \cup {"none"},
        keys : Seq(Key),
        args : Args \cup {<<>>},
        value : Value \cup {<<>>},
        out : {"none", "STORED", "NOT_STORED", "END"},
        items : Seq(Key \X Value),
        wrote : BOOLEAN]]

CInit == Init /\ cmd = [c \in Client |-> Idle] /\ holder = NoClient

-----------------------------------------------------------------------------
(* A command arrives; its result is sent. *)

Begin(c, name, keys, args) ==
  /\ ~fault /\ cmd[c].pc = "idle"
  /\ name \in Names
  /\ cmd' = [cmd EXCEPT ![c] = [Idle EXCEPT !.pc = "first", !.name = name,
                                            !.keys = keys, !.args = args]]
  /\ UNCHANGED <<vars, holder>>

Finish(c) ==
  /\ ~fault /\ cmd[c].pc = "done"
  /\ cmd' = [cmd EXCEPT ![c] = Idle]
  /\ UNCHANGED <<vars, holder>>

-----------------------------------------------------------------------------
(* The storage call a command makes next: its operation and its arguments.  *)

NextCall(m) ==
  LET k == Head(m.keys)
  IN  CASE m.name = "set"     -> <<"Put", k, m.args>>
        [] m.name = "add"     -> <<"PutIfAbsent", k, m.args>>
        [] m.name = "append"  -> IF m.pc = "first" THEN <<"Get", k, None>>
                                 ELSE <<"Put", k, m.value \o m.args>>
        [] m.name = "replace" -> IF m.pc = "first" THEN <<"Get", k, None>>
                                 ELSE <<"Set", k, m.args>>
        [] m.name = "get"     -> <<"Get", k, None>>

Enter(c) ==
  /\ cmd[c].pc \in {"first", "second"} /\ cmd[c].name # "stats" /\ cmd[c].keys # <<>>
  /\ LET n == NextCall(cmd[c]) IN Lock(n[1], n[2], n[3])
  /\ holder' = c
  /\ UNCHANGED cmd

(* The call of command `name' returns, and the command goes on with m. *)
Returned(c, name, m) ==
  /\ holder = c /\ cmd[c].name = name
  /\ Unlock
  /\ holder' = NoClient
  /\ cmd' = [cmd EXCEPT ![c] =
       [m EXCEPT !.wrote = @ \/ (call.op \in StoreOps /\ call.ok)]]

Done(m, out) == [m EXCEPT !.pc = "done", !.out = out]

(* The result of Put is ignored. *)
SetExecute(c) == Returned(c, "set", Done(cmd[c], "STORED"))

(* Mutant: the result of PutIfAbsent is ignored. *)
AddExecute_AlwaysStored(c) == Returned(c, "add", Done(cmd[c], "STORED"))

AddExecute(c) ==
  Returned(c, "add", Done(cmd[c], IF call.ok THEN "STORED" ELSE "NOT_STORED"))

(* Mutant: a miss is not noticed. *)
AppendExecute_NoMiss(c) ==
  Returned(c, "append",
    IF cmd[c].pc = "second" THEN Done(cmd[c], "STORED")
    ELSE [cmd[c] EXCEPT !.pc = "second", !.value = call.out])

(* Get, then Put of the value read plus the data; Put's result is ignored. *)
AppendExecute(c) ==
  Returned(c, "append",
    IF cmd[c].pc = "second" THEN Done(cmd[c], "STORED")
    ELSE IF call.ok THEN [cmd[c] EXCEPT !.pc = "second", !.value = call.out]
    ELSE Done(cmd[c], "NOT_STORED"))

(* Get, then Set; Set's result is ignored. *)
ReplaceExecute(c) ==
  Returned(c, "replace",
    IF cmd[c].pc = "second" THEN Done(cmd[c], "STORED")
    ELSE IF call.ok THEN [cmd[c] EXCEPT !.pc = "second"]
    ELSE Done(cmd[c], "NOT_STORED"))

(* Mutant: a miss reports what the previous key left in the local variable. *)
GetExecute_StaleValue(c) ==
  Returned(c, "get",
    [cmd[c] EXCEPT
       !.keys = Tail(@),
       !.items = IF call.ok THEN Append(@, <<call.key, call.out>>)
                 ELSE IF @ # <<>> THEN Append(@, <<call.key, @[Len(@)][2]>>) ELSE @])

(* One turn of the loop over _keys: a miss is skipped. *)
GetExecute(c) ==
  Returned(c, "get",
    [cmd[c] EXCEPT
       !.keys = Tail(@),
       !.items = IF call.ok THEN Append(@, <<call.key, call.out>>) ELSE @])

GetEnd(c) ==
  /\ ~fault /\ cmd[c].name = "get" /\ cmd[c].pc = "first" /\ cmd[c].keys = <<>>
  /\ cmd' = [cmd EXCEPT ![c] = Done(@, "END")]
  /\ UNCHANGED <<vars, holder>>

StatsExecute(c) ==
  /\ ~fault /\ cmd[c].name = "stats" /\ cmd[c].pc = "first"
  /\ cmd' = [cmd EXCEPT ![c] = Done(@, "END")]
  /\ UNCHANGED <<vars, holder>>

-----------------------------------------------------------------------------
CNext ==
  \/ Step /\ UNCHANGED <<cmd, holder>>
  \/ \E c \in Client :
       \/ \E name \in StoreNames, k \in Key, a \in Args : Begin(c, name, <<k>>, a)
       \/ \E keys \in GetKeys : Begin(c, "get", keys, <<>>)
       \/ Begin(c, "stats", <<>>, <<>>)
       \/ Enter(c)
       \/ SetExecute(c) \/ AddExecute(c) \/ AppendExecute(c) \/ ReplaceExecute(c)
       \/ GetExecute(c) \/ GetEnd(c) \/ StatsExecute(c)
       \/ Finish(c)

CSpec == CInit /\ [][CNext]_cvars

-----------------------------------------------------------------------------
(* Properties. *)

(* A command that answers NOT_STORED has not stored anything, and add, even  *)
(* when several threads add the same key, answers STORED exactly when it is  *)
(* the one that stored.                                                      *)
AnswersMatchStorage ==
  \A c \in Client :
    /\ cmd[c].out = "NOT_STORED" => ~cmd[c].wrote
    /\ cmd[c].name = "add" /\ cmd[c].out = "STORED" => cmd[c].wrote

(* A get command reports, for each key of its list, the value the storage    *)
(* holds for that key at the moment the key is looked up, whatever other     *)
(* threads store meanwhile and whichever keys are missing.                   *)
GetReportsHeldValues ==
  [][\A c \in Client :
       Len(cmd'[c].items) > Len(cmd[c].items) =>
         LET item == cmd'[c].items[Len(cmd'[c].items)]
         IN  item[1] = Head(cmd[c].keys) /\ item[2] = ContractStore[item[1]]]_cvars
=============================================================================
