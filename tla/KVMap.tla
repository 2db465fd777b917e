------------------------------- MODULE KVMap -------------------------------
(***************************************************************************)
(* What kvstore.c gives its callers (the comments before kv_read,          *)
(* kv_write, kv_delete and kv_dump): a map from keys to values on which    *)
(* every call takes effect at one moment between its invocation and its    *)
(* response, with room for TABLE_MAX keys.  The comments promise no more;  *)
(* the code keeps less of kv_delete, which may take the keys of the same   *)
(* bucket along and leave them counted.  With one key to a bucket the map  *)
(* loses nothing and count is the number of its keys.                      *)
(***************************************************************************)
EXTENDS Integers, FiniteSets

CONSTANTS Keys, Vals, TABLE_MAX, NULL, Threads, Requests(_), NoRequest,
    SameBucket(_)   \* the keys that share a key's bucket

VARIABLES
    map,    \* the value of each key, or NULL
    count,  \* the keys counted: those of map, and those a delete took along
    phase,  \* of each thread's call: "idle", "called" or "done"
    req,    \* the call
    res     \* its result

vars == << map, count, phase, req, res >>

NoResult == [val |-> NULL, code |-> 0, list |-> NULL]

Present == {k \in Keys : map[k] # NULL}

Init ==
    /\ map = [k \in Keys |-> NULL]
    /\ count = 0
    /\ phase = [t \in Threads |-> "idle"]
    /\ req = [t \in Threads |-> NoRequest]
    /\ res = [t \in Threads |-> NoResult]

Invoke(t) ==
    /\ phase[t] = "idle"
    /\ \E r \in Requests(t) : req' = [req EXCEPT ![t] = r]
    /\ phase' = [phase EXCEPT ![t] = "called"]
    /\ UNCHANGED << map, count, res >>

Done(t, result) ==
    /\ phase[t] = "called"
    /\ phase' = [phase EXCEPT ![t] = "done"]
    /\ res' = [res EXCEPT ![t] = result]
    /\ UNCHANGED req

Read(t) ==
    /\ req[t].op = "read"
    /\ Done(t, [NoResult EXCEPT !.val = map[req[t].key]])
    /\ UNCHANGED << map, count >>

Dump(t) ==
    /\ req[t].op = "dump"
    /\ Done(t, [NoResult EXCEPT !.list = map])
    /\ UNCHANGED << map, count >>

\* Overwrite, or insert when fewer than TABLE_MAX keys are counted.
Write(t) ==
    /\ req[t].op = "write"
    /\ Done(t, NoResult)
    /\ \/ req[t].key \in Present /\ UNCHANGED count
       \/ req[t].key \notin Present /\ count < TABLE_MAX /\ count' = count + 1
    /\ map' = [map EXCEPT ![req[t].key] = req[t].val]

Refuse(t) ==
    /\ req[t].op = "write"
    /\ req[t].key \notin Present
    /\ count = TABLE_MAX
    /\ Done(t, [NoResult EXCEPT !.code = 1])
    /\ UNCHANGED << map, count >>

\* The key goes, and with it some of those that share its bucket.
Delete(t) ==
    /\ req[t].op = "delete"
    /\ Done(t, NoResult)
    /\ \/ req[t].key \notin Present /\ UNCHANGED << map, count >>
       \/ /\ req[t].key \in Present
          /\ count' = count - 1
          /\ \E gone \in SUBSET SameBucket(req[t].key) :
                map' = [k \in Keys |-> IF k = req[t].key \/ k \in gone THEN NULL ELSE map[k]]

Respond(t) ==
    /\ phase[t] = "done"
    /\ phase' = [phase EXCEPT ![t] = "idle"]
    /\ req' = [req EXCEPT ![t] = NoRequest]
    /\ res' = [res EXCEPT ![t] = NoResult]
    /\ UNCHANGED << map, count >>

Next ==
    \E t \in Threads :
        \/ Invoke(t) \/ Read(t) \/ Dump(t) \/ Write(t)
        \/ Refuse(t) \/ Delete(t) \/ Respond(t)

Spec == Init /\ [][Next]_vars
=============================================================================
