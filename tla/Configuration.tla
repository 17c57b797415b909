---------------------------- MODULE Configuration ----------------------------
(***************************************************************************)
(* From the configuration file to a running server (src/internal/config,   *)
(* main.go, and the constructors that use the values): a first start that  *)
(* writes the file, crashes and full disks in the middle of it, an         *)
(* operator who edits or removes it, and what the next start makes of it.  *)
(* An absent setting is read as 0.                                         *)
(***************************************************************************)
EXTENDS Integers, Sequences, Functions

CONSTANTS
    Values,     \* what an operator may write for a setting
    MaxEdits,   \* bound: changes by the operator
    NumCPU,
    Word,       \* how many values a time.Duration has, 2^64 in the code
    Second,     \* time.Second and time.Minute in units of a Duration
    Minute

ASSUME ConfigurationAssumption ==
    /\ Values \subseteq Int
    /\ MaxEdits \in Nat
    /\ {NumCPU, Word, Second, Minute} \subseteq Nat \ {0}

VARIABLES
    file,       \* the settings in the file, or Absent
    parses,     \* whether it is a YAML document of the right types
    edits,      \* changes made by the operator
    pc,         \* where the process is
    config,     \* what Load has made of the file
    system      \* what the constructors have made of that, or Absent

vars == <<file, parses, edits, pc, config, system>>

\* The settings that are validated or used, in the order of the default file.
Order == <<"max_size", "ttl_minutes", "count", "max_count", "min_count", "entry_size",
           "timeout", "max_retries", "max_messages", "size_limit", "cors">>
Keys == {Order[i] : i \in DOMAIN Order}

Default ==
    [k \in Keys |-> CASE k = "max_size"     -> 1000
                      [] k = "ttl_minutes"  -> 30
                      [] k = "count"        -> 4
                      [] k = "max_count"    -> 8
                      [] k = "min_count"    -> 2
                      [] k = "entry_size"   -> 10000
                      [] k = "timeout"      -> 30
                      [] k = "max_retries"  -> 3
                      [] k = "max_messages" -> 10000
                      [] k = "size_limit"   -> 1048576
                      [] k = "cors"         -> 1]

Absent == [k \in {"absent"} |-> TRUE]
Exists == file # Absent

\* The first n settings of the default file; the digits of the last one may have
\* been cut as well.
Prefixes ==
    LET head(n) == {Order[i] : i \in 1..n} IN
    {Restrict(Default, head(n)) : n \in 0..Len(Order)}
        \cup {[Restrict(Default, head(n)) EXCEPT ![Order[n]] = 1] : n \in 1..Len(Order)}

Init ==
    /\ file = Absent
    /\ parses = TRUE
    /\ edits = 0
    /\ pc = "off"
    /\ config = Default
    /\ system = Absent

-----------------------------------------------------------------------------
(* The operator                                                            *)

\* Any setting may be changed, added or taken out, or the syntax broken.
Edit ==
    /\ Exists /\ edits < MaxEdits
    /\ edits' = edits + 1
    /\ \/ /\ \E k \in Keys, v \in Values :
                file' = [j \in DOMAIN file \cup {k} |-> IF j = k THEN v ELSE file[j]]
          /\ UNCHANGED parses
       \/ /\ \E k \in DOMAIN file : file' = Restrict(file, DOMAIN file \ {k})
          /\ UNCHANGED parses
       \/ parses' = FALSE /\ UNCHANGED file
    /\ UNCHANGED <<pc, config, system>>

Delete ==
    /\ Exists /\ edits < MaxEdits
    /\ edits' = edits + 1
    /\ file' = Absent
    /\ parses' = TRUE
    /\ UNCHANGED <<pc, config, system>>

-----------------------------------------------------------------------------
(* Load                                                                    *)

Start ==
    /\ pc = "off"
    /\ pc' = "stat"
    /\ UNCHANGED <<file, parses, edits, config, system>>

Found ==
    /\ pc = "stat" /\ Exists
    /\ pc' = "read"
    /\ UNCHANGED <<file, parses, edits, config, system>>

\* createDefaultConfig: os.WriteFile opens, and so empties, the file first.
Create ==
    /\ pc = "stat" /\ ~Exists
    /\ file' = <<>>
    /\ parses' = TRUE
    /\ pc' = "write"
    /\ UNCHANGED <<edits, config, system>>

Write ==
    /\ pc = "write"
    /\ file' = IF Exists THEN Default ELSE file
    /\ parses' = TRUE
    /\ pc' = "read"
    /\ UNCHANGED <<edits, config, system>>

\* The disk is full: a part is written, and the process exits.
WriteFails ==
    /\ pc = "write"
    /\ file' \in IF Exists THEN Prefixes ELSE {file}
    /\ parses' \in BOOLEAN
    /\ pc' = "off"
    /\ UNCHANGED <<edits, config, system>>

\* yaml.Unmarshal into a zero Config.
Parsed == [k \in Keys |-> IF k \in DOMAIN file THEN file[k] ELSE 0]

SetDefaults(c) ==
    [k \in Keys |-> IF c[k] = 0 /\ k \in {"max_size", "ttl_minutes"} THEN Default[k]
                    ELSE c[k]]

\* Mutant: the section of the users is not looked at.
ValidDelivery(c) ==
    /\ c["max_size"] > 0 /\ c["ttl_minutes"] > 0
    /\ c["count"] >= 0 /\ c["max_count"] >= c["min_count"]
    /\ c["timeout"] > 0

Valid(c) ==
    /\ c["max_size"] > 0 /\ c["ttl_minutes"] > 0
    /\ c["count"] >= 0 /\ c["max_count"] >= c["min_count"]
    /\ c["timeout"] > 0
    /\ c["max_messages"] > 0 /\ c["size_limit"] > 0

\* A file that is gone, does not parse or is not valid ends the process.
Refuse ==
    /\ pc = "read"
    /\ ~Exists \/ ~parses \/ ~Valid(SetDefaults(Parsed))
    /\ pc' = "off"
    /\ UNCHANGED <<file, parses, edits, config, system>>

Load ==
    /\ pc = "read"
    /\ Exists /\ parses
    /\ Valid(SetDefaults(Parsed))
    /\ config' = SetDefaults(Parsed)
    /\ pc' = "construct"
    /\ UNCHANGED <<file, parses, edits, system>>

-----------------------------------------------------------------------------
(* The constructors.  Start of the delivery system cannot fail.            *)

\* make(chan) panics on a negative size.
Panics == config["entry_size"] < 0 \/ config["max_retries"] < 0

\* n units as a time.Duration: the product of two 64-bit integers, which wraps.
Duration(n, unit) ==
    LET product == (n * unit) % Word IN
    IF 2 * product < Word THEN product ELSE product - Word

Constructed(c, workers) ==
    [maxSize     |-> c["max_size"],
     ttl         |-> Duration(c["ttl_minutes"], Minute),
     WorkerCount |-> workers,
     QueueLimit  |-> c["entry_size"],
     MaxRetries  |-> c["max_retries"],
     TaskTimeout |-> Duration(c["timeout"], Second)]

\* Mutant: no worker is started where the file asks for automatic detection.
NoDetection ==
    /\ pc = "construct" /\ ~Panics
    /\ system' = Constructed(config, config["count"])
    /\ pc' = "running"
    /\ UNCHANGED <<file, parses, edits, config>>

\* The workspace manager with its cache, then the delivery system.
NewDeliverySystemWithConfig ==
    /\ pc = "construct" /\ ~Panics
    /\ system' = Constructed(config, IF config["count"] = 0 THEN NumCPU
                                                           ELSE config["count"])
    /\ pc' = "running"
    /\ UNCHANGED <<file, parses, edits, config>>

\* A panic in a constructor, a fatal error of the logger, the user storage or the
\* port, or the end of the process from outside.
Exit ==
    /\ pc # "off"
    /\ pc' = "off"
    /\ system' = Absent
    /\ UNCHANGED <<file, parses, edits, config>>

-----------------------------------------------------------------------------
Next ==
    \/ Edit \/ Delete
    \/ Start \/ Found \/ Create \/ Write \/ WriteFails \/ Refuse \/ Load
    \/ NewDeliverySystemWithConfig \/ Exit

Spec == Init /\ [][Next]_vars

-----------------------------------------------------------------------------
(* Properties                                                              *)

\* Whatever file is accepted, and although the section of the queues and the
\* retries are not validated: the server has workers, channels that can be made
\* (they may be unbuffered) and room for a workspace in its cache; and a workspace
\* and a task live for as long as the file says, if a Duration can hold it.
RunningIsUsable ==
    pc = "running" =>
        /\ system.WorkerCount > 0 /\ system.maxSize > 0
        /\ system.QueueLimit >= 0 /\ system.MaxRetries >= 0
        /\ LET ttl == config["ttl_minutes"] * Minute IN
               2 * ttl < Word => system.ttl = ttl /\ ttl > 0
        /\ LET timeout == config["timeout"] * Second IN
               2 * timeout < Word => system.TaskTimeout = timeout /\ timeout > 0

\* A server that runs on a file nobody has edited runs with the default cache and
\* delivery settings, even if writing that file failed half way: absent ones of
\* them have no default, but what follows them in the file is validated.
UneditedMeansDefault ==
    pc = "running" /\ edits = 0 =>
        \A k \in Keys \ {"max_messages", "size_limit", "cors"} : config[k] = Default[k]
=============================================================================
