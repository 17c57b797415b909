------------------------ MODULE ConfigurationProofs ------------------------
(***************************************************************************)
(* Proofs about Configuration, for every set of values an operator may     *)
(* write, any number of edits and any number of processors.                *)
(***************************************************************************)
EXTENDS Configuration, TLAPS

\* A Duration that is large enough holds the product of the setting and the unit.
LEMMA DurationFits ==
    ASSUME NEW n \in Int, n > 0, NEW unit \in Nat \ {0}, 2 * (n * unit) < Word
    PROVE  Duration(n, unit) = n * unit /\ n * unit > 0
<1>1. n * unit \in Nat /\ n * unit > 0
  OBVIOUS
<1>2. ASSUME NEW p \in Nat, 2 * p < Word PROVE p % Word = p
  BY <1>2, ConfigurationAssumption
<1> QED
  BY <1>1, <1>2 DEF Duration

\* The settings of the default file, one by one.
LEMMA OrderIs ==
    /\ DOMAIN Order = 1..11 /\ Len(Order) = 11
    /\ Order[1] = "max_size" /\ Order[2] = "ttl_minutes" /\ Order[3] = "count"
    /\ Order[4] = "max_count" /\ Order[5] = "min_count" /\ Order[6] = "entry_size"
    /\ Order[7] = "timeout" /\ Order[8] = "max_retries" /\ Order[9] = "max_messages"
    /\ Order[10] = "size_limit" /\ Order[11] = "cors"
BY DEF Order

LEMMA KeysAre ==
    Keys = {"max_size", "ttl_minutes", "count", "max_count", "min_count", "entry_size",
            "timeout", "max_retries", "max_messages", "size_limit", "cors"}
<1>1. Keys = {Order[i] : i \in 1..11}
  BY OrderIs DEF Keys
<1>2. 1..11 = {1, 2, 3, 4, 5, 6, 7, 8, 9, 10, 11}
  OBVIOUS
<1> QED
  BY <1>1, <1>2, OrderIs

LEMMA DefaultType == Default \in [Keys -> Int] /\ \A k \in Keys : Default[k] # 0
BY KeysAre DEF Default

\* The first n settings of the default file; the last of them may be another number.
Cut(f, n) ==
    /\ DOMAIN f = {Order[i] : i \in 1..n}
    /\ \A i \in 1..(n - 1) : f[Order[i]] = Default[Order[i]]
    /\ \A k \in DOMAIN f : f[k] \in Int

IsCut(f) == \E n \in 0..11 : Cut(f, n)

\* What the file holds and what the process runs with.
Types ==
    /\ \/ file = Absent
       \/ DOMAIN file \subseteq Keys /\ \A k \in DOMAIN file : file[k] \in Int
    /\ edits \in Nat
    /\ config \in [Keys -> Int]

\* What has been loaded is valid; the constructors have dealt with the rest.
Checked ==
    /\ pc \in {"construct", "running"} => Valid(config)
    /\ RunningIsUsable

\* A file that only the program has written is a part of the default one.
Unedited ==
    edits = 0 =>
        /\ file = Absent \/ IsCut(file)
        /\ pc \in {"construct", "running"} =>
              \A k \in Keys \ {"max_messages", "size_limit", "cors"} : config[k] = Default[k]

IInv == Types /\ Checked /\ Unedited

\* Whatever a full disk leaves of the default file is a cut of it.
LEMMA PrefixesAreCuts ==
    ASSUME NEW f \in Prefixes
    PROVE  IsCut(f) /\ DOMAIN f \subseteq Keys /\ \A k \in DOMAIN f : f[k] \in Int
<1> DEFINE head(n) == {Order[i] : i \in 1..n}
<1>0. \A n \in 0..11 : head(n) \subseteq Keys
  BY OrderIs DEF Keys
<1>1. \/ \E n \in 0..11 : f = Restrict(Default, head(n))
      \/ \E n \in 1..11 : f = [Restrict(Default, head(n)) EXCEPT ![Order[n]] = 1]
  BY OrderIs DEF Prefixes
<1>2. ASSUME NEW n \in 0..11, f = Restrict(Default, head(n)) PROVE Cut(f, n)
  BY <1>0, <1>2, DefaultType DEF Cut, Restrict
<1>3. ASSUME NEW n \in 1..11, f = [Restrict(Default, head(n)) EXCEPT ![Order[n]] = 1]
      PROVE  Cut(f, n)
  BY <1>0, <1>3, DefaultType, OrderIs DEF Cut, Restrict
<1>4. IsCut(f)
  BY <1>1, <1>2, <1>3 DEF IsCut
<1> QED
  BY <1>0, <1>4 DEF IsCut, Cut

\* A step of the operator leaves the process alone.
LEMMA OperatorStep == IInv /\ (Edit \/ Delete) => IInv'
<1> SUFFICES ASSUME IInv, Edit \/ Delete PROVE IInv'
  OBVIOUS
<1>1. /\ UNCHANGED <<pc, config, system>> /\ edits' \in Nat /\ edits' # 0
  BY DEF Edit, Delete, IInv, Types
<1>2. \/ file' = Absent
      \/ DOMAIN file' \subseteq Keys /\ \A k \in DOMAIN file' : file'[k] \in Int
  <2>1. CASE Delete
    BY <2>1 DEF Delete
  <2>2. CASE Edit
    <3>0. DOMAIN file \subseteq Keys /\ \A k \in DOMAIN file : file[k] \in Int
      BY <2>2 DEF Edit, Exists, IInv, Types
    <3>1. CASE \E k \in Keys, v \in Values :
                  file' = [j \in DOMAIN file \cup {k} |-> IF j = k THEN v ELSE file[j]]
      BY <3>0, <3>1, ConfigurationAssumption
    <3>2. CASE \E k \in DOMAIN file : file' = Restrict(file, DOMAIN file \ {k})
      BY <3>0, <3>2 DEF Restrict
    <3>3. CASE UNCHANGED file
      BY <3>0, <3>3
    <3> QED
      BY <2>2, <3>1, <3>2, <3>3 DEF Edit
  <2> QED
    BY <2>1, <2>2
<1>3. Types'
  BY <1>1, <1>2 DEF IInv, Types
<1>4. Checked'
  BY <1>1 DEF IInv, Checked, Valid, RunningIsUsable
<1> QED
  BY <1>1, <1>3, <1>4 DEF IInv, Unedited

\* A file that has passed the validation gives a whole configuration; a cut of the
\* default file that passes it is cut in its last two settings at most.
LEMMA LoadStep == IInv /\ Load => IInv'
<1> SUFFICES ASSUME IInv, Load PROVE IInv'
  OBVIOUS
<1> DEFINE c == SetDefaults(Parsed)
<1>1. /\ Valid(c) /\ config' = c /\ pc' = "construct" /\ UNCHANGED <<file, edits>>
      /\ DOMAIN file \subseteq Keys /\ \A k \in DOMAIN file : file[k] \in Int
      /\ file # Absent
  BY DEF Load, Exists, IInv, Types
<1>2. /\ Parsed \in [Keys -> Int]
      /\ \A k \in DOMAIN file : Parsed[k] = file[k]
      /\ \A k \in Keys \ DOMAIN file : Parsed[k] = 0
  BY <1>1 DEF Parsed
<1>3. /\ c \in [Keys -> Int]
      /\ \A k \in Keys : c[k] # Parsed[k] =>
            Parsed[k] = 0 /\ k \in {"max_size", "ttl_minutes"}
  BY <1>2, DefaultType DEF SetDefaults
<1>4. Types'
  BY <1>1, <1>3 DEF IInv, Types
<1>5. Checked'
  <2>1. Valid(config')
    BY <1>1
  <2>2. Valid(config)'
    BY <2>1 DEF Valid
  <2> QED
    BY <1>1, <2>2 DEF Checked, RunningIsUsable
<1>6. ASSUME edits = 0
      PROVE  \A k \in Keys \ {"max_messages", "size_limit", "cors"} : c[k] = Default[k]
  <2>1. PICK n \in 0..11 : Cut(file, n)
    BY <1>1, <1>6 DEF IInv, Unedited, IsCut
  <2>2. "size_limit" \in DOMAIN file
    <3>1. "size_limit" \in Keys /\ c["size_limit"] > 0
      BY <1>1, KeysAre DEF Valid
    <3> QED
      BY <1>2, <1>3, <3>1
  <2>3. n >= 10
    <3>1. PICK i \in 1..n : Order[i] = "size_limit"
      BY <2>1, <2>2 DEF Cut
    <3> QED
      BY <3>1, OrderIs
  <2>4. \A i \in 1..8 : Order[i] \in DOMAIN file /\ file[Order[i]] = Default[Order[i]]
    BY <2>1, <2>3 DEF Cut
  <2>5. \A k \in Keys \ {"max_messages", "size_limit", "cors"} : \E i \in 1..8 : k = Order[i]
    BY KeysAre, OrderIs
  <2>6. \A k \in Keys \ {"max_messages", "size_limit", "cors"} :
           Parsed[k] = Default[k] /\ Default[k] # 0
    BY <1>2, <2>4, <2>5, DefaultType
  <2> QED
    BY <1>3, <2>6
<1>7. Unedited'
  BY <1>1, <1>6 DEF IInv, Unedited, IsCut, Cut
<1> QED
  BY <1>4, <1>5, <1>7 DEF IInv

LEMMA IInvStep == IInv /\ [Next]_vars => IInv'
<1> SUFFICES ASSUME IInv, [Next]_vars PROVE IInv'
  OBVIOUS
<1>1. ASSUME UNCHANGED <<file, edits, config>>, pc' \notin {"construct", "running"}
      PROVE  IInv'
  BY <1>1 DEF IInv, Types, Checked, Unedited, IsCut, Cut, RunningIsUsable
<1>2. CASE Start \/ Found \/ Refuse \/ Exit
  BY <1>1, <1>2 DEF Start, Found, Refuse, Exit
<1>3. ASSUME UNCHANGED <<edits, config>>, pc' \notin {"construct", "running"},
             \/ file' = file
             \/ /\ IsCut(file') /\ DOMAIN file' \subseteq Keys
                /\ \A k \in DOMAIN file' : file'[k] \in Int
      PROVE  IInv'
  <2>1. CASE file' = file
    BY <1>1, <1>3, <2>1
  <2>2. CASE file' # file
    BY <1>3, <2>2 DEF IInv, Types, Checked, Unedited, IsCut, Cut, RunningIsUsable
  <2> QED
    BY <2>1, <2>2
<1>4. CASE Create
  <2>1. Cut(<<>>, 0)
    BY DEF Cut
  <2> QED
    BY <1>3, <1>4, <2>1 DEF Create, IsCut, Cut
<1>5. CASE Write
  <2>1. Cut(Default, 11)
    BY OrderIs, DefaultType DEF Cut, Keys
  <2> QED
    BY <1>3, <1>5, <2>1, DefaultType DEF Write, IsCut
<1>6. CASE WriteFails
  BY <1>3, <1>6, PrefixesAreCuts DEF WriteFails
<1>7. CASE NewDeliverySystemWithConfig
  <2>1. /\ UNCHANGED <<file, edits, config>> /\ pc = "construct" /\ pc' = "running"
        /\ config["entry_size"] >= 0 /\ config["max_retries"] >= 0
    BY <1>7, KeysAre DEF NewDeliverySystemWithConfig, Panics, IInv, Types
  <2>2. PICK workers : /\ system' = Constructed(config, workers)
                       /\ workers = IF config["count"] = 0 THEN NumCPU ELSE config["count"]
    BY <1>7 DEF NewDeliverySystemWithConfig
  <2>3. Valid(config) /\ \A k \in Keys : config[k] \in Int
    BY <2>1 DEF IInv, Checked, Types
  <2>4. workers > 0
    BY <2>2, <2>3, KeysAre, ConfigurationAssumption DEF Valid
  <2>5. /\ config["ttl_minutes"] \in Int /\ config["ttl_minutes"] > 0
        /\ config["timeout"] \in Int /\ config["timeout"] > 0 /\ config["max_size"] > 0
    BY <2>3, KeysAre DEF Valid
  <2>6. /\ LET ttl == config["ttl_minutes"] * Minute IN
               2 * ttl < Word => Duration(config["ttl_minutes"], Minute) = ttl /\ ttl > 0
        /\ LET timeout == config["timeout"] * Second IN
               2 * timeout < Word => Duration(config["timeout"], Second) = timeout /\ timeout > 0
    BY <2>5, DurationFits, ConfigurationAssumption
  <2>7. RunningIsUsable'
    BY <2>1, <2>2, <2>4, <2>5, <2>6 DEF Constructed, RunningIsUsable
  <2>8. Checked'
    BY <2>1, <2>3, <2>7 DEF Checked, Valid
  <2> QED
    BY <2>1, <2>8 DEF IInv, Types, Unedited, IsCut, Cut
<1>8. CASE UNCHANGED vars
  BY <1>8 DEF vars, IInv, Types, Checked, Unedited, IsCut, Cut, Valid, RunningIsUsable
<1> QED
  BY <1>2, <1>4, <1>5, <1>6, <1>7, <1>8, OperatorStep, LoadStep DEF Next

LEMMA IInvInvariant == Spec => []IInv
<1>1. Init => IInv
  BY DefaultType DEF Init, IInv, Types, Checked, Unedited, RunningIsUsable
<1> QED
  BY <1>1, IInvStep, PTL DEF Spec

\* Whatever the operator writes, deletes or breaks, and wherever a start was
\* interrupted, a server that comes up has workers, channels and a cache, and the
\* times of the file as far as a Duration of any width holds them.
THEOREM AcceptedIsUsable == Spec => []RunningIsUsable
BY IInvInvariant, PTL DEF IInv, Checked

\* However far the first start got in writing the file, a server that runs on it
\* has the default cache and delivery settings.
THEOREM OwnFileMeansDefault == Spec => []UneditedMeansDefault
<1>1. IInv => UneditedMeansDefault
  BY DEF IInv, Unedited, UneditedMeansDefault
<1> QED
  BY <1>1, IInvInvariant, PTL
=============================================================================
