----------------------------- MODULE SandboxConfig -----------------------------
(***************************************************************************)
(* The configuration the sandbox program builds from its files             *)
(* (src/sandbox/sandbox.cpp, submission_config.cpp, group.cpp, run/): each *)
(* file is merged into what the files before it have said.                 *)
(*                                                                         *)
(* A YAML map is a function on the keys it has, a map of groups the        *)
(* sequence of its entries [name, value], an item list a sequence of       *)
(* ranges [from, to] or of names.  The key `type` selects among one class  *)
(* only; `in`, `sol` and `output` are merged as `script` is: they are left *)
(* out.                                                                    *)
(***************************************************************************)
EXTENDS Integers, Sequences, SequencesExt, Functions, FiniteSets

CONSTANTS Bad,      \* an item that is no number
          NoRun     \* the null run_config

(* GRADE_POLICY as the set of its bits, and the names it has in a file.    *)
GRADE_POLICY == SUBSET {"SKIP_TEST", "SKIP_GROUP"}
GRADE_POLICY_MAPPING ==
  [GRADE_ALL |-> {}, SKIP_TEST |-> {"SKIP_TEST"}, SKIP_GROUP |-> {"SKIP_GROUP"},
   SKIP |-> {"SKIP_TEST", "SKIP_GROUP"}]

(* The types of what a file says.  A test's number cannot be written below *)
(* zero, but for the end of a range.                                       *)
Item == [from : Nat, to : Int]

IsGroup(value) ==
  /\ "tests" \in DOMAIN value => value.tests \in Seq(Item \cup {Bad})
  /\ "deps" \in DOMAIN value => value.deps \in Seq(Nat)

IsRun(value) ==
  /\ "script" \in DOMAIN value => value.script \in STRING
  /\ \A key \in {"time", "time-ms", "memory"} \cap DOMAIN value : value[key] \in Int

IsFile(yaml) ==
  /\ "num-tests" \in DOMAIN yaml => yaml["num-tests"] \in Nat
  /\ "run" \in DOMAIN yaml => IsRun(yaml.run)
  /\ "groups" \in DOMAIN yaml =>
       /\ yaml.groups \in Seq(Range(yaml.groups))
       /\ \A entry \in Range(yaml.groups) : entry.name \in Nat \ {0} /\ IsGroup(entry.value)

Names(yaml) ==
  IF "groups" \in DOMAIN yaml THEN {entry.name : entry \in Range(yaml.groups)} ELSE {}

update_if_exists(value, data, key) == IF key \in DOMAIN data THEN data[key] ELSE value

(* Item lists.  One item that cannot be converted empties the whole list.  *)
add_item(item) == [i \in 1 .. (item.to + 1) - item.from |-> item.from + i - 1]

convert_item_list(items) ==
  IF Bad \in Range(items) THEN <<>>
  ELSE FlattenSeq([i \in DOMAIN items |-> add_item(items[i])])

NoGroupYet == [tests |-> <<>>, deps |-> <<>>]

GroupUpdate(group, yaml) ==
  [tests |-> IF "tests" \in DOMAIN yaml THEN convert_item_list(yaml.tests) ELSE group.tests,
   deps |-> update_if_exists(group.deps, yaml, "deps")]

(* RunConfig::update and Constraint::update; `time` is in seconds, and     *)
(* time-ms is read after it.                                               *)
NoScript == ""
RunConfig == [script : STRING \cup {NoScript}, time_ms : Int, memory_mb : Int]
ASSUME NoRunAssumption == NoRun \notin RunConfig

NewRun == [script |-> NoScript, time_ms |-> 0, memory_mb |-> 0]

(* A fault: `time` is read after time-ms. *)
Fault_RunUpdate(run, yaml) ==
  LET limit == update_if_exists(run.time_ms, yaml, "time-ms")
  IN  [script |-> update_if_exists(run.script, yaml, "script"),
       time_ms |-> IF "time" \in DOMAIN yaml THEN yaml.time * 1000 ELSE limit,
       memory_mb |-> update_if_exists(run.memory_mb, yaml, "memory")]

RunUpdate(run, yaml) ==
  LET seconds == IF "time" \in DOMAIN yaml THEN yaml.time * 1000 ELSE run.time_ms
  IN  [script |-> update_if_exists(run.script, yaml, "script"),
       time_ms |-> update_if_exists(seconds, yaml, "time-ms"),
       memory_mb |-> update_if_exists(run.memory_mb, yaml, "memory")]

NewConfig ==
  [number_cases |-> 0, run_config |-> NoRun, policy |-> {}, groups |-> <<>>, group_order |-> <<>>]

(* One entry of `groups`: the order is that of the first mention.          *)
GroupsUpdate(config, entry) ==
  [config EXCEPT
     !.group_order = IF entry.name \in DOMAIN config.groups THEN @ ELSE Append(@, entry.name),
     !.groups = [g \in DOMAIN @ \cup {entry.name} |->
        IF g = entry.name
          THEN GroupUpdate(IF g \in DOMAIN @ THEN @[g] ELSE NoGroupYet, entry.value)
          ELSE @[g]]]

MergeGroups(config, entries) ==
  LET merged[n \in 0 .. Len(entries)] ==
        IF n = 0 THEN config ELSE GroupsUpdate(merged[n - 1], entries[n])
  IN  merged[Len(entries)]

(* SubmissionConfig::update.  A policy that is not recognized is GRADE_ALL.*)
Update(config, yaml) ==
  LET run == IF config.run_config = NoRun THEN NewRun ELSE config.run_config
      merged ==
        [config EXCEPT
           !.number_cases = update_if_exists(@, yaml, "num-tests"),
           !.run_config = IF "run" \in DOMAIN yaml THEN RunUpdate(run, yaml.run) ELSE @,
           !.policy = IF "policy" \notin DOMAIN yaml THEN @
                      ELSE update_if_exists({}, GRADE_POLICY_MAPPING, yaml.policy)]
  IN  IF "groups" \in DOMAIN yaml
        THEN MergeGroups(merged, yaml.groups) ELSE merged

-------------------------------------------------------------------------------
(* A reference: what the files say, each key on its own.                   *)

(* The value the last map with the key has for it. *)
LastSaid(maps, key, default) ==
  LET Has == {i \in DOMAIN maps : key \in DOMAIN maps[i]}
  IN  IF Has = {} THEN default
      ELSE maps[CHOOSE i \in Has : \A j \in Has : j <= i][key]

(* What each file has under a key, an empty map or list where it has none. *)
Sections(files, key) ==
  [i \in DOMAIN files |-> IF key \in DOMAIN files[i] THEN files[i][key] ELSE <<>>]

(* The time limit a `run` asks for: time-ms beats time.                    *)
Limit(run) ==
  IF "time-ms" \in DOMAIN run THEN [ms |-> run["time-ms"]]
  ELSE IF "time" \in DOMAIN run THEN [ms |-> run.time * 1000] ELSE <<>>

(* All entries of `groups`, file after file; what they say of g; and where *)
(* g comes first.                                                          *)
Mentions(files) == FlattenSeq(Sections(files, "groups"))
SaidOf(g, mentions) ==
  [i \in DOMAIN mentions |-> IF mentions[i].name = g THEN mentions[i].value ELSE <<>>]
FirstMention(g, mentions) ==
  CHOOSE i \in DOMAIN mentions :
    mentions[i].name = g /\ \A j \in 1 .. i - 1 : mentions[j].name # g

(* The tests a list of items stands for, and the bits a policy's name does. *)
TestsOf(items) ==
  IF Bad \in Range(items) THEN {} ELSE UNION {item.from .. item.to : item \in Range(items)}
PolicyOf(name) ==
  IF name \in DOMAIN GRADE_POLICY_MAPPING THEN GRADE_POLICY_MAPPING[name] ELSE {}
===============================================================================
