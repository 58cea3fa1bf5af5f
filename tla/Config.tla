------------------------------- MODULE Config -------------------------------
(***************************************************************************)
(* config_load and config_validate of config.c with the parsers of util.c, *)
(* as operators on a file (its lines), an environment and the compiled-in  *)
(* defaults.                                                               *)
(*                                                                         *)
(* A text is the number it spells, NaN, or Garbage: anything strtol or     *)
(* strtod does not read to its end.  Of the table's rows four are kept,    *)
(* two for each kind of comparison of config_validate; a string key takes  *)
(* any text and is compared with nothing.                                  *)
(***************************************************************************)
EXTENDS Integers, Sequences, SequencesExt

CONSTANTS
  NaN,      \* the text "nan", and the double it parses to
  Garbage,  \* a text that is not a number
  Unset     \* getenv finds no such variable

ASSUME NaNAssumption == NaN \notin Int

\* cfg_table, in its order, and cfg_defaults.
cfg_table ==
  << [key |-> "temp_p95_warn_c",    type |-> "dbl", min |-> 50, max |-> 120],
     [key |-> "temp_p95_bad_c",     type |-> "dbl", min |-> 50, max |-> 120],
     [key |-> "retired_pages_warn", type |-> "int", min |-> 0, max |-> 10000],
     [key |-> "retired_pages_bad",  type |-> "int", min |-> 0, max |-> 10000] >>

cfg_defaults == [temp_p95_warn_c |-> 80, temp_p95_bad_c |-> 90,
                 retired_pages_warn |-> 1, retired_pages_bad |-> 10]

Key == DOMAIN cfg_defaults

-----------------------------------------------------------------------------
find_entry(k) == CHOOSE e \in ToSet(cfg_table) : e.key = k

InRange(e, v) == v \in Int /\ e.min <= v /\ v <= e.max

\* Both comparisons of the range check are false of NaN.
parse_double(e, text) == text = NaN \/ InRange(e, text)
parse_int(e, text) == InRange(e, text)

Parses(k, text) ==
  LET e == find_entry(k)
  IN  IF e.type = "dbl" THEN parse_double(e, text) ELSE parse_int(e, text)

\* r is what config_load has so far: its verdict and the values.  The first
\* value that does not parse ends it.
apply_entry(r, k, text) ==
  IF r.ok /\ Parses(k, text) THEN [r EXCEPT !.cfg[k] = text]
                             ELSE [r EXCEPT !.ok = FALSE]

\* A setting is a line of the file or a variable of the environment.  A line
\* whose key is not in the table and a variable that is not set are skipped.
ApplySetting(r, s) ==
  IF s.key \in Key /\ s.text # Unset /\ r.ok THEN apply_entry(r, s.key, s.text)
                                             ELSE r

\* Either loop of config_load: what there is after n settings, and after all.
ApplyAll(r, settings) ==
  LET after[n \in 0 .. Len(settings)] ==
        IF n = 0 THEN r ELSE ApplySetting(after[n - 1], settings[n])
  IN  after[Len(settings)]

\* What the second loop asks getenv for, in the order of the table.
Variables(env) ==
  [i \in DOMAIN cfg_table |->
     [key |-> cfg_table[i].key, text |-> env[cfg_table[i].key]]]

\* Mutated form: the environment is applied before the file.
config_load_EnvFirst(readable, lines, env) ==
  LET start == [ok |-> readable, cfg |-> cfg_defaults]
  IN  ApplyAll(ApplyAll(start, Variables(env)), lines)

\* The path is never NULL in main: a file that cannot be opened is an error.
config_load(readable, lines, env) ==
  LET start == [ok |-> readable, cfg |-> cfg_defaults]
  IN  ApplyAll(ApplyAll(start, lines), Variables(env))

-----------------------------------------------------------------------------
\* A comparison with NaN is false.
NotLess(a, b) == NaN \notin {a, b} /\ a >= b
Greater(a, b) == NaN \notin {a, b} /\ a > b

\* Mutated form: equal thermal thresholds pass.
config_validate_NotStrict(cfg) ==
  /\ ~Greater(cfg.temp_p95_warn_c, cfg.temp_p95_bad_c)
  /\ ~Greater(cfg.retired_pages_warn, cfg.retired_pages_bad)

config_validate(cfg) ==
  /\ ~NotLess(cfg.temp_p95_warn_c, cfg.temp_p95_bad_c)
  /\ ~Greater(cfg.retired_pages_warn, cfg.retired_pages_bad)

-----------------------------------------------------------------------------
(* What the documentation promises, stated without reference to the order  *)
(* in which config_load works.                                             *)

\* README.md:111: environment over file over default; in the file the last
\* line for a key counts.  A file that is not there has no lines.
Documented(lines, env) ==
  [k \in Key |->
     LET L == {i \in DOMAIN lines : lines[i].key = k}
     IN  CASE env[k] # Unset -> env[k]
           [] env[k] = Unset /\ L # {} ->
                lines[CHOOSE i \in L : \A j \in L : j <= i].text
           [] OTHER -> cfg_defaults[k]]

\* Every value given anywhere is well formed, also one that is overridden.
WellFormed(lines, env) ==
  /\ \A i \in DOMAIN lines :
       lines[i].key \in Key => Parses(lines[i].key, lines[i].text)
  /\ \A k \in Key : env[k] # Unset => Parses(k, env[k])
=============================================================================
