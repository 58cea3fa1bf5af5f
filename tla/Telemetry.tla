----------------------------- MODULE Telemetry ------------------------------
(***************************************************************************)
(* What one poll cycle of poll_thread collects and publishes: do_nvml_poll *)
(* (required and optional calls, early return), dcgm_poll with its         *)
(* sentinels, apply_dcgm_state, ring_push and snapshot_update.  The ring   *)
(* is module Ring; error counting, back-off and loss are module Collector. *)
(*                                                                         *)
(* The data is abstracted to its provenance: a value read in poll n is n   *)
(* (0 is what memset leaves).  Fields that every branch treats alike are   *)
(* represented by one of them: the fields of gpu_sample_t by the sample's  *)
(* tag (hbm_temp_c, the optional one, is 0 where it is not reported),      *)
(* ecc_*_aggregate, mem_*, util_*, ... by ecc_dbe_aggregate, the uint64_t  *)
(* counters of DCGM by pcie_replay_count, xid_last_code by                 *)
(* row_remap_failures and the gauges of DCGM by board_power_w.             *)
(***************************************************************************)
EXTENDS Ring

CONSTANTS
  MaxPolls,    \* polls are told apart modulo this number
  Milli,       \* mW in a W
  IntBlank,    \* DCGM_INT64_BLANK and DCGM_FP64_BLANK, scaled down
  U32Max,      \* UINT32_MAX, scaled down
  U64Max,      \* UINT64_MAX, scaled down
  NotANumber   \* what the documents promise for a field nobody reported

ASSUME TelemetryAssumption ==
  /\ {MaxPolls, Milli, IntBlank, U32Max, U64Max} \subseteq Nat \ {0}
  /\ MaxPolls < U32Max /\ U32Max < IntBlank /\ IntBlank < U64Max
  /\ MaxPolls * Milli < IntBlank
  /\ Sample = 1 .. MaxPolls /\ NoSample = 0

VARIABLES
  poll,            \* the tag of the running or the last poll
  phase,           \* where the thread is in its cycle
  sample, state,   \* the locals sample and state of poll_thread
  snapshot,        \* the part of ctx->snapshot that comes from the two; nobody
                   \* reads it between snapshot_send and the next snapshot_update,
                   \* which replaces all of it, so the model drops it there
  dcgm_available,  \* exp->dcgm_available, settled before the threads start
  refreshed,       \* the poll whose readings DCGM holds, 0 for none (external)
  got,             \* history: the fields NVML reported in this poll
  said             \* history: the readings DCGM reported in this poll

ringVars == << samples, head, count >>
pollVars ==
  << ringVars, poll, phase, sample, state, snapshot, dcgm_available, refreshed,
     got, said >>

-----------------------------------------------------------------------------
(* The fields of gpu_state_t that the code treats differently.             *)

\* The optional NVML calls, and the DCGM fields by the type they are kept in.
NvmlOptional == {"retired_pages_dbe", "row_remap_failures",
                 "pcie_replay_count", "fan_speed_pct"}
DcgmDbl == {"board_power_w"}
DcgmU64 == {"pcie_replay_count"}
DcgmU32 == {"row_remap_failures"}
DcgmField == DcgmDbl \cup DcgmU64 \cup DcgmU32
StateField == NvmlOptional \cup DcgmField \cup {"ecc_dbe_aggregate"}

ZeroState == [f \in StateField |-> 0]
NoSnapshot == [ring |-> NoSample, state |-> ZeroState, dcgm_available |-> FALSE]

\* The calls of do_nvml_poll in order; a required one ends the poll when it
\* fails, "return" is the return 0 at the end.
NvmlCalls == << "sample", "ecc_dbe_aggregate", "retired_pages_dbe",
                "row_remap_failures", "memory", "pcie_replay_count",
                "fan_speed_pct", "return" >>
NvmlRequired == {"sample", "ecc_dbe_aggregate", "memory"}
Position == [c \in {NvmlCalls[k] : k \in DOMAIN NvmlCalls} |->
               CHOOSE k \in DOMAIN NvmlCalls : NvmlCalls[k] = c]

\* A call took effect: it came before the stop and the library answered it.
Done(c, ok, stop) ==
  /\ Position[c] < Position[stop]
  /\ c \in ok \cup NvmlRequired

-----------------------------------------------------------------------------
(* DCGM.                                                                   *)

\* What dcgm_poll prefills, and apply_dcgm_state takes for "not reported".
Unavailable(f) ==
  CASE f \in DcgmDbl -> -1
    [] f \in DcgmU64 -> U64Max
    [] f \in DcgmU32 -> U32Max

\* One entry of values[]: its status, and a value that is the reading DCGM
\* holds (n is the poll it is of, 0 if there is none), a blank, a negative, or
\* an integer that a uint32_t cannot hold or that equals its sentinel.
Reply(f, n) ==
  LET Val(t, V) == [status : {"ok"}, type : {t}, value : V]
      Held == {n} \ {0}
  IN  {[status |-> "error", type |-> "int64", value |-> 0]}
      \cup IF f \in DcgmDbl
           THEN Val("int64", {v * Milli : v \in Held \cup {-1, -2}} \cup {IntBlank})
                  \cup Val("double", Held \cup {-1, -2, IntBlank})
           ELSE Val("int64", Held \cup {-1, -2, IntBlank}
                             \cup IF f \in DcgmU32 THEN {U32Max, U32Max + 1} ELSE {})

\* What a reply says, in the unit of the field; IntBlank is nothing.
Reading(f, r) ==
  IF r.status # "ok" THEN IntBlank
  ELSE IF f \in DcgmDbl /\ r.type = "int64" /\ r.value < IntBlank
       THEN r.value \div Milli ELSE r.value
Nothing == [f \in DcgmField |-> IntBlank]

\* The body of the loop of dcgm_poll: what is left in the field of out.
Stored(f, r) ==
  IF r.status # "ok" \/ r.value >= IntBlank THEN Unavailable(f)
  ELSE CASE f \in DcgmDbl ->
              IF r.type = "int64" THEN r.value \div Milli ELSE r.value
         [] f \in DcgmU64 -> r.value % (U64Max + 1)
         [] f \in DcgmU32 ->
              IF r.value \in 0 .. U32Max THEN r.value ELSE Unavailable(f)

\* (Mutated form: the uint32_t sentinel is overlooked.)
apply_dcgm_state_NoSentinel(out) ==
  [f \in StateField |->
     IF f \in DcgmField /\ (f \in DcgmU32 \/ out[f] # Unavailable(f))
     THEN out[f] ELSE state[f]]

apply_dcgm_state(out) ==
  [f \in StateField |->
     IF f \in DcgmField /\ out[f] # Unavailable(f) THEN out[f] ELSE state[f]]

-----------------------------------------------------------------------------
PollInit ==
  /\ Init
  /\ poll = MaxPolls
  /\ phase = "idle"
  /\ sample = NoSample
  /\ state = ZeroState
  /\ snapshot = NoSnapshot
  /\ dcgm_available \in BOOLEAN
  /\ refreshed = 0
  /\ got = {}
  /\ said = Nothing

\* The cycle's locals are zeroed before anything is read into them.
BeginCycle ==
  /\ phase \in {"idle", "published"}
  /\ poll' = (poll % MaxPolls) + 1
  /\ phase' = "nvml"
  /\ sample' = NoSample
  /\ state' = ZeroState
  /\ got' = {}
  /\ said' = Nothing
  /\ snapshot' = NoSnapshot
  /\ UNCHANGED << ringVars, dcgm_available, refreshed >>

\* do_nvml_poll: ok are the optional calls that succeed, stop is the required
\* call that fails, or "return".  A failed poll leaves what it has written in
\* the locals and publishes nothing.
do_nvml_poll(ok, stop) ==
  /\ phase = "nvml"
  /\ sample' = IF Done("sample", ok, stop) THEN poll ELSE sample
  /\ state' = [f \in StateField |->
                 CASE f \in NvmlOptional \cup {"ecc_dbe_aggregate"}
                        /\ Done(f, ok, stop) -> poll
                   [] f = "fan_speed_pct" /\ ~Done(f, ok, stop)
                        /\ Position[f] < Position[stop] -> -1
                   [] OTHER -> state[f]]
  /\ got' = {f \in ok : Done(f, ok, stop)}
  /\ phase' = IF stop = "return" THEN "dcgm" ELSE "idle"
  /\ UNCHANGED << ringVars, poll, snapshot, dcgm_available, refreshed, said >>

NvmlPoll ==
  \E ok \in SUBSET NvmlOptional, stop \in NvmlRequired \cup {"return"} :
    do_nvml_poll(ok, stop)

\* UpdateAllFields makes DCGM read the GPU; when it fails, or was not found in
\* the library, that is only logged and DCGM keeps what it held.
UpdateAllFields == refreshed' \in {poll, refreshed}

\* dcgm_poll: refresh, ask for every field, take over what was reported.
DcgmPoll ==
  /\ phase = "dcgm" /\ dcgm_available
  /\ UpdateAllFields
  /\ \E power \in Reply("board_power_w", refreshed'),
        replay \in Reply("pcie_replay_count", refreshed'),
        remap \in Reply("row_remap_failures", refreshed') :
       LET values == [f \in DcgmField |->
                        CASE f = "board_power_w" -> power
                          [] f = "pcie_replay_count" -> replay
                          [] f = "row_remap_failures" -> remap]
       IN  /\ state' = apply_dcgm_state([f \in DcgmField |-> Stored(f, values[f])])
           /\ said' = [f \in DcgmField |-> Reading(f, values[f])]
  /\ phase' = "publish"
  /\ UNCHANGED << ringVars, poll, sample, snapshot, dcgm_available, got >>

\* DCGM was not set up, or GetLatestValues fails after the refresh: the locals
\* stay as they are.
NoDcgm ==
  /\ phase = "dcgm"
  /\ IF dcgm_available THEN UpdateAllFields ELSE UNCHANGED refreshed
  /\ phase' = "publish"
  /\ UNCHANGED << ringVars, poll, sample, state, snapshot, dcgm_available, got, said >>

\* The sample is pushed, the state copied, and snapshot_update reads the newest
\* slot of the ring and ctx->state.
Publish ==
  /\ phase = "publish"
  /\ ring_push(sample)
  /\ snapshot' = [ring |-> samples'[LastIndex'], state |-> state,
                  dcgm_available |-> dcgm_available]
  /\ phase' = "published"
  /\ UNCHANGED << poll, sample, state, dcgm_available, refreshed, got, said >>

PollNext == BeginCycle \/ NvmlPoll \/ DcgmPoll \/ NoDcgm \/ Publish

PollSpec == PollInit /\ [][PollNext]_pollVars

-----------------------------------------------------------------------------
StateOK(st) == \A f \in StateField : st[f] \in -2 .. U64Max

TelemetryTypeOK ==
  /\ TypeOK
  /\ poll \in Sample
  /\ phase \in {"idle", "nvml", "dcgm", "publish", "published"}
  /\ sample \in Sample \cup {NoSample}
  /\ DOMAIN state = StateField /\ StateOK(state)
  /\ snapshot.ring \in Sample \cup {NoSample}
  /\ DOMAIN snapshot.state = StateField /\ StateOK(snapshot.state)
  /\ dcgm_available \in BOOLEAN
  /\ refreshed \in 0 .. MaxPolls
  /\ got \subseteq NvmlOptional
  /\ said \in [DcgmField -> Int]

\* A reading that its field can hold and that is not taken for a sentinel.
CanShow(f, v) ==
  /\ v < IntBlank /\ v # Unavailable(f)
  /\ f \in DcgmU64 => v >= 0
  /\ f \in DcgmU32 => v \in 0 .. U32Max

\* What is left in a field that nobody reported.  The code leaves 0; README.md,
\* types.h and a comment of main.c say NaN.  The property accepts either.
NotReported(f) == IF f = "fan_speed_pct" THEN {-1} ELSE {0, NotANumber}

(***************************************************************************)
(* A field shows what DCGM said of it, what NVML said in this poll if DCGM *)
(* said nothing its type can hold, and otherwise no reading at all: no     *)
(* sentinel, blank or over-long integer reaches /metrics, no answer of one *)
(* library is lost to the silence of the other, and nothing of an earlier  *)
(* poll is left in a local variable, in the state, or in the ring slot     *)
(* that is taken for the newest (collector.c:263-290, dcgm.c:257-340).     *)
(*                                                                         *)
(* Excepted is a negative answer below -1 for a uint64_t field, which the  *)
(* cast of dcgm.c:286-328 turns into a huge count that is shown.  What     *)
(* DCGM says is of this poll if its refresh succeeded; after a failing one *)
(* (233-237) it is of an earlier poll, and is shown all the same.          *)
(***************************************************************************)
ShownAsReported ==
  phase = "published" =>
    /\ snapshot.ring = poll /\ snapshot.state["ecc_dbe_aggregate"] = poll
    /\ \A f \in NvmlOptional \ DcgmField :
         snapshot.state[f] \in IF f \in got THEN {poll} ELSE NotReported(f)
    /\ \A f \in DcgmField :
         ~ (f \in DcgmU64 /\ said[f] < -1) =>
           snapshot.state[f] \in IF CanShow(f, said[f]) THEN {said[f]}
                                 ELSE IF f \in got THEN {poll} ELSE NotReported(f)
=============================================================================
