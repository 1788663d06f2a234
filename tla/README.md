# MuTap: a verification project for the control around the filters

MuTap is a header-only C++20 library of adaptive filters: an acoustic feedback
canceller, an echo canceller, and the policy layers that decide when to trust
them. The filters are numerical and are measured by the repository's tests; what
decides whether a loudspeaker howls, and whether one bad block silences it for
good, is the **control** around them: state machines, timers, latches, counters,
ring positions, watchdogs, and the host's calls in between. That control is what
these modules model, in two halves: the **anti-howl side** (guard, soundcheck,
detector, chain) and the **echo side** (cores, prewhitened canceller, suppressors,
echo chain and its policy). TLC checks small instances of
it, and TLAPS proves the properties that matter most for every value of the
constants.

Paths below are relative to the repository; the headers are in `include/mutap/`.

## The system

| part | state | operations | talks to |
|---|---|---|---|
| **howl guard** `howl_guard.h` | per mic: a six-state machine, gain ramp, runs and timers, strikes, latch, flags; shared: the policy, the attribution episode, the bus gain | per block: `analyze()` for each mic, then `update()`; between blocks: `set_policy()`, `set_cap_db()`, `reset()`, `clear()`, `set_thresholds()`, `clear_calibration()` | reads one detector per mic and the canceller's two statistics; called by the chain; its bus stage sits in the chain's safety slot |
| **soundcheck** (in `howl_guard.h`) | histograms, blocks left, the last calibration, each mic's own thresholds | `calibrate_begin()`, `sample()` (from `update()`), `calibrate_end(apply)`, and the threshold setters | the guard's statistics |
| **howl detector** `howl_detector.h` | resonator bank, growth ring, integrals of the lines, program level, hold | `process_block()` (a tick per block: `decide()`), `reset()` | owned by the guard, one per mic |
| **anti-howl chain** `afc_chain.h` | two ring buffers with positions, the reference block, the attached stages and guard | `process_block()`, `set_guard()`, the stage setters, `reset()` | owns M cancellers; drives the guard; calls the stages |
| **PEM canceller** `pem_afc.h` | a core, predictor states, windows, the shadow and its two powers | `process_block()`, `reset()`, `set_adaptation()` | owns the core and the shadow; propagates the core's watchdog |
| **cores** `fd_kalman.h`, `fdaf.h` | weights, uncertainty, noise estimate, spectra ring, gates | `process_block()`, `reset()`, `set_adaptation()`, `reinflate_uncertainty()` | their own NaN watchdog |
| **AEC chain** `postfilter.h` | receive floor, convergence latch, guard gain, rescue and shadow counters, a shared cooldown | `process_block()`, `reset()` | a canceller, a suppressor and a shadow; propagates both watchdogs |
| **residual suppressor** `postfilter.h`, **neural suppressor** `nn_suppressor.h` | per-bin estimates, frames | `process_block()`, `reset()` | the AEC chain |
| **linear prediction** `lpc.h` | the fit, the streams' pasts | `analyze()`, `apply()`, `reset()` | the PEM canceller's near-end model |
| **watchdog** `watchdog.h` | none: two checks on a block | | every stage of the echo side |
| **C API** `tools/capi/mutap_capi.cpp` | one handle per unit | create, process, `set_adaptation`, reset | a core, a PEM canceller or an AEC chain |
| **stages** `frequency_shifter.h`, `reverb_stage.h`, `spectral_reverb.h` | filters and delay lines | `process_block()` | the anti-howl chain's three slots |
| **FFT** `fft.h`, **presets** `afc_preset.h` | tables | | |
| tools, tests, benches, platform, vendored code | | | measurements |

Everything runs on one audio thread: a block is processed to the end, and the
host calls setters between blocks (the headers say so: "Call between blocks, on
the audio thread"). There are no locks or threads to interleave. What makes the
code hard is elsewhere:

- **order within a block**: a trip, a declaration, an arrival, a timeout and a
  canceller restart may fall on the same tick, and one branch wins;
- **the host between blocks**: caps, policies, thresholds and resets in any state;
- **several mics, one howl**: a trip is attributed to some of the mics, and
  something shared must notice when that was wrong;
- **evidence that goes stale**: runs, flags and learned levels that outlive what
  they were evidence of;
- **timers and liveness**: a mic that is ducked must not stay silent for ever,
  and must not pump;
- **non-finite input**: one bad block resets one mic's control and not the rest;
  on the echo side it trips one stage after others have already taken it;
- **finite input that overflows**: a block whose *square* is infinite passes a
  check on a sum and parks an infinity where no later check looks;
- **rings and boundaries**: positions that wrap, windows that fill, counters that
  saturate.

What makes each part correct: the guard must be shut when it was told of a howl,
must certify only on evidence, must respect the host's ceiling, and must not get
stuck or pump. The soundcheck's figures must be those of its window, and reach
only the mics that were calibrated. The detector must integrate one line, not trip on an
onset, and not learn the howl. The chain must keep its delays exactly, whatever the
block size. A core must not keep weights that are not numbers, a unit that trips must
start afresh as a whole, the receive guard must be released on evidence and the canceller's
uncertainty lifted on evidence, and not too often. `PROJECT.json` ("hazards") lists where each of these bites, with the
properties aimed at it.

## Modules

| module | what it is |
|---|---|
| `Attribution` | `attribute()`: trips to mics, the episode, the fallback. Shared by the guard and by its own analysis |
| `AttributionHistory` | attribution block after block, with how long each mic has been left out |
| `HowlGuard` | the guard: one action `Update` per block (analyses, triggers, attribution, every mic's `step()`, `render()`), one action per setter |
| `HowlGuardHistory` | the guard with what its promises refer to: runs of good blocks, recovery since a re-arm, the last A' |
| `HowlGuardPaced` | the guard under the fairness of the audio callback |
| `Soundcheck`, `SoundcheckHistory` | the sampler, the quantiles and the thresholds; the blocks heard and the thresholds given |
| `HowlDetector`, `HowlDetectorHistory` | `decide()`; the lines heard and what grew |
| `DelayLine` | `advance()`, `ring_read()`, `ring_write()` |
| `AfcChain` | the chain: one action per block and one per setter |
| `FeedbackLines` | the abstract specification the chain implements: pure delays, no rings |
| `Floats` | the classes of value the watchdog tells apart, and their arithmetic |
| `KalmanCore`, `FdafCore` | the two cores as values: what a block makes of a core |
| `Predictor`, `PemAfc` | the near-end models and their streams; the prewhitened canceller around a core, with its shadow |
| `Suppressors` | the two post stages: the classical one, which checks itself, and the learned one, which does not |
| `AecChain` | the stages of the echo chain joined, and the trip of the whole |
| `EchoPolicy` | the receive guard, the rescue, the shadow comparator, the cooldown they share |
| `EchoHost` | a host driving any one of these units through the block interface: the specification of the echo side |
| `EchoHostHistory` | the host with what an observer remembers, and the properties |
| `MC*` | the instances for TLC |
| `AttributionProofs`, `HowlGuardProofs`, `HowlDetectorProofs`, `SoundcheckProofs`, `AfcChainProofs` | the theorems of the anti-howl side |
| `EchoCoreProofs`, `EchoUnitProofs`, `EchoHostProofs` | those of the echo side: lemmas about the cores, about the units built on them, and the theorems |

The echo side is written as operators on records because its code is: a core is a
member of a canceller, a canceller of a chain, and each `process_block()` calls the
next and compares its trip count afterwards. Only `EchoHost` has variables.

History variables are read by no action of the code's modules; they only say what
a property needs of the past.

### How the models correspond to the code

**Guard.** `Mic` is `mic_state`, field by field, without the readout counters.
`Step` applies, in the code's order, the runs of the verdict and LOST's arming
(`Clocked`), the restart detection (`Fallen`, `Restarted`), then the case of the
state (`StepArming` ... `StepLatched`). `Policy` is the policy as `clamped()` and
`derive()` leave it: tick counts with the ranges those functions guarantee
(a hold is at least one tick; quiet and probation may be none). A residual block is the detector's verdict of that
tick, without its hold (`verdict()`: "silent", "growth", a level "catch", the last
also when a growth verdict hides it, as `update()` recovers it) with the two
statistics, or a block that is not finite. Such a block sets both statistics to
0 dB and `update()` then compares those zeros with the thresholds, so the comment
on `watchdog_trip()` ("a finite "not ok"") holds only while one of a mic's two thresholds is at most 0 dB;
`clamped()` admits up to +120 dB for both. `ThresholdsAssumption` (in `HowlGuardHistory`) keeps such policies
out, so no property here says what becomes of a declaration under two positive thresholds: there a non-finite block
counts as ok. The defaults are -1.2 and -23.8 dB. Decibels are integers and a ramp
counts blocks instead of samples: the gain is then known at block ends,
and what depends on the ramp's exact landing (`s.left == 0 && s.cur == restore_db(s)`)
stays as it is. `KBig` is `k_big`, `StrikeCap` the saturation at 30.

**Attribution.** The peak, the band levels and `attrib_db` decide one thing: the
non-empty set of mics near the loudest. That set is the input. `TripOnly`,
`Fallback` and `Attributed` are the three branches; `Aged` is what `render()`
does to the episode in the same block.

**Soundcheck.** A histogram is a function from bins to saturating counts; values are
integers in half bins, so that a bin centre is an integer. A block that is not
finite reads as 0 dB, as the guard's watchdog leaves it. The quantiles are the
code's search for the first bin that reaches the rank.

**Detector.** The resonators are not modelled: a tick brings any envelopes and
any power, chosen independently (more behaviours than a real bank has). The
least-squares slope and misfit are exact: both are integers when
multiplied by constants of the window length, so no rounding is abstracted. An
integral is capped at `Rise` (`Capped`): from there on it trips, and a growing
line only adds to it. `DetectorGrowthAssumption` requires a positive slope
threshold; `validated()` admits any finite one, and with a threshold at or below
zero a flat line grows and an integral of zero, which the code reads as "no line",
is ambiguous. The default is 0.3 dB per pass. It requires a positive rise for the same reason
(the default is 20 dB).

**Chain.** `ProcessOne` keeps the code's order: the reference is read, the bus
is summed, the stages run between two buffers, the output ring is written,
advanced and read, the speaker is written to the reference ring. A canceller's
residual is any block of a set; a stage is a function on samples; the guard passes or
shuts each mic's block. `set_guard()` with a guard that does not fit returns before the
assignment (`SetGuard`, point 7 below).

**Values.** `Floats` has five classes: zero; ordinary; *huge*, a finite value whose
square overflows; infinite; not a number. A block or a spectrum has the class of its
worst value, since one bad sample makes every bin of its spectrum bad. Sums,
products, quotients and one-pole smoothers are IEEE 754 on these classes. The
two forms of smoother differ, and both occur: `m += c * (x - m)` turns an infinity into
a NaN in the next block (`Chase`), `c * m + (1 - c) * x` keeps it (`Worst`). So do
the two checks: `FiniteSum` lets a huge block through, `FinitePower` does not. `reinflate_uncertainty()`, a maximum
written `x < p0 ? p0 : x`, leaves a NaN. What the numbers decide beyond that is
a *chance* of the block: a comparison of ordinary numbers may go either way, and a
product of a huge and an ordinary factor may or may not be huge.

**Cores.** `KalmanBlock` follows `process_block()`: window and ring, the novelty
discount (before the filter, and adapting or not), the filter, the error, the check (a sum
while adapting, a power while frozen or held by the narrowband guard), then predict,
correct and track. `FdafBlock` adds the coherence estimator and the two gates; the power
tracks even when the update is held. A trip is a reset that keeps the adaptation switch and
the count. Regularisations make every denominator positive.

**Prewhitened canceller.** `PemBlock` filters the raw far end with the core's weights, fits the
near-end model to the window that ends with this error, whitens both signals and gives the
core the pair. Frozen, it checks the error's power and does nothing else. The core
counts its own trip; the canceller compares counts and resets the rest. A stream keeps
one non-finite input for a block (speech) or until a reset (the warped model's allpass chain).

**Post stages.** The classical suppressor's analysis window spans `analysis` blocks, so of each
window only the age of the last overflowing, sounding or non-silent block is kept. Estimators, gains,
floor tracker and comfort fill follow in the code's three passes, with the two
checks. The learned stage has the data flow of a frame: floor, features, recurrent
state, overlap, statistic.

**Echo chain.** `AecBlock` runs canceller and post stage, trips the whole if either counted a trip,
and otherwise runs the shadow (whose own trip is its own affair). `EchoPolicy` takes from the block
what the code reads: the far end's class, the two residuals', and what `echo_explained()`
may say; whether the far end is active and whether the shadow leads are chances once
they are comparisons of numbers. A huge value makes them what IEEE makes them.

## What the runs check

| run | instance | distinct states | shows |
|---|---|---|---|
| `OneMic` | one mic, every time 1 to 3 ticks, two strikes latch, one cap, one soundcheck, 13 residuals | 24 110 | type, cap, flags, trips, level, gains, declarations, no pumping |
| `TwoMics` | two mics, every time one tick but two in ARMING, one strike latches, no ramps, 5 x 2 residuals, one not finite | 40 191 | trips with attribution, declarations, restarts on the policy's thresholds, the bus |
| `Live` | one mic, four residuals | 203 704 | the two liveness properties |
| `AttributionWindow` | three mics, window 4, quiet 2 | 301 | an episode is that of the howl going on, and no mic is left out beyond the window |
| `Chain` | block 2, delays 1 and 1 (rings of 3), three sample values, two mics, three stages no two of which commute (an assumption TLC evaluates), two backing tracks | 50 688 | refinement of `FeedbackLines` |
| `Detector` | three bands, window of three ticks, three levels, three powers | 32 952 | the growth path, the onset, the program level, the hold |
| `Soundcheck` | two mics, windows of 1 and 3 blocks, bins that saturate at 3 | 236 480 | figures, window, thresholds |
| `EchoHost` | nine units: four bare cores, three prewhitened cancellers, the echo chain with the classical stage (guard on) and with the learned one (guard off); every hold two blocks; one faulty block for a core or a chain, two for a canceller | 89 883 | leaks, trips, certificate, lifts, catching and healing |

The bounds are small on purpose and chosen so that the interesting case happens:
`OneMic` has times long enough for a run to be interrupted inside each of its
holds, and strikes past the latch; the ramps take two blocks up and one down, so that
trips and host calls fall inside a ramp. Three mics are needed for
attribution to wander while a third mic is left out. Rings of three with
blocks of two split a block at the wrap, from either side. A window of three ticks
is the shortest that tells a line from a jump, and three bands the fewest the
code allows. In the soundcheck, values lie inside, below and above the bins, and the
host may act at any point of the window. With at most three blocks the 95th percentile of the run is its
maximum; the theorem is what speaks of larger windows.

`EchoHost` has every faulty class on either input, at any moment, against any history of
ordinary blocks, freezes and resets. One fault reaches every hiding place of a core
and of a chain; the canceller needs two, one to park the overflow and one to let it out. Two
partitions are what the novelty discount and a ring that remembers need; the chains have one, their
windows being the longer memory. The cores differ in gate, novelty, floor and narrowband guard so
that each path of `process_block()` runs. A hold of two is the shortest with a run that
can be interrupted. `MaxFaults` is the only bound; the theorems have none.

`OneMic`, `TwoMics` and `Restart` use a VIEW (`LiveView`): it merges states that differ only
in fields nothing reads before they are next set (the time in state outside
ARMING, the floor without a latch, and so on; the comment in
`MCHowlGuardHistory` gives the reason field by field). Apart from the type
invariant, which TLC then evaluates on one state of each merged class (and TLAPS proves
of all), no property of these runs reads a merged field.

### The properties, by what they catch

- `TripShuts`, `DeclarationEarned`: whatever falls on the same block, a trip wins,
  and a certificate rests on an unbroken run.
- `UndeclaredNeedsCap`, `NeverRaisedPastCap`: the ceiling, through every host call.
- `FlagsMatchState`: readouts against states.
- `LevelFollowsStrikes`: the restore level is the back-off of the strikes in
  force, over strikes, decays, `clear()` and `reset()`. It is stated for one
  `strike_db`: `set_policy()` with another leaves the level until the next strike
  or decay.
- `TripNeverRaises`: the strike that latches moves the restore target up to the
  cap; the duck still never aims higher. True only while `duck_db` covers the back-off (see the proof).
- `NoPumping`: after a timer re-arm, LOST waits for a full release hold.
- `BusCutOnTrip`: the post-reverb bus follows the deepest duck. Stated for one `duck_db`: between blocks the bus
  stays where the last policy put it.
- `RearmsWhenQuiet`, `Recovers`: nothing is silenced for good, and a recovered loop
  opens, wherever the ramp, the back-off and the latch were.
- `EpisodeOfThisHowl`, `FallbackInTime`: an episode counts for every mic this howl has left out, and ends with the
  howl and no later, or its age would bring the fallback down on the next one; and a howl that goes on leaves
  no mic out for longer than the window.
- `RestartRearms`: a mic the verdict has certified is in ARMING at the end of the block in which A'
  is back at the restart level, a trip in the same block notwithstanding. It
  holds where the mics run on the policy's thresholds (`TwoMics`) and fails with a
  looser soundcheck's (below).
- `KeepsPromise`: the reference and the output are exactly as late as the class
  comment says. The bus and the aux of a block are variables both modules have, mapped to themselves: what the
  speaker plays is compared with the very bus of `output_delay_samples` before, not with one that would explain it.
- `RiseIsOfOneLine`: the integral that trips is the climb of one line, walked from band
  to neighbouring band; the property follows all such walks through the history.
- `OnsetNeverTrips`, `HowlNotLearned`, `HeldAfterVerdict`: what the file comment
  of the detector promises of onsets, of the tracker and of the hold.
- `OnlyOverflowLeaks`: of the units that check their output, only one ever emits a block that is not finite: a
  prewhitened canceller that has taken a faulty block *while frozen* since its last restart. Neither a bare
  core nor a chain with the classical stage does, nor a canceller whose faults all came while adapting. The learned stage has no
  check at all, and leaks only after a faulty block since the last restart. How the frozen canceller leaks is point 5
  below.
- `TripStartsAfresh`: whichever stage trips, the whole unit is what `reset()`
  would make of it, with its adaptation switch kept. The counter comparisons that
  propagate a trip are what could be missed.
- `CertificateEarned`: the receive guard is released exactly when enough blocks in a
  row certified since the restart, on an echo estimate or on total silence.
- `LiftsSpaced`, `LiftOnEvidence`: two triggers, one cooldown; no block of evidence pays for
  two lifts of its trigger. Votes are counted, and a block against halves them (point 6 below).
- `Caught`: a weight or an uncertainty that is not a number trips an adapting core within two more
  blocks that update (the narrowband guard holds the update). The near-end power is not among them:
  one huge microphone block leaves it infinite for
  ever in a bare core, whose gain is then zero: it stops adapting, without a trip
  (`fd_kalman.h:532`); the property is about what the watchdog does claim.
- `Heals`: what no check sees at once, the chain with the classical stage and comfort noise
  still sheds, because the comfort fill of its floor tracker overflows and that trips it. The bound,
  the longer of `analysis` and `2 * floor_window - 1` blocks, counts from the last faulty block. Two cases
  are excepted: the narrowband guard, which may hold a poisoned core for as long as it likes, and a fault
  taken while frozen: the policy's floor turns NaN without a trip,
  and `receive_active()` is false until the next reset or trip.
- `QuantilesAreOfTheWindow`, `WindowKept`, `OwnThresholdsKept`: the soundcheck speaks
  of its blocks and only of them, and its result stays where it was put.

### Fairness

The only fairness is that of `HowlGuardPaced`: the audio callback keeps
delivering blocks, which is what a running audio device does. A block that
changes nothing would be a stutter, so a variable `beat` that every block flips
carries the weak fairness; a block is possible in every state. Nothing is
assumed of the host: it may call `clear()`, change the cap or reset infinitely often. `Recovers`
assumes, as a hypothesis, that the policy eventually stays; a host that for ever
removes and restores the cap keeps sending mics back to ARMING. The other specifications
state safety only. That an echo unit heals is stated as safety with a bound (`Caught`, `Heals`: a
count of blocks that stays below it), which says more than "eventually" and needs no fairness.
Blocks and host calls are always possible, so no run switches
the deadlock check off.

## Where the code and its documentation disagree

1. **`unprotected()` after a latch** (run `Unprotected`). The release from
   LATCHED declares the mic and, alone among the declarations, does not clear
   `timed_out` (`howl_guard.h:1123-1127`). A mic that timed out in ARMING, opened
   on the cap, latched and was then certified reads as unprotected in OPEN. The
   comment of `unprotected()` says "The canceller has not certified this mic".
2. **Restarts under a soundcheck** (run `Restart`). The restart detection compares
   A' with the policy's `a_db` (`howl_guard.h:1013`), the verdict with the
   mic's own threshold. A mic certified under a looser soundcheck whose A' never fell below
   the policy's `a_db` stays open when its canceller restarts. `RestartAlwaysRearms` proves that it takes a looser
   threshold, or an arming timeout of a single tick.
3. **Non-finite blocks in a soundcheck** (run `SoundcheckNonFinite`). They are
   counted at 0 dB in both histograms; the comment says they are skipped
   (`howl_guard.h:788-789`). The test that would skip them never fires, because
   the watchdog has already written finite values.
4. **Silence certifies the receive guard** (run `EchoSilence`). On digital silence each sum of
   `echo_explained()` holds only its regularisation and their ratio is close to 1
   (`postfilter.h:580`), so `guard_hold_blocks` of a silent microphone certify a canceller that has
   estimated nothing. The comment says "0 with an unconverged canceller" (`postfilter.h:248-250`).

The next three have no failing run of their own: the properties and actions named state what the code does.

5. **A prewhitened canceller can emit a non-finite block** (`OnlyOverflowLeaks`, whose exception it is). Frozen, it
   sums the error and returns before the streams (`pem_afc.h:307-312`), but the raw ring has taken the far end. A
   huge block taken so waits there until adaptation is on again, meets weights that a second overflow made
   huge, and the raw error is infinite while the whitened pair, the only thing checked while adapting, is
   not. The comment says that every non-finite value "ends up in the prewhitened pair" while adapting (`pem_afc.h:301-305`), and
   the contract says it of every fault of the block (`watchdog.h:30-33`); this one came with an earlier block.
6. **Lifts count votes that need not be consecutive** (`LiftOnEvidence`). A receive-active block against a lift halves the count
   instead of clearing it, for the rescue and for the shadow (`postfilter.h:1172`). The configuration's comments speak of
   `rescue_hold_blocks` and `shadow_hold_blocks` "consecutive receive-active blocks" (`postfilter.h:885-888`,
   `923-926`).
7. **A refused guard does not leave the chain without one** (action `SetGuard`). `set_guard()` returns false before it touches
   `m_guard`, so a guard attached before stays attached. The comment says "returns false, leaving the chain without a
   guard" (`afc_chain.h:215-219`).

## What is proved

All with constants arbitrary within their named assumptions: any finite set of
mics, any policies, caps and residuals of the declared types; any block size,
delays, sample values and stages; any echo units a constructor accepts (partitions, windows,
gates, either core, either near-end model, either post stage), any holds, any number of faulty blocks.

- **The guard** (`HowlGuardProofs`). `GuardTypeCorrect`, `FlagsAlwaysMatchState`
  and `CapIsMandatory` come from one inductive invariant, `GuardInv`: the types
  and, per mic, `FlagsOf`. Neither flags nor cap is inductive alone: that OPEN is
  declared needs that RELEASING opens on the flag, and the cap matters for
  undeclared mics in *every* state other than ARMING, ducked, releasing and
  latched included, because each of them leads to an open one. The proof goes operator by operator: those that keep the control
  fields (`SameControl`), then one lemma per state of `step()` and per host call.
  `TripAlwaysShuts` then follows by cases on the state a trip finds.
- **The guard's history** (`HowlGuardProofs`). `DeclarationAlwaysEarned` and `NeverPumps` come
  from `HistoryInv`: per mic the code's run of ok blocks is at most the observer's streak, and either the mic
  has recovered since the last timer re-arm, or it is shut, undeclared, or still has LOST disarmed with
  `rearm_hold` set (`Waits`). The last case is the point: `ok_seen` alone does not say why it is
  clear, and a transition that cleared `rearm_hold` without a run of the hold would let the next bad
  blocks duck the mic. `Follows` says once what any state of `step()` may do to these fields, and
  `HostKeeps` what any host call may.
- **The guard's levels** (`HowlGuardProofs`, last section). `NeverAboveCap`: no transition and no host call but
  a reset, which goes to the arming gain (itself under the cap), moves a gain; only the ramp does, it overshoots its
  target in neither direction, and the target of an uncertified unlatched mic is at most the cap. It rests on
  `GuardInv`. `LevelAlwaysFollows`: every transition that moves the strikes moves the level with them (`Carries`
  for those that move neither). It assumes `OneBackOff`, that the policies share
  `strike_db` and `max_strikes`: `set_policy()` with another back-off leaves the levels as they are.
  `TripNeverOpens` adds `DuckCoversBackOff`, `strike_db * max_strikes <= duck_db` (9 dB against 20 by default), and
  needs it: the strike that latches may lift what a mic restores to from its level to a cap of 0 dB, and only
  the duck below keeps the trip from opening it. The code does not enforce the relation.
  `BusAlwaysCut` assumes one `duck_db` (`OneDuck`). It rests on `Landed`, that a ramp that has ended is at its target,
  and on the existence of a deepest duck among any finite number of mics, from the well-founded order of
  strict subsets.
- **Canceller restarts** (`HowlGuardProofs`, last section). `RestartAlwaysRearms` rests on `RestartInv`: a certified mic has
  seen A' below the `a_db` of the policy (`Knows`: the flag `fell`, without which `step()` looks for no restart), because it was certified on a block
  whose A' was below its own threshold, and no threshold is looser than the policy's (`StrictUnder`). It assumes that of the host's
  thresholds and of every policy (`NoLooserThreshold`; a `set_policy()` with a stricter `a_db` also makes
  a soundcheck the looser one), which the code does not enforce: point 2 above is what happens
  otherwise. It also assumes `TimeoutLasts`, more than one tick in ARMING, since a mic that timed out in the very
  block would leave for its cap; the default is 10 s, and `clamped()` admits a single tick.
- **The detector** (`HowlDetectorProofs`). `VerdictAlwaysHeld` from `HoldInv` (what is left of the hold plus the
  ticks since the verdict). `HowlNeverLearned` from `RingInv` and `FootingInv`: the ring's column
  of a band, read from the write position, is the window that ends the lines heard (`Aligned`),
  and it is full exactly when that window is (`Filled`), so that what the observer calls
  growing is what freezes the program level. It takes any number of bands, any slots and any envelopes.
  - `RiseAlwaysOfOneLine`, from `RiseInv`: each integral is the greatest climb of a walk to its band (`Followed`), where the slopes
    of the last `RiseTicks` ticks are enough, since a longer walk has reached the cap on those alone. The step extends a walk
    by a tick (`WalkLonger`), or takes the last tick off (`WalkShorter`); `Remembered` says that the history has as
    many lines as the ring has filled, so that neither sees a growth the other misses.
  - `OnsetsNeverTrip`, from `OnsetInv`: the window of every tick of a walk is one of the lines kept (`Traced`). A window that
    climbs has a rise in it (`FallingNeverClimbs`: the weights of the slope sum to at most zero from the left, by Abel's summation);
    where the lines rose once, consecutive windows have that rise at consecutive places, each place once.
    So the walk climbs no more than the steepest passing windows add up to over all places. That this is less than
    the rise is the hypothesis (`OnsetsFallShort`): the run evaluates it of its instance (two places, at most
    2 + 2 against 6). With the code's defaults the fit of 16 ticks with a residual of 3 dB RMS has
    slopes of at most 15.3 dB added up over the 15 places, against a rise of 20 dB. `validated()` does not enforce such a relation:
    with a `linearity_db` of 4 or a `rise_db` of 15 the bound no longer excludes a trip on one onset.
  - `DetectorTypeCorrect`: that a slope is an integer is a sum over a window of any length. The program level
    needs that the tracker makes powers of powers (`TracksPowers`); the code's is a one-pole mean of them.
- **Attribution** (`AttributionProofs`). `FallbackAlwaysInTime` and `EpisodeAlwaysOfThisHowl`, from
  `AttributionInv`: while any mic is owed a duck, an episode is on and at least as
  old as the debt, and a running episode has counted exactly the blocks since the
  last trip. The last part is what stops an episode from ending before the howl does.
- **The chain** (`AfcChainProofs`). `ChainTypeCorrect`: every index of the two rings
  is in range. `ChainKeepsPromise`: `AfcChain` implements `FeedbackLines` under
  the mapping that reads each ring from its position on and leaves the bus and the aux as they are, for any sum of
  samples and any stages. It rests on one
  lemma about a ring: writing a block and advancing drops the oldest block of the
  line and appends the new one.
- **The soundcheck** (`SoundcheckProofs`). `WindowAlwaysKept`, from `WindowInv`,
  which adds that a running sampler has at least one block left: without it the
  last block could take the count below zero, where the code's unsigned counter wraps.
  `SoundcheckTypeCorrect`, from `CheckInv`: a statistic out of range still falls into a bin, and what a
  calibration or a store brings is clamped, whatever the margins. The quantile is a number because its first
  bin exists, which comes from the well-founded order of the naturals and not from an induction.
  `ThresholdsAlwaysKept`, from `OwnInv`: whether `calibrate_end(true)` gives thresholds rests on a histogram that is not empty, and
  a histogram is empty exactly while nothing was heard.
  `FiguresAlwaysOfTheWindow`, from `FiguresInv`: the count up to a bin is the number of blocks heard at or below it (`Tallies`), so
  that the first bin to reach the rank is the bin of the block of that rank. It assumes that no window is longer
  than a bin can count (`WindowsFit`): `clamped()` bounds `calibrate_s` by 1e6 s, fewer than 2^32 - 1 blocks as long as a block
  has at least 12 samples at 48 kHz.

- **The echo side** (`EchoHostProofs`, over `EchoCoreProofs` and `EchoUnitProofs`).
  `OnlyOverflowsLeak`, `CertificateAlwaysEarned`, `LiftsAlwaysSpaced`, `LiftsRestOnEvidence` and
  `PolicyAlwaysTyped` come from one inductive invariant, `HostInv`, with these parts:
  - `Typed`: every field holds a class of value; `TameBefore`: before a fault since the last restart,
    every field holds an ordinary one. The lemmas about cores and units are stated once, for a *grade*
    that is either all values or the tame ones, so that one induction over the stages serves both;
  - `WindowsHold`: what the post stage still has in its windows came after the restart. Without
    it a stale window could certify the guard;
  - `CertificateHolds`: the code's count is the observer's streak until it certifies;
  - `RestHolds`: blocks since the last lift plus what the cooldown has left make a cooldown. The
    spacing alone is not inductive: it says nothing until the next lift;
  - `VotesHold`: before a fault, the code's votes are at most the evidence not yet spent.

  `OnlyOverflowsLeak` adds `ShieldInv`, of a canceller that has taken no faulty block while frozen: whatever
  non-finite or overflowing far end its raw ring still holds, the ring of its core holds too, no older. Adapting, both rings
  slide in the same block, and a slot of the core's is at least as bad as the raw one. So what would make the raw error
  non-finite makes the core's error so, and the core trips before the block goes out. A block taken frozen
  slides one ring only, which is where the argument, and the property, stop.

  `TripsStartAfresh` is a property of each step, by cases on the unit's kind and on which stage
  trips; it uses the types only.

  `PoisonIsCaught` adds `SickInv`: a core poisoned for two blocks has weights that are not numbers, and those
  show in the next error. `ChainsHeal` adds `HealInv` (`Mends`): after a faulty block either the core is about to reset itself
  (`Spoiled`), or it is a filter again and the windows of the suppressor will be through what is left
  in them before the bound (`Recovering`, with the ages `Lag` and `Age`).

The provers have no induction over data. What is a sum or a count here is a fold of the library or a
recursive function, and what it is comes from a smallest counterexample: the least bin, the shortest interval,
the subset with the fewest elements at which a statement fails. The well-founded orders of the naturals
and of finite subsets give that one, and the equation of the fold refutes it.

Only model-checked, and why:

- `RearmsWhenQuiet` and `Recovers`: liveness under fairness is out of the prover's reach.
- The values of the plain sum over M mics: the refinement proof needs only that the bus is some block.
- That the default thresholds of the detector satisfy `OnsetsFallShort`: real arithmetic, done by hand above.

## What is not modelled

- The numerical parts: filters, FFT, prediction, suppression gains, neural
  inference, reverberation and shifting. They have no control worth a model, and
  their correctness is a matter of measurement.
- The detector's partition of `process_block()` (the guard always passes whole blocks),
  `confidence()`, and the harmonic readouts.
- On the echo side: the levels (the receive guard's gain, whose release can
  step when the guard is certified in mid-ramp, the smoothed suppression gains, the low-band certificate), null handles,
  failed construction, `clone`, step sizes and the read-only queries of the C API; weights and file
  loading of the learned stage; the plain predictor as a canceller's own model.
  After a reset the code's cached `echo_explained()` is that of the last block until the next one; nothing
  reads it in between.
- Inputs: at most one of the two is silent, or faulty, in one block.
- In the chain: `set_adaptation()`, and a trailing partial block, which is outside
  the documented precondition.
- Constructors' validation, beyond the assumptions it gives the constants.
- The frequency shifter, the reverbs, the FFT, the presets: signal processing and tables.

## Plan

What is left, in this order:

1. The assumptions of the theorems that the code does not enforce (`OneBackOff`, `DuckCoversBackOff`, `OneDuck`,
   `NoLooserThreshold`): what remains of each property without them, stated and proved, say from the block
   on in which the mics have next taken up the policy.
2. `GuardedChain`: `HowlGuard` with the statistics of `PemAfc` and the chain's
   `reset()` and `set_guard()`. The question no module answers alone: can a cleared
   canceller be behind an open guard (over a detach, a reset and an attach)?
3. A trailing partial block of the chain, and the detector's partition.

## Running it

    tlc -config HowlGuardOneMic.cfg MCHowlGuardHistory.tla
    tlc -config EchoHost.cfg MCEchoHost.tla
    tlapm HowlGuardProofs.tla
    tlapm EchoHostProofs.tla

`PROJECT.json` names the module of each configuration, maps every definition to
the lines it models, and gives for each property a mutation of the model that
breaks it.
