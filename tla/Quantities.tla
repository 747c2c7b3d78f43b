------------------------------ MODULE Quantities ------------------------------
(* Numbers the system computes once and then relies on: sizes given as flags  *)
(* (common/parse_size.cc), how many tasks a servant offers                    *)
(* (daemon/cloud/execution_engine.cc), how busy its processors are            *)
(* (daemon/sysinfo.cc), and the age of an object of the store                 *)
(* (cache/cos_cache_engine.cc).                                               *)
EXTENDS Integers, Sequences, SequencesExt

CONSTANTS
    UnitBits,       \* bits from one unit of size to the next (10)
    Width,          \* bits of a size (64)
    MaxLoadSamples, \* kSampleCount
    MonthDays       \* the length of each month

-----------------------------------------------------------------------------
(* Sizes.  A text is a sequence of characters: three digits, the units, and   *)
(* whatever else the samples have.                                            *)

Value == [zero |-> 0, three |-> 3, nine |-> 9]
Digits == DOMAIN Value
UnitOf == [B |-> 0, K |-> 1, M |-> 2, G |-> 3]

(* flare::TryParse<std::size_t>: digits only, and nothing that overflows.     *)
Number(text) == FoldLeft(LAMBDA n, d : 10 * n + Value[d], 0, text)

IsNumber(text) ==
    /\ text # <<>> /\ \A i \in DOMAIN text : text[i] \in Digits
    /\ Number(text) < 2^Width

(* -1 stands for std::nullopt.                                                *)
TryParseSize(text) ==
    LET unit == Last(text) \in DOMAIN UnitOf
        number == IF unit THEN Front(text) ELSE text
        scale == IF unit THEN 2^(UnitBits * UnitOf[Last(text)]) ELSE 1
    IN  IF IsNumber(number) THEN (Number(number) * scale) % 2^Width ELSE -1

-----------------------------------------------------------------------------
(* How many tasks a servant takes, and why it takes none.  A machine: its     *)
(* processors, whether it is dedicated and in a container, and what the flag  *)
(* max_remote_tasks says.                                                     *)
PoorMachine == 16

Concurrency(machine) ==
    IF machine.flag > 0 THEN [limit |-> machine.flag, reason |-> "unknown"]
    ELSE IF machine.flag = 0 THEN [limit |-> 0, reason |-> "user instructed"]
    ELSE IF machine.dedicated
      THEN [limit |-> (machine.nprocs * 95) \div 100, reason |-> "unknown"]
    ELSE IF machine.cgroup THEN [limit |-> 0, reason |-> "cgroups present"]
    ELSE IF machine.nprocs <= PoorMachine
      THEN [limit |-> 0, reason |-> "poor machine"]
    ELSE [limit |-> (machine.nprocs * 40) \div 100, reason |-> "unknown"]

(* What a heartbeat says: a capacity, or 0 and the reason.                    *)
GetMaximumTasks(machine) ==
    LET c == Concurrency(machine)
    IN  IF c.limit # 0 THEN [capacity |-> c.limit, reason |-> "none"]
        ELSE [capacity |-> 0, reason |-> c.reason]

-----------------------------------------------------------------------------
(* The load.  `idle' is what the processors together were idle in each second *)
(* since the daemon started.                                                  *)
SampleProcessorIdleTime(samples, idle) ==
    LET longer == Append(samples, idle)
    IN  IF Len(longer) > MaxLoadSamples THEN Tail(longer) ELSE longer

IdleTimes(idle) ==
    FoldLeft(LAMBDA s, i :
               SampleProcessorIdleTime(s, (IF s = <<>> THEN 1 ELSE Last(s)) + i),
             <<>>, idle)

(* -1 stands for std::nullopt.                                                *)
TryGetProcessorLoad(nprocs, samples, interval) ==
    IF interval < Len(samples)
      THEN nprocs - (Last(samples) - samples[Len(samples) - interval]) \div interval
      ELSE -1

-----------------------------------------------------------------------------
(* The age of an object.  tm_mon counts months from 0, and the text's months, *)
(* which begin with 1, are stored in it unchanged; mktime makes a day that    *)
(* the month does not have one of the month after.                            *)
FromIso8601Timestamp(date) ==
    FoldLeft(LAMBDA a, b : a + b, 0, SubSeq(MonthDays, 1, date.mon)) + date.day

-----------------------------------------------------------------------------

(* A size that fits its type is what the text says, digit by digit and with   *)
(* its unit, and no text that is not a number passes for one.                 *)
SizeExact(text, size) ==
    LET n == Len(text)
        unit == text[n] \in DOMAIN UnitOf
        number == SubSeq(text, 1, IF unit THEN n - 1 ELSE n)
        means == (CASE text[n] = "K" -> 2^UnitBits [] text[n] = "M" -> 4^UnitBits
                    [] text[n] = "G" -> 8^UnitBits [] OTHER -> 1)
                 * FoldLeft(LAMBDA a, b : a + b, 0,
                     [i \in DOMAIN number |->
                        IF number[i] \in Digits
                          THEN Value[number[i]] * 10^(Len(number) - i) ELSE 0])
        proper == number # <<>> /\ \A i \in DOMAIN number : number[i] \in Digits
    IN  /\ ~proper => size = -1
        /\ proper /\ means < 2^Width => size = means

(* A servant that offers nothing says why, unless it is dedicated and has one *)
(* processor; one that was not told otherwise never offers all it has.        *)
OfferExplained(machine, offer) ==
    /\ offer.capacity = 0 =>
         \/ offer.reason \notin {"none", "unknown"}
         \/ machine.dedicated /\ machine.nprocs = 1
    /\ machine.flag <= 0 => offer.capacity < machine.nprocs

(* The load is known as soon as the daemon has run for the interval and is    *)
(* that of the last seconds only: so many processors had something to do.     *)
LoadExact(idle, nprocs, interval, load) ==
    LET n == Len(idle)
        recent == FoldLeft(LAMBDA a, b : a + b, 0, SubSeq(idle, n - interval + 1, n))
    IN  interval < MaxLoadSamples =>
          IF n <= interval THEN load = -1
          ELSE /\ load \in 0 .. nprocs
               /\ (nprocs - load) * interval <= recent
               /\ recent < (nprocs - load + 1) * interval

(* Of two objects the later one is taken for the later one, if both were      *)
(* written on days that the following month has too.                          *)
AgesOrdered(x, y, difference) ==
    LET earlier == x.mon < y.mon \/ (x.mon = y.mon /\ x.day < y.day)
        Common(date) == date.day <= MonthDays[date.mon + 1]
    IN  Common(x) /\ Common(y) /\ earlier => difference < 0
=============================================================================
