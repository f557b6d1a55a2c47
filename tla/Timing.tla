------------------------------- MODULE Timing -------------------------------
(***************************************************************************)
(* The time arithmetic of DaveOS on words of a small width: the conversion *)
(* of a chrono duration to microseconds (core/foundation/duration.hpp),    *)
(* the default timeout of a bus transaction                                *)
(* (hal/detail/actions.hpp) and the ticks of the independent watchdog      *)
(* (platform/stm32h5 and stm32h7 reliability.cpp).                         *)
(*                                                                         *)
(* A state is one call: its arguments, then what it returned.  The code    *)
(* computes in unsigned words that wrap modulo 2^64; here the word is      *)
(* 0..TgForever and every product and sum of the code wraps with TgWord.   *)
(* The scale factors (10^6, 32000, 4096, ...) are constants, so that a     *)
(* small word meets the same edges.  A byte span is its address and size.  *)
(***************************************************************************)
EXTENDS Integers, Sequences
LOCAL INSTANCE SequencesExt

CONSTANTS
  TgForever,   \* kForever, the largest word
  TgMillion,   \* microseconds in a second
  TgFactor, TgMargin, TgMinimum,   \* kTimeoutFactor, kTimeoutMarginUs, kTimeoutMinimumUs
  TgByte,      \* 2^8, the radix of a response's mask and value
  TgBurst,     \* 32, the longest response that is scanned
  TgNarrow,    \* UINT32_MAX, the largest read_until limit
  TgLsi,       \* 32000, the watchdog's clock
  TgTicks,     \* 4096, the longest watchdog count
  TgDivisor,   \* 4, the watchdog's smallest divisor
  TgChips,     \* [top, early]: the last prescaler (8 and 6), the early warning
  TgEarly,     \* kEarlyWarningTicks
  TgCounts,    \* tick counts of the durations converted
  TgPeriods,   \* their periods, reduced fractions [num, den]
  TgSequences, \* sequences of bus actions
  TgRates,     \* bus rates in Hz, 0 included
  TgRequests,  \* requested timeouts: microseconds, 0 an invalid one, -1 none
  TgTimeouts   \* requested watchdog timeouts

VARIABLES
  tgCall,      \* the call and its arguments
  tgResult     \* what it returned, [ok, ...]
tgVars == <<tgCall, tgResult>>

TgRefused == [ok |-> FALSE]
TgPending == [ok |-> FALSE, waiting |-> TRUE]

\* What a word holds of an exact value.
TgWord(n) == n % (TgForever + 1)

TgMaximum == TgForever - 1   \* kMaximumTime

-----------------------------------------------------------------------------
(* to_microseconds *)

\* std::gcd, by its definition.
TgGcd(a, b) == CHOOSE d \in 1..b : /\ a % d = 0 /\ b % d = 0
                                   /\ \A e \in (d + 1)..b : ~(a % e = 0 /\ b % e = 0)

\* The scale is reduced by the common factor first: num * 10^6 may not fit.
TgConverted(count, period) ==
  LET common     == TgGcd(period.den, TgMillion)
      divisor    == period.den \div common
      multiplier == TgMillion \div common
      scaled     == TgWord((count \div divisor) * period.num)
  IN IF \/ count < 0
        \/ count % divisor # 0
        \/ count \div divisor > TgMaximum \div period.num
        \/ scaled > TgMaximum \div multiplier
     THEN TgRefused
     ELSE [ok |-> TRUE, value |-> TgWord(scaled * multiplier)]

-----------------------------------------------------------------------------
(* Measure and Timeout.  A sum under way is [ok, value]. *)

TgAdd(sum, amount) ==
  IF ~sum.ok \/ sum.value > TgMaximum \/ amount > TgMaximum - sum.value
  THEN [sum EXCEPT !.ok = FALSE]
  ELSE [sum EXCEPT !.value = TgWord(@ + amount)]

TgMultiplyAnyway(sum, amount) ==   \* mutant: the product wraps unnoticed
  [sum EXCEPT !.value = TgWord(@ * amount)]

TgMultiply(sum, amount) ==
  IF ~sum.ok \/ (amount # 0 /\ sum.value > TgMaximum \div amount)
  THEN [sum EXCEPT !.ok = FALSE]
  ELSE [sum EXCEPT !.value = TgWord(@ * amount)]

TgOf(n) == [ok |-> TRUE, value |-> n]

\* Overlap: the difference of the addresses against the size of the lower span.
TgOverlap(a) ==
  IF a.txAt <= a.rxAt THEN a.rxAt - a.txAt < a.tx ELSE a.txAt - a.rxAt < a.rx

TgPolls(a) == a.op \in {"poll_response", "read_until"}

\* The bits of v that are not in m, for two bytes: value & ~mask.
TgOutside(v, m) ==
  \E b \in 0..(TgByte - 1) : /\ TgByte % (2^b) = 0 /\ 2^b < TgByte
                             /\ (v \div 2^b) % 2 = 1
                             /\ (m \div 2^b) % 2 = 0

\* A response's amount: a non-empty mask over a value inside the mask.
TgMasked(amount) ==
  /\ amount < TgByte * TgByte
  /\ amount \div TgByte # 0
  /\ ~TgOutside(amount % TgByte, amount \div TgByte)

\* The arguments of an SPI action that Measure accepts, sums apart.
TgSpiSound(a, count) ==
  /\ a.valid
  /\ CASE a.op = "write"          -> a.tx # 0 /\ a.rx = 0
       [] a.op = "read"           -> a.rx # 0 /\ a.tx = 0
       [] a.op = "exchange"       -> a.tx # 0 /\ a.tx = a.rx /\ ~TgOverlap(a)
       [] a.op = "read_until"     -> a.rx = 1 /\ a.tx = 0 /\ a.amount <= TgNarrow
       [] a.op = "poll_response"  -> a.rx \in 1..TgBurst /\ a.tx = 0 /\ TgMasked(a.amount)
       [] a.op = "check_response" -> a.tx \in 1..TgBurst /\ a.rx = 0 /\ TgMasked(a.amount)
       [] a.op = "pause"          -> a.amount # 0 /\ a.tx = 0 /\ a.rx = 0
       [] a.op = "idle_clocks"    -> /\ count = 1 /\ a.amount # 0 /\ a.amount % 8 = 0
                                     /\ a.tx = 0 /\ a.rx = 0 /\ a.fill

\* Measure(spi): add the action's bits and pauses to the running sums.
TgMeasureSpi(m, a, count) ==
  LET bytes == IF a.rx > 0 THEN a.rx ELSE a.tx
      n     == TgMultiply(TgOf(bytes), 8)
  IN IF ~TgSpiSound(a, count) THEN [m EXCEPT !.bits.ok = FALSE]
     ELSE CASE a.op = "check_response" -> m
            [] a.op = "pause"          -> [m EXCEPT !.pauses = TgAdd(@, a.amount)]
            [] a.op = "idle_clocks"    -> [m EXCEPT !.bits = TgAdd(@, a.amount)]
            [] OTHER -> IF n.ok THEN [m EXCEPT !.bits = TgAdd(@, n.value)]
                                ELSE [m EXCEPT !.bits.ok = FALSE]

\* Measure(i2c): nine bits a byte, the address byte and START/STOP included.
TgMeasureI2c(m, a, count) ==
  LET bytes == IF a.op = "i2c_read" THEN a.rx ELSE a.tx
      n     == TgAdd(TgMultiply(TgAdd(TgOf(bytes), 1), 9), 2)
      sound == CASE a.op = "i2c_probe" -> count = 1 /\ a.tx = 0 /\ a.rx = 0
                 [] a.op = "i2c_read"  -> a.rx # 0 /\ a.tx = 0
                 [] a.op = "i2c_write" -> a.tx # 0 /\ a.rx = 0
  IN CASE ~sound            -> [m EXCEPT !.bits.ok = FALSE]
       [] a.op = "i2c_probe" -> [m EXCEPT !.bits = TgAdd(@, 11)]
       [] OTHER -> IF n.ok THEN [m EXCEPT !.bits = TgAdd(@, n.value)]
                           ELSE [m EXCEPT !.bits.ok = FALSE]

TgI2c(a) == a.op \in {"i2c_probe", "i2c_read", "i2c_write"}

TgMeasured(actions) ==
  FoldLeft(LAMBDA m, a : IF TgI2c(a) THEN TgMeasureI2c(m, a, Len(actions))
                                     ELSE TgMeasureSpi(m, a, Len(actions)),
           [bits |-> TgOf(0), pauses |-> TgOf(0)], actions)

\* Timeout.  A request of -1 is none, of 0 an invalid Duration.
TgTimeoutOf(actions, rate, request) ==
  LET m    == TgMeasured(actions)
      part == TgWord((m.bits.value % rate) * TgMillion + rate - 1) \div rate
      wire == TgAdd(TgMultiply(TgAdd(TgMultiply(TgOf(m.bits.value \div rate), TgMillion),
                    part), TgFactor), TgMargin)
      total == TgAdd([wire EXCEPT !.value = IF @ > TgMinimum THEN @ ELSE TgMinimum],
                     m.pauses.value)
  IN IF \/ actions = <<>> \/ rate = 0 \/ request = 0
        \/ request = -1 /\ \E i \in DOMAIN actions : TgPolls(actions[i])
        \/ ~m.bits.ok \/ ~m.pauses.ok
     THEN TgRefused
     ELSE IF request # -1 THEN [ok |-> TRUE, value |-> request]
     ELSE IF total.ok THEN [ok |-> TRUE, value |-> total.value] ELSE TgRefused

-----------------------------------------------------------------------------
(* Watchdog::Start *)

\* The count of a timeout under a prescaler, rounded up.
TgCount(timeout, prescaler) ==
  LET numerator   == TgWord(timeout * TgLsi)
      denominator == TgDivisor * 2^prescaler * TgMillion
  IN numerator \div denominator + (IF numerator % denominator # 0 THEN 1 ELSE 0)

TgFits(ticks) == ticks # 0 /\ ticks <= TgTicks

\* The early-warning comparator (stm32h5); 0 leaves the warning off.
TgEarlyComparator(ticks) ==
  IF ticks > 1 THEN IF ticks > TgEarly THEN TgEarly ELSE ticks - 1 ELSE 0

\* The loop over the prescalers stops at the first under which the count fits.
\* A second start, or a timeout no count can hold, touches no register.  Once
\* started the watchdog runs whatever follows: when the reload, or on stm32h5
\* the comparator, does not synchronize in time the call still returns timeout.
TgStarted(c) ==
  LET fitting == {p \in 0..c.chip.top : TgFits(TgCount(c.timeout, p))}
      p       == CHOOSE q \in fitting : \A r \in fitting : q <= r
      ticks   == TgCount(c.timeout, p)
  IN IF c.started \/ c.timeout > TgForever \div TgLsi \/ fitting = {}
     THEN TgRefused
     ELSE [ok |-> c.stall = "none", prescaler |-> p, reload |-> ticks - 1,
           early |-> IF c.chip.early /\ c.stall # "reload" THEN TgEarlyComparator(ticks) ELSE 0]

-----------------------------------------------------------------------------
TgInit ==
  /\ tgResult = TgPending
  /\ \/ \E n \in TgCounts, p \in TgPeriods :
          tgCall = [what |-> "convert", count |-> n, period |-> p]
     \/ \E s \in TgSequences, r \in TgRates, q \in TgRequests :
          tgCall = [what |-> "timeout", actions |-> s, rate |-> r, request |-> q]
     \/ \E t \in TgTimeouts, c \in TgChips, b \in BOOLEAN, s \in {"none", "reload", "early"} :
          /\ s = "early" => c.early
          /\ tgCall = [what |-> "start", timeout |-> t, chip |-> c, started |-> b, stall |-> s]

TgConvert ==
  /\ tgResult = TgPending /\ tgCall.what = "convert"
  /\ tgResult' = TgConverted(tgCall.count, tgCall.period)
  /\ UNCHANGED tgCall

TgTimeout ==
  /\ tgResult = TgPending /\ tgCall.what = "timeout"
  /\ tgResult' = TgTimeoutOf(tgCall.actions, tgCall.rate, tgCall.request)
  /\ UNCHANGED tgCall

TgStart ==
  /\ tgResult = TgPending /\ tgCall.what = "start"
  /\ tgResult' = TgStarted(tgCall)
  /\ UNCHANGED tgCall

TgNext == TgConvert \/ TgTimeout \/ TgStart

TgSpec == TgInit /\ [][TgNext]_tgVars

-----------------------------------------------------------------------------
(* The same three functions on unbounded integers. *)

\* A conversion succeeds exactly when the exact value is a whole number of
\* microseconds below kForever, and returns it.
TgConvertExact ==
  LET exact == tgCall.count * tgCall.period.num * TgMillion
      fits  == /\ tgCall.count >= 0
               /\ exact % tgCall.period.den = 0
               /\ exact \div tgCall.period.den <= TgMaximum
  IN /\ tgResult.ok = fits
     /\ fits => tgResult.value = exact \div tgCall.period.den

TgBytesOf(a) == IF a.rx > 0 THEN a.rx ELSE a.tx

\* The bits an action clocks, and the spans of an exchange as sets of bytes.
TgBitsOf(a) == CASE a.op \in {"check_response", "pause"} -> 0
                 [] a.op = "idle_clocks" -> a.amount
                 [] a.op = "i2c_probe" -> 11
                 [] a.op \in {"i2c_read", "i2c_write"} -> 9 * (TgBytesOf(a) + 1) + 2
                 [] OTHER -> 8 * TgBytesOf(a)

TgDisjoint(a) == a.op = "exchange" => {a.txAt + i : i \in 0..(a.tx - 1)}
                                        \cap {a.rxAt + i : i \in 0..(a.rx - 1)} = {}

TgTotal(actions, f(_)) == FoldLeft(LAMBDA n, a : n + f(a), 0, actions)

TgPauseOf(a) == IF a.op = "pause" THEN a.amount ELSE 0

TgCeil(a, b) == (a + b - 1) \div b

\* An accepted default timeout is TgFactor times the exact wire time, rounded
\* up, plus the margin, at least the minimum, plus the pauses: long enough for
\* the transaction.  A sound sequence is refused only when that value, or its
\* number of bits, does not fit in a word below kForever.
TgTimeoutExact ==
  LET s     == tgCall.actions
      bits  == TgTotal(s, TgBitsOf)
      wire  == TgFactor * (TgMillion * (bits \div tgCall.rate)
                           + TgCeil(TgMillion * (bits % tgCall.rate), tgCall.rate)) + TgMargin
      exact == (IF wire > TgMinimum THEN wire ELSE TgMinimum) + TgTotal(s, TgPauseOf)
      sound == /\ s # <<>> /\ tgCall.rate # 0 /\ tgCall.request # 0
               /\ \A i \in DOMAIN s : IF TgI2c(s[i])
                                      THEN TgMeasureI2c([bits |-> TgOf(0)], s[i], Len(s)).bits.ok
                                      ELSE TgSpiSound(s[i], Len(s))
               /\ tgCall.request = -1 => \A i \in DOMAIN s : ~TgPolls(s[i])
      room  == bits <= TgMaximum /\ TgTotal(s, TgPauseOf) <= TgMaximum
  IN /\ tgResult.ok <=> sound /\ room /\ (tgCall.request = -1 => exact <= TgMaximum)
     /\ tgResult.ok => /\ \A i \in DOMAIN s : TgDisjoint(s[i])
                       /\ tgResult.value = IF tgCall.request = -1 THEN exact ELSE tgCall.request

\* A started watchdog resets no earlier than asked and less than a tick later,
\* under the finest prescaler that can hold the time, even when the call then
\* gives up on synchronization; the early warning comes before the reset.  It
\* is left alone when it already runs, and otherwise only a timeout of zero or
\* beyond the longest count is refused.
TgStartExact ==
  LET asked   == tgCall.timeout * TgLsi
      unit(p) == TgDivisor * 2^p * TgMillion
      p       == tgResult.prescaler
      ticks   == tgResult.reload + 1
      ran     == tgResult # TgRefused
  IN /\ ran <=> /\ ~tgCall.started
                /\ asked # 0
                /\ asked <= TgTicks * unit(tgCall.chip.top)
                /\ asked <= TgForever
     /\ ran => /\ ticks \in 1..TgTicks
               /\ asked <= ticks * unit(p)
               /\ asked > (ticks - 1) * unit(p)
               /\ p > 0 => asked > TgTicks * unit(p - 1)
               /\ tgResult.early <= tgResult.reload
     /\ tgResult.ok /\ tgCall.chip.early => ((tgResult.early = 0) = (ticks = 1))

\* The word arithmetic of to_microseconds, Timeout and Watchdog::Start agrees
\* with the same calculation on unbounded integers: no product or sum wraps
\* unnoticed, nothing is rounded down, and nothing representable is refused.
TgExact ==
  tgResult # TgPending =>
    CASE tgCall.what = "convert" -> TgConvertExact
      [] tgCall.what = "timeout" -> TgTimeoutExact
      [] tgCall.what = "start"   -> TgStartExact
=============================================================================
