---------------------------- MODULE SensorInput ----------------------------
(***************************************************************************)
(* From the ADC value to the speed in frame 0x100 (sensor_app.c): a moving *)
(* average with a running sum over a ring of samples, and the conversion.  *)
(***************************************************************************)
LOCAL INSTANCE Integers
LOCAL INSTANCE Sequences
LOCAL INSTANCE SequencesExt
LOCAL INSTANCE Functions

FILTER_SIZE == 8
ADCDRV_MAX_VALUE == 4095
SENSOR_SPEED_MAX_X10 == 2500

FilterReset(sample) ==
    [buf |-> [i \in 0 .. FILTER_SIZE - 1 |-> sample], sum |-> sample * FILTER_SIZE, idx |-> 0]

\* Faulty variant: the sum takes the sample before the one it replaces is found.
FilterUpdateNextSlot(filter, sample) ==
    LET next == (filter.idx + 1) % FILTER_SIZE
    IN  [filter EXCEPT !.sum = @ - filter.buf[next] + sample, !.buf[filter.idx] = sample, !.idx = next]
FilterUpdate(filter, sample) ==
    [filter EXCEPT !.sum = @ - filter.buf[filter.idx] + sample,
                   !.buf[filter.idx] = sample,
                   !.idx = (@ + 1) % FILTER_SIZE]

Filtered(filter) == filter.sum \div FILTER_SIZE

AdcToSpeedX10(adc) ==
    (adc * SENSOR_SPEED_MAX_X10 + ADCDRV_MAX_VALUE \div 2) \div ADCDRV_MAX_VALUE

-----------------------------------------------------------------------------
(* What they promise.                                                      *)

\* The nearest speed to adc / ADCDRV_MAX_VALUE of the full scale.
Nearest(speed, adc) ==
    LET off == speed * ADCDRV_MAX_VALUE - adc * SENSOR_SPEED_MAX_X10
    IN  -ADCDRV_MAX_VALUE <= 2 * off /\ 2 * off <= ADCDRV_MAX_VALUE

\* The reference: the mean of the last FILTER_SIZE samples, those before the
\* first counted like it.
Mean(first, samples) ==
    LET all  == [i \in 1 .. FILTER_SIZE |-> first] \o samples
        last == SubSeq(all, Len(samples) + 1, Len(all))
    IN  FoldFunction(+, 0, last) \div FILTER_SIZE

\* Every ADC value, and runs of extreme and uneven ones of more than a round.
Inputs ==
    [first : 0 .. ADCDRV_MAX_VALUE, then : {<<>>}]
        \union [first : {0, 7, ADCDRV_MAX_VALUE}, then : [1 .. FILTER_SIZE + 2 -> {0, ADCDRV_MAX_VALUE}]]
        \union [first : {7}, then : [1 .. 6 -> {0, 1, 5, ADCDRV_MAX_VALUE}]]

\* The running sum never drifts from the mean of the window, wherever the ring has
\* got to, and the speed sent is the one nearest to it, in the range that the
\* Control ECU monitors (SpeedPath's Speeds).
SpeedFromSamples ==
    \A input \in Inputs :
        LET adc   == Filtered(FoldLeft(FilterUpdate, FilterReset(input.first), input.then))
            speed == AdcToSpeedX10(adc)
        IN  /\ adc = Mean(input.first, input.then)
            /\ speed \in 0 .. SENSOR_SPEED_MAX_X10 /\ Nearest(speed, adc)
=============================================================================
