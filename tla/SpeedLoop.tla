------------------------------ MODULE SpeedLoop -------------------------------
(***************************************************************************)
(* speedThread (main.cpp) and the classes it is made of: CalcSpeed turns    *)
(* the counter of a wheel's encoder into a filtered speed, Pid turns the    *)
(* error of the speed into a drive, Pwm sets the two channels of the wheel. *)
(*                                                                         *)
(* The thread is preempted between its accesses to the hardware: the tick   *)
(* and the wheels go on between any two steps.  Speeds are integers; the    *)
(* gains and limits of the program are constants.  A double that was never  *)
(* initialised may be NaN, which no comparison of the code notices.         *)
(***************************************************************************)
EXTENDS SlideWindow

CONSTANTS
  Wheels,      \* the wheels in the order the loop serves them
  CntHalf,     \* half the values of the counter, and of rt_int16_t: 2^15
  TickRange,   \* the values of rt_tick_t: 2^32
  RpmScale,    \* 60 * 1000 / _cpr
  VxGain, VwGain,   \* the kinematics: wheel speed per vx, per vw
  RefMax,      \* the limit of a wheel's speed
  Kp, Ki, Kd,  \* gains of the Pid
  PidMax,      \* _max, -_min and the limit of _sum
  Period,      \* _period of the Pwm
  MIN_PULSE,   \* of drv_pwm.c
  PrintEvery,  \* turns of the loop between two lines of output
  Commands,    \* pairs <<vx, vw>> that may arrive
  Uninit,      \* values an uninitialised double may have, NaN among them
  NaN,
  StartTick, StartPos,   \* the tick and the positions when the thread starts
  MaxStep,     \* counts a wheel turns in one tick, at most
  MaxStall,    \* bound: ticks between two reads of one counter
  MaxTicks     \* bound: ticks the model runs

ASSUME SpeedLoopAssumption ==
  /\ Wheels \in Seq({"left", "right"}) /\ Wheels # <<>>
  /\ CntHalf \in Nat \ {0} /\ TickRange \in Nat \ {0}
  /\ RpmScale \in Int /\ VxGain \in Int /\ VwGain \in Int
  /\ Kp \in Int /\ Ki \in Int /\ Kd \in Int
  /\ PrintEvery \in Nat
  /\ Commands \subseteq Int \X Int
  /\ NaN \notin Int /\ Uninit \subseteq Int \cup {NaN}
  /\ MaxStep \in Nat /\ MaxStall \in Nat /\ MaxTicks \in Nat
  /\ PidMax \in Nat /\ Period \in Nat /\ MIN_PULSE \in Nat /\ RefMax \in Nat
  /\ PidMax <= Period /\ MIN_PULSE <= Period
  /\ StartTick \in Nat /\ StartPos \in Int
  \* a wheel does not turn half the range of its counter between two reads
  /\ MaxStep * MaxStall < CntHalf
  \* and the ticks between two reads of the tick do not fill its range
  /\ 3 * MaxStall < TickRange

WheelSet == {Wheels[i] : i \in 1 .. Len(Wheels)}

VARIABLES
  now,       \* ticks since the system started
  pos,       \* where each wheel really is, in counts
  pc,        \* where the loop is
  rest,      \* the wheels it still has to serve in this stage
  cnt,       \* turns since the last output
  speed,     \* the command in force
  first,     \* CalcSpeed::_first
  last_cnt, last_time,
  now_cnt,   \* the local variable of CalcSpeed::calc
  filter,    \* CalcSpeed::_filter
  ref, sum, pre_err,   \* of the Pid
  out,       \* what Pid::calc returned for the wheel being served
  duty       \* the compare value of each channel, "cw" and "ccw"

(* History: where each wheel was, and when, at the last read of its counter *)
(* and at the one before; when the tick was last read; the newest samples.  *)
VARIABLES read_pos, last_pos, read_time, last_tick, samples

world == <<now, pos>>
calcVars == <<first, last_cnt, last_time, now_cnt, filter>>
pidVars == <<ref, sum, pre_err, out>>
histVars == <<read_pos, last_pos, read_time, last_tick, samples>>
vars == <<world, pc, rest, cnt, speed, calcVars, pidVars, duty, histVars>>

----------------------------------------------------------------------------
(* The hardware and the kernel (external).                                  *)

\* x in the width of the counter, read as a signed number.
Signed(x) ==
  LET u == x % (2 * CntHalf) IN IF u >= CntHalf THEN u - 2 * CntHalf ELSE u

\* The timers count modulo 2^16 (Init.Period = 65535).
getCounter(w) == Signed(pos[w])

rt_tick_get == now % TickRange

Clamp(x, m) == IF x > m THEN m ELSE IF x < -m THEN -m ELSE x

\* drv_pwm_set keeps a pulse between MIN_PULSE and the period.
Compare(pulse) ==
  IF pulse < MIN_PULSE THEN MIN_PULSE ELSE IF pulse > Period THEN Period ELSE pulse

----------------------------------------------------------------------------

Init ==
  /\ now = StartTick
  /\ pos = [w \in WheelSet |-> StartPos]
  /\ pc = "recv" /\ rest = <<>> /\ cnt = 0
  /\ speed = <<0, 0>>
  /\ first = [w \in WheelSet |-> TRUE]
  /\ last_cnt = [w \in WheelSet |-> 0]
  /\ last_time = [w \in WheelSet |-> 0]
  /\ now_cnt = 0
  /\ filter = [w \in WheelSet |-> NewWindow]
  /\ ref = [w \in WheelSet |-> 0]
  /\ sum \in [WheelSet -> Uninit]          \* the constructor of Pid leaves
  /\ pre_err \in [WheelSet -> Uninit]      \* both uninitialised
  /\ out = 0
  /\ duty = [w \in WheelSet |-> [ch \in {"cw", "ccw"} |-> 0]]
  /\ read_pos = [w \in WheelSet |-> StartPos]
  /\ last_pos = [w \in WheelSet |-> StartPos]
  /\ read_time = [w \in WheelSet |-> StartTick]
  /\ last_tick = [w \in WheelSet |-> StartTick]
  /\ samples = [w \in WheelSet |-> <<>>]

----------------------------------------------------------------------------
(* One turn of the loop.                                                    *)

\* 60 * (2 * vx -/+ wheel_base * vw) * 0.5 / (2 * 3.14 * wheel_radius), limited.
WheelSpeed(w, v) ==
  Clamp(VxGain * v[1] + (IF w = "left" THEN -VwGain ELSE VwGain) * v[2], RefMax)

\* rt_mq_recv, which may leave the command as it is, and setRef.
Recv ==
  /\ pc = "recv"
  /\ speed' \in Commands \cup {speed}
  /\ ref' = [w \in WheelSet |-> WheelSpeed(w, speed')]
  /\ pc' = "read" /\ rest' = Wheels
  /\ UNCHANGED <<world, cnt, calcVars, sum, pre_err, out, duty, histVars>>

\* CalcSpeed::calc, the first call: _last_time, then _last_cnt get their values.
FirstTick ==
  /\ pc = "read" /\ first[Head(rest)]
  /\ first' = [first EXCEPT ![Head(rest)] = FALSE]
  /\ last_time' = [last_time EXCEPT ![Head(rest)] = rt_tick_get]
  /\ last_tick' = [last_tick EXCEPT ![Head(rest)] = now]
  /\ pc' = "first"
  /\ UNCHANGED <<world, rest, cnt, speed, last_cnt, now_cnt, filter, pidVars, duty,
                 read_pos, last_pos, read_time, samples>>

FirstCount ==
  /\ pc = "first"
  /\ last_cnt' = [last_cnt EXCEPT ![Head(rest)] = getCounter(Head(rest))]
  /\ last_pos' = [last_pos EXCEPT ![Head(rest)] = pos[Head(rest)]]
  /\ read_time' = [read_time EXCEPT ![Head(rest)] = now]
  /\ pc' = "read"
  /\ UNCHANGED <<world, rest, cnt, speed, first, last_time, now_cnt, filter, pidVars,
                 duty, read_pos, last_tick, samples>>

\* Every call: the counter is read.
ReadCounter(w) ==
  /\ now_cnt' = getCounter(w)
  /\ read_pos' = [read_pos EXCEPT ![w] = pos[w]]
  /\ read_time' = [read_time EXCEPT ![w] = now]
  /\ UNCHANGED <<world, cnt, speed, first, last_cnt, last_time, filter, pidVars, duty,
                 last_pos, last_tick, samples>>

Elapsed(w) ==
  LET diff_t == (rt_tick_get - last_time[w]) % TickRange
  IN IF diff_t = 0 THEN 1 ELSE diff_t

\* Mutant: the difference of the counters is kept in an int.
DiffInt(w) == now_cnt - last_cnt[w]

diff_cnt(w) == Signed(now_cnt - last_cnt[w])

Rpm(w) == (diff_cnt(w) * RpmScale) \div Elapsed(w)

\* The rest of the call: the tick is read, the sample filtered.
Sample(w) ==
  /\ filter' = [filter EXCEPT ![w] = push(@, Rpm(w))]
  /\ last_cnt' = [last_cnt EXCEPT ![w] = now_cnt]
  /\ last_time' = [last_time EXCEPT ![w] = rt_tick_get]
  /\ last_pos' = [last_pos EXCEPT ![w] = read_pos[w]]
  /\ last_tick' = [last_tick EXCEPT ![w] = now]
  /\ samples' = [samples EXCEPT ![w] =
                   IF Len(@) < WindowLen THEN Append(@, Rpm(w))
                   ELSE Append(Tail(@), Rpm(w))]
  /\ UNCHANGED <<world, first, now_cnt, read_pos, read_time>>

\* Mutant: the output is not limited.
PidOutUnlimited(err, s, pre) ==
  IF NaN \in {s, pre} THEN NaN ELSE Kp * err + Ki * s + Kd * (pre - err)

PidSum(s, err) == IF s = NaN THEN NaN ELSE Clamp(s + err, PidMax)

PidOut(err, s, pre) ==
  IF NaN \in {s, pre} THEN NaN
  ELSE Clamp(Kp * err + Ki * s + Kd * (pre - err), PidMax)

\* Pid::calc with the new speed.
Calc(w) ==
  LET err == ref[w] - getFilterValue(filter'[w])
  IN /\ sum' = [sum EXCEPT ![w] = PidSum(@, err)]
     /\ out' = PidOut(err, sum'[w], pre_err[w])
     /\ pre_err' = [pre_err EXCEPT ![w] = err]

ControlRead ==
  /\ pc = "read" /\ ~first[Head(rest)]
  /\ ReadCounter(Head(rest))
  /\ pc' = "sample"
  /\ UNCHANGED rest

ControlSample ==
  /\ pc = "sample"
  /\ Sample(Head(rest))
  /\ Calc(Head(rest))
  /\ pc' = "drive"
  /\ UNCHANGED <<rest, cnt, speed, ref, duty>>

\* NaN is neither above nor below 0: it becomes setCW(0).
Forward == out = NaN \/ out >= 0
Pulse == IF out = NaN THEN 0 ELSE IF out < 0 THEN -out ELSE out

\* The first rt_pwm_set of setCW or setCCW: the channel that drives.
Drive ==
  /\ pc = "drive"
  /\ duty' = [duty EXCEPT ![Head(rest)][IF Forward THEN "cw" ELSE "ccw"] = Compare(Pulse)]
  /\ pc' = "release"
  /\ UNCHANGED <<world, rest, cnt, speed, calcVars, pidVars, histVars>>

\* Mutant: the other channel keeps its pulse.
ReleaseForgotten ==
  /\ pc = "release"
  /\ rest' = Tail(rest)
  /\ pc' = IF rest' = <<>> THEN "print" ELSE "read"
  /\ UNCHANGED <<world, cnt, speed, calcVars, pidVars, duty, histVars>>

\* The second one: the other channel is set to 0.
Release ==
  /\ pc = "release"
  /\ duty' = [duty EXCEPT ![Head(rest)][IF Forward THEN "ccw" ELSE "cw"] = Compare(0)]
  /\ rest' = Tail(rest)
  /\ pc' = IF rest' = <<>> THEN "print" ELSE "read"
  /\ UNCHANGED <<world, cnt, speed, calcVars, pidVars, histVars>>

Reversed(s) == [i \in 1 .. Len(s) |-> s[Len(s) + 1 - i]]

\* cnt++ >= 100: the arguments of rt_kprintf call calc() once more, in the order
\* the compiler chooses; then rt_thread_mdelay(1).
PrintLine ==
  /\ pc = "print"
  /\ \/ /\ cnt < PrintEvery
        /\ cnt' = cnt + 1
        /\ pc' = "delay"
        /\ UNCHANGED rest
     \/ /\ cnt >= PrintEvery
        /\ cnt' = 0
        /\ pc' = "printRead"
        /\ rest' \in {Wheels, Reversed(Wheels)}
  /\ UNCHANGED <<world, speed, calcVars, pidVars, duty, histVars>>

PrintRead ==
  /\ pc = "printRead"
  /\ ReadCounter(Head(rest))
  /\ pc' = "printSample"
  /\ UNCHANGED rest

PrintSample ==
  /\ pc = "printSample"
  /\ Sample(Head(rest))
  /\ rest' = Tail(rest)
  /\ pc' = IF rest' = <<>> THEN "delay" ELSE "printRead"
  /\ UNCHANGED <<cnt, speed, pidVars, duty>>

\* A tick passes and the wheels turn; it ends the sleep of the thread, and may
\* also find it preempted anywhere in its loop.
Tick ==
  /\ now < StartTick + MaxTicks
  /\ \A w \in WheelSet : now - read_time[w] < MaxStall
  /\ now' = now + 1
  /\ \E step \in [WheelSet -> -MaxStep .. MaxStep] :
       pos' = [w \in WheelSet |-> pos[w] + step[w]]
  /\ pc' = IF pc = "delay" THEN "recv" ELSE pc
  /\ UNCHANGED <<rest, cnt, speed, calcVars, pidVars, duty, histVars>>

Turn ==
  \/ Recv \/ FirstTick \/ FirstCount \/ ControlRead \/ ControlSample \/ Drive \/ Release
  \/ PrintLine \/ PrintRead \/ PrintSample

Next == Turn \/ Tick

Spec == Init /\ [][Next]_vars

----------------------------------------------------------------------------
(* Properties                                                               *)

PCs == {"recv", "first", "read", "sample", "drive", "release", "print", "printRead",
        "printSample", "delay"}

\* Every variable has its type; the drive never exceeds the period of the Pwm,
\* whatever _sum and _pre_err were at the start.
TypeOK ==
  /\ now \in StartTick .. StartTick + MaxTicks
  /\ pos \in [WheelSet -> Int]
  /\ pc \in PCs
  /\ rest \in Seq(WheelSet) /\ (rest = <<>> => pc \in {"recv", "print", "delay"})
  /\ cnt \in 0 .. PrintEvery
  /\ speed \in Commands \cup {<<0, 0>>}
  /\ first \in [WheelSet -> BOOLEAN]
  /\ last_cnt \in [WheelSet -> Int]
  /\ last_time \in [WheelSet -> 0 .. TickRange - 1]
  /\ now_cnt \in -CntHalf .. CntHalf - 1
  /\ ref \in [WheelSet -> -RefMax .. RefMax]
  /\ sum \in [WheelSet -> Int \cup {NaN}]
  /\ pre_err \in [WheelSet -> Int \cup {NaN}]
  /\ out \in (-Period .. Period) \cup {NaN}
  /\ duty \in [WheelSet -> [{"cw", "ccw"} -> 0 .. Period]]

\* The speed of a sample is the distance the wheel really turned between the
\* two reads of its counter, over the time that really passed between the two
\* reads of the tick (at least one): nothing is lost when the counter or the
\* tick runs over, when the thread is preempted between the two, or when the
\* output takes an extra sample.
SamplesAreTrue ==
  pc \in {"sample", "printSample"} =>
    LET w == Head(rest)
        dt == now - last_tick[w]
    IN Rpm(w) = ((read_pos[w] - last_pos[w]) * RpmScale)
                  \div (IF dt = 0 THEN 1 ELSE dt)

\* The filter holds the last WindowLen samples in order, never a cell that was
\* not written; until there are that many it reports 0.
FilterIsRecent ==
  \A w \in WheelSet :
    LET f == filter[w]
    IN /\ f.is_full <=> Len(samples[w]) = WindowLen
       /\ f.back = (IF f.is_full THEN WindowLen ELSE Len(samples[w]) + 1)
       /\ \A i \in 1 .. Len(samples[w]) : f.static_array[i] = samples[w][i]

\* The two channels of a wheel never drive at the same time, except between the
\* two calls of rt_pwm_set that change over from one to the other.
ChannelsExclusive ==
  \A w \in WheelSet :
    (\A ch \in {"cw", "ccw"} : duty[w][ch] > MIN_PULSE)
      => pc = "release" /\ w = Head(rest)

===============================================================================
