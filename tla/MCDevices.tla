------------------------------ MODULE MCDevices ------------------------------
(***************************************************************************)
(* The programs around the devices, each on its own: the ring player and   *)
(* the command server of uartd, the two sensors, and the key, hot plug and *)
(* light programs.  They share no state; a behaviour is one of one of them *)
(* and the others stay as they begin.                                      *)
(***************************************************************************)
EXTENDS RePlayer, Sequences, FiniteSets

CONSTANTS c1, c2,                                 \* the callers of GyroSensor
          MaxRx, MaxRead, RxCap, TxCap,          \* Uartd
          N, Funcs, None, MaxOps,                \* GSensor
          Nobody, MaxCalls, MayFail,             \* GyroSensor
          MaxChanges, MaxSamples                 \* Board

VARIABLES which,
          rx, req, need, reader, cut, rq, parser, wq, writer, rest, line, sent,
          send, count, state, release, on, axes, pc, gslot, gsent, gcalls, failed, rushed, early, ops,
          holder, at, calls, wanted, ending, enabled, device, fifodata, thread, looker, mishaps,
          usb, charged, dark, changes, keys, uevents, mUsbPlugIn, mChangeFull,
          keySets, plugSets, asking, gpio, curIsHeight, samples, same

uart   == <<rx, req, need, reader, cut, rq, parser, wq, writer, rest, line, sent>>
sensor == <<send, count, state, release, on, axes, pc, gslot, gsent, gcalls, failed, rushed, early, ops>>
gyro   == <<holder, at, calls, wanted, ending, enabled, device, fifodata, thread, looker, mishaps>>
board  == <<usb, charged, dark, changes, keys, uevents, mUsbPlugIn, mChangeFull,
            keySets, plugSets, asking, gpio, curIsHeight, samples, same>>

U == INSTANCE Uartd
G == INSTANCE GSensor WITH slot <- gslot, sent <- gsent, calls <- gcalls
Y == INSTANCE GyroSensor WITH reader <- looker, failed <- mishaps, Callers <- {c1, c2}
B == INSTANCE Board WITH full <- charged

ASSUME InstanceAssumption ==
    U!CapBounds /\ G!SlotBounds /\ Y!CallerBounds /\ B!BoardBounds

all == <<which, vars, uart, sensor, gyro, board>>

DevInit == /\ which \in {"replayer", "uartd", "gsensor", "gyrosensor", "board"}
           /\ Init /\ U!Init /\ G!Init /\ Y!Init /\ B!Init
           /\ (which # "gsensor" => ~state) /\ (which # "board" => ~charged /\ ~dark)

\* A step of one program.
Player(A) == which = "replayer" /\ A /\ UNCHANGED <<which, uart, sensor, gyro, board>>
Uart(A)   == which = "uartd" /\ A /\ UNCHANGED <<which, vars, sensor, gyro, board>>
Sensor(A) == which = "gsensor" /\ A /\ UNCHANGED <<which, vars, uart, gyro, board>>
Gyro(A)   == which = "gyrosensor" /\ A /\ UNCHANGED <<which, vars, uart, sensor, board>>
Lights(A) == which = "board" /\ A /\ UNCHANGED <<which, vars, uart, sensor, gyro>>

DevNext == Player(Next) \/ Uart(U!Next) \/ Sensor(G!Next) \/ Gyro(Y!Next) \/ Lights(B!Next)

\* The fairness of the modules.  As which is constant, the fairness of one
\* action of each is that of their disjunction; and three calls start no more than
\* three threads of gsensor.
DevSpec ==
    /\ DevInit /\ [][DevNext]_all
    /\ WF_all(Player(Loop) \/ Uart(U!ReaderNotifies) \/ Sensor(G!Works(1)) \/ Gyro(Y!Runs))
    /\ WF_all(Uart(U!ParserRuns) \/ Sensor(G!Works(2)))
    /\ WF_all(Uart(U!WriterRuns) \/ Sensor(G!Works(3)))
    /\ SF_all(Player(Loop /\ ReadOne) \/ Sensor(G!Samples) \/ Gyro(Y!Serves(c1)))
    /\ SF_all(Player(Handle("main")) \/ Sensor(G!Syncs) \/ Gyro(Y!Serves(c2)))
    /\ SF_all(Player(Handle("loop")))

-----------------------------------------------------------------------------
(* The properties of the modules, but those of RePlayer, which keep their   *)
(* names.                                                                   *)

\* Every variable keeps its type, in each of the programs.
TypesOK == TypeOK /\ U!TypeOK /\ G!TypeOK /\ Y!TypeOK /\ B!TypeOK

\* uartd cuts its commands from the stream of bytes as a parser of frames would,
\* however the reads cut it, and its replies reach the line whole and in order.
UartFramesWhole == U!CutsTheFrames /\ U!RepliesWhole

\* The gsensor device has one polling thread, runs only for it, and the state by which
\* callers go is set only while there is one; the first two but for the orders of
\* calls and thread that the properties name.
SensorThreadAndDevice == G!OneThread /\ G!StateHasThread /\ G!DeviceFollows

\* When no call of gyrosensor is under way its state, its buffer and its thread agree,
\* and at any time its device and its state, but for the failures named.
GyroSettled == Y!Settled /\ Y!DeviceAsState

\* An unplugged board shows no charge light once adcKey and hotplug have handled
\* everything, however their commands were interleaved; and the lamp of
\* adcDetect follows the dark within two samples, whatever adcKey did to it.
BoardLights == B!UnpluggedIsDark /\ B!LampFollows

\* RePlayer plays again after an underrun, unless it is paused or overlapping signals
\* stopped it; uartd passes over no complete frame and empties its fifos; a function
\* that stays registered with gsensor is handed samples, unless its thread failed or
\* a call came too soon for it; and calls of gyrosensor return, until a start fails.
DevicesProgress ==
    /\ which = "replayer" => PlaysAgain
    /\ which = "uartd" => U!FifosDrain
    /\ which = "gsensor" => G!RegisteredIsCalled
    /\ which = "gyrosensor" => Y!CallsReturn
    /\ U!ReadsKeepPace
=============================================================================
