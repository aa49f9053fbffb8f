-------------------------------- MODULE Board --------------------------------
(***************************************************************************)
(* The lights of the board and the programs that set them: adcKey goes by  *)
(* the key events of the charger and of the light comparator, hotplug by   *)
(* the uevents of the USB port, adcDetect by the samples of the light      *)
(* sensor.  They know nothing of each other; each sets a pin by running a  *)
(* command, so the two pins of the charge light change one after the other.*)
(***************************************************************************)
EXTENDS Naturals, Sequences

CONSTANTS MaxChanges,   \* bound on the changes of the charger and of the light
          MaxSamples    \* mSampleCount

\* What the constants may be.
BoardBounds == MaxChanges \in Nat /\ MaxSamples \in Nat

Red == 510    \* the pins: a charge light is on at 0, the lamp at 1
Green == 511
Lamp == 105
Pins == {Red, Green, Lamp}

VARIABLES usb, full, dark,    \* the charger, the battery, the light outside
          changes,
          keys, uevents,      \* what adcKey and hotplug have yet to read
          mUsbPlugIn, mChangeFull,
          keySets, plugSets,  \* the pins that adcKey and hotplug have yet to set
          asking,             \* hotplug runs "GpioCtrl.sh get 5"
          gpio,
          curIsHeight, samples,
          same                \* samples since the light changed or somebody else
                              \* set the lamp
world == <<usb, full, dark, changes>>
adcKey == <<keys, mUsbPlugIn, mChangeFull, keySets>>
hotplug == <<uevents, plugSets, asking>>
adcDetect == <<curIsHeight, samples, same>>
vars == <<world, adcKey, hotplug, adcDetect, gpio>>

Plug == /\ changes < MaxChanges /\ changes' = changes + 1
        /\ usb' = ~usb
        /\ keys' = Append(keys, <<"usb", usb'>>) /\ uevents' = Append(uevents, usb')
        /\ UNCHANGED <<full, dark, mUsbPlugIn, mChangeFull, keySets, plugSets, asking,
                       adcDetect, gpio>>

Charge == /\ changes < MaxChanges /\ changes' = changes + 1
          /\ full' = ~full
          /\ keys' = Append(keys, <<"full", full'>>)
          /\ UNCHANGED <<usb, dark, mUsbPlugIn, mChangeFull, keySets, hotplug, adcDetect, gpio>>

\* The comparator may or may not notice.
Dusk(noticed) ==
    /\ changes < MaxChanges /\ changes' = changes + 1
    /\ dark' = ~dark /\ same' = 0
    /\ keys' = IF noticed THEN Append(keys, <<"dark", dark'>>) ELSE keys
    /\ UNCHANGED <<usb, full, mUsbPlugIn, mChangeFull, keySets, hotplug, curIsHeight, samples, gpio>>

Bit(b) == IF b THEN 1 ELSE 0

\* rgbLightUpdate: green when the battery is full, red while it charges.
\* Mutant: the charger is not looked at.
RgbLight_Blind(plugged, isFull) == <<<<Red, Bit(isFull)>>, <<Green, Bit(~isFull)>>>>
RgbLight(plugged, isFull) ==
    IF plugged THEN <<<<Red, Bit(isFull)>>, <<Green, Bit(~isFull)>>>>
               ELSE <<<<Red, 1>>, <<Green, 1>>>>

\* listen: one key event; the next one is read when its pins are set.
Listen == /\ keys # <<>> /\ keySets = <<>>
          /\ LET what == Head(keys)[1]  value == Head(keys)[2]
             IN  /\ mUsbPlugIn' = IF what = "usb" THEN value ELSE mUsbPlugIn
                 /\ mChangeFull' = IF what = "full" THEN value ELSE mChangeFull
                 /\ keySets' = IF what = "dark" THEN <<<<Lamp, Bit(value)>>>>
                               ELSE RgbLight(mUsbPlugIn', mChangeFull')
          /\ keys' = Tail(keys)
          /\ UNCHANGED <<world, hotplug, adcDetect, gpio>>

\* MonitorNetlinkUevent: a port that is connected is asked for the battery.
Uevent == /\ uevents # <<>> /\ plugSets = <<>> /\ ~asking
          /\ asking' = Head(uevents)
          /\ plugSets' = IF Head(uevents) THEN <<>> ELSE <<<<Red, 1>>, <<Green, 1>>>>
          /\ uevents' = Tail(uevents)
          /\ UNCHANGED <<world, adcKey, adcDetect, gpio>>

AskFull == /\ asking /\ asking' = FALSE
           /\ plugSets' = <<<<Red, 0>>, <<Green, Bit(~full)>>>>
           /\ UNCHANGED <<world, adcKey, uevents, adcDetect, gpio>>

\* GpioCtrl.sh set, run by adcKey or by hotplug.
KeySets == /\ keySets # <<>> /\ keySets' = Tail(keySets)
           /\ gpio' = [gpio EXCEPT ![Head(keySets)[1]] = Head(keySets)[2]]
           /\ same' = IF Head(keySets)[1] = Lamp THEN 0 ELSE same
           /\ UNCHANGED <<world, keys, mUsbPlugIn, mChangeFull, hotplug, curIsHeight, samples>>

PlugSets == /\ plugSets # <<>> /\ plugSets' = Tail(plugSets)
            /\ gpio' = [gpio EXCEPT ![Head(plugSets)[1]] = Head(plugSets)[2]]
            /\ UNCHANGED <<world, adcKey, uevents, asking, adcDetect>>

\* adcDetect: a sample below the threshold sets the lamp when curIsHeight is 0,
\* one above when it is 1; any other turns curIsHeight over (line 79), so the
\* lamp is set at every other sample.
\* Mutant: any other sample leaves curIsHeight as it is.
Detect_Keeps == /\ samples < MaxSamples /\ samples' = samples + 1
                /\ same' = IF same < 2 THEN same + 1 ELSE same
                /\ IF dark # curIsHeight
                   THEN gpio' = [gpio EXCEPT ![Lamp] = Bit(dark)] /\ curIsHeight' = dark
                   ELSE curIsHeight' = curIsHeight /\ UNCHANGED gpio
                /\ UNCHANGED <<world, adcKey, hotplug>>

Detect == /\ samples < MaxSamples /\ samples' = samples + 1
          /\ same' = IF same < 2 THEN same + 1 ELSE same
          /\ IF dark # curIsHeight
             THEN gpio' = [gpio EXCEPT ![Lamp] = Bit(dark)] /\ curIsHeight' = dark
             ELSE curIsHeight' = ~dark /\ UNCHANGED gpio
          /\ UNCHANGED <<world, adcKey, hotplug>>

Init == /\ usb = FALSE /\ full \in BOOLEAN /\ dark \in BOOLEAN /\ changes = 0
        /\ keys = <<>> /\ uevents = <<>> /\ mUsbPlugIn = FALSE /\ mChangeFull = FALSE
        /\ keySets = <<>> /\ plugSets = <<>> /\ asking = FALSE
        /\ gpio = [p \in Pins |-> IF p = Lamp THEN 0 ELSE 1]
        /\ curIsHeight = FALSE /\ samples = 0 /\ same = 0

Next == \/ Plug \/ Charge \/ Dusk(TRUE) \/ Dusk(FALSE)
        \/ Listen \/ KeySets \/ Uevent \/ AskFull \/ PlugSets \/ Detect

Spec == Init /\ [][Next]_vars
-----------------------------------------------------------------------------
Sets == Pins \X {0, 1}
TypeOK == /\ {usb, full, dark, mUsbPlugIn, mChangeFull, asking, curIsHeight} \subseteq BOOLEAN
          /\ changes \in 0 .. MaxChanges /\ samples \in 0 .. MaxSamples /\ same \in 0 .. 2
          /\ keys \in Seq({"usb", "full", "dark"} \X BOOLEAN) /\ uevents \in Seq(BOOLEAN)
          /\ keySets \in Seq(Sets) /\ plugSets \in Seq(Sets) /\ ~(asking /\ plugSets # <<>>)
          /\ gpio \in [Pins -> {0, 1}]

ChargeSettled == keys = <<>> /\ uevents = <<>> /\ keySets = <<>> /\ plugSets = <<>> /\ ~asking

\* Once both programs have handled everything, an unplugged board shows no
\* charge light, however their commands were interleaved.
UnpluggedIsDark == ChargeSettled /\ ~usb => gpio[Red] = 1 /\ gpio[Green] = 1

\* Two samples after the light changed, or after adcKey set the lamp, the lamp
\* is on just when it is dark.
LampFollows == same = 2 => gpio[Lamp] = Bit(dark)
=============================================================================
