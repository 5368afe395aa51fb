-------------------------------- MODULE Gpio --------------------------------
(***************************************************************************)
(* The GPIO functions of libpi over the registers of the chip: the function *)
(* of ten pins is packed into one register, three bits each.               *)
(*                                                                         *)
(*   my-gpio.c   gpio_set_function, gpio_set_output, gpio_write, gpio_read *)
(*                                                                         *)
(* The registers are external: GPSET and GPCLR set and clear the latch of   *)
(* the pins whose bits are 1, GPLEV shows a latch where the pin is an       *)
(* output and the outside, which may be anything, where it is not.         *)
(***************************************************************************)
EXTENDS Integers

CONSTANTS
  Pins,       \* pin numbers the program uses, also wrong ones
  Functions   \* function numbers it uses, also wrong ones

ASSUME GpioAssumption == Pins \subseteq Nat /\ Functions \subseteq Nat

VARIABLES
  fsel,   \* the registers GPFSEL0 to GPFSEL3
  latch,  \* the pins whose output latch is 1
  asked,  \* the last call
  ret     \* and what it returned

gpioVars == <<fsel, latch, asked, ret>>

Chip == 0..31
INPUT == 0
OUTPUT == 1

Ask(fn, pin, val) == [call |-> fn, pin |-> pin, val |-> val]

GpioInit ==
  /\ fsel = [r \in 0..3 |-> 0] /\ latch = {} /\ ret = 0
  /\ asked = Ask("none", 0, 0)

\* The field of a pin in a register of value v.
Offset(pin) == 8^(pin % 10)
Field(v, pin) == (v \div Offset(pin)) % 8

\* Mutant of WithField: v &= 0b111 << off.
WithFieldOnly(v, pin, val) == val * Offset(pin)

\* v &= ~(0b111 << off), v |= val << off
WithField(v, pin, val) == v - Field(v, pin) * Offset(pin) + val * Offset(pin)

\* gpio_set_function: get32 and put32 of one register.
SetFunction(pin, val) ==
  /\ asked' = Ask("set", pin, val)
  /\ IF pin >= 32 \/ val % 8 # val
     THEN ret' = -1 /\ UNCHANGED fsel
     ELSE ret' = 0 /\ fsel' = [fsel EXCEPT ![pin \div 10] = WithField(@, pin, val)]
  /\ UNCHANGED latch

GpioSetFunction == \E pin \in Pins, val \in Functions : SetFunction(pin, val)
GpioSetOutput == \E pin \in Pins : SetFunction(pin, OUTPUT)
GpioSetInput == \E pin \in Pins : SetFunction(pin, INPUT)

\* gpio_set_on, gpio_set_off: 1 << pin to GPSET0 or GPCLR0.
GpioWrite ==
  \E pin \in Pins, v \in {0, 1} :
    /\ asked' = Ask("write", pin, v)
    /\ IF pin >= 32
       THEN ret' = -1 /\ UNCHANGED latch
       ELSE ret' = 0 /\ latch' = IF v = 1 THEN latch \cup {pin} ELSE latch \ {pin}
    /\ UNCHANGED fsel

\* GPLEV0, one bit of it.
Lev(pin) == IF Field(fsel[pin \div 10], pin) = OUTPUT THEN {IF pin \in latch THEN 1 ELSE 0} ELSE {0, 1}

\* gpio_read, which asserts pin < 32.
GpioRead ==
  \E pin \in Pins \cap Chip :
    asked' = Ask("read", pin, 0) /\ ret' \in Lev(pin) /\ UNCHANGED <<fsel, latch>>

GpioNext == GpioSetFunction \/ GpioSetOutput \/ GpioSetInput \/ GpioWrite \/ GpioRead

GpioSpec == GpioInit /\ [][GpioNext]_gpioVars
-----------------------------------------------------------------------------
\* Every pin is its own: a call changes the function or the latch of the pin it
\* names, as it says, and of no other, although ten of them share a register; a
\* wrong pin or function changes nothing; an output reads as it was last written.
Promised == INSTANCE PinSpec WITH function <- [pin \in Chip |-> Field(fsel[pin \div 10], pin)]
PinsApart == Promised!Spec
=============================================================================
