--------------------------- MODULE EepromInputs ----------------------------
(* defaultEEPROM and default232H_EEPROM, varied one group of fields at a   *)
(* time, for model checking.                                               *)
EXTENDS EepromBuild

Letters(n) == [k \in 1 .. n |-> 65 + (k % 26)]

default232H == [
  vendor_id |-> 1027, product_id |-> 24596, type |-> TYPE_232H,
  flags |-> {"use_serial"}, usb_version |-> 0, max_power |-> 50,
  high_current |-> 0, invert |-> 0, size |-> 256, cbus |-> <<0, 0, 0, 0, 0>>,
  manufacturer |-> Letters(4), product |-> Letters(24), serial |-> <<>>]

default2232H == [default232H EXCEPT
  !.product_id = 24592, !.type = TYPE_2232H, !.size = 128]

Options == {{}, {"use_serial"}, {"change_usb_version"}, {"self_powered", "remote_wakeup"},
            {"in_is_isochronous", "suspend_pull_downs"}, {"out_is_isochronous", "use_serial"}}

Structs(e) ==
  {[e EXCEPT !.flags = f, !.usb_version = 512, !.max_power = p] : f \in Options, p \in {0, 255}}
  \cup {[e EXCEPT !.type = t, !.invert = i, !.vendor_id = id] :
          t \in TYPE_AM .. 7, i \in {0, 200}, id \in {1027, 65535}}
  \cup {[e EXCEPT !.type = TYPE_R, !.high_current = 16, !.cbus = <<a, b, 13, 1, c>>] :
          a \in {0, 13, 14}, b \in {0, 7}, c \in {9, 10}}
  \cup {[e EXCEPT !.cbus = <<0, 0, 0, 1, 0>>], [e EXCEPT !.high_current = 16]}

Lengths(e, ms, ps, ss) ==
  {[e EXCEPT !.manufacturer = Letters(m), !.product = Letters(p), !.serial = Letters(s)] :
     m \in ms, p \in ps, s \in ss}

Wide(e) == [e EXCEPT !.size = 256]

SomeInputs ==
  {"232h"} \X (Structs(default232H) \cup Lengths(default232H, {0, 4, 7, 256}, {0, 24, 33}, {0, 12, 13, 260}))
  \cup {"2232h"} \X (Structs(Wide(default2232H))
                       \cup Lengths(Wide(default2232H), {0, 12}, {0, 24, 35}, {0, 12, 24}))

LongInputs ==
  {"2232h"} \X (Lengths(default2232H, {4}, {24}, 0 .. 24)
                  \cup Lengths(Wide(default2232H), {4}, {24}, 0 .. 34))
=============================================================================
