----------------------------- MODULE Conversions -----------------------------
(***************************************************************************)
(* Conversions of numbers the tools make on the way from the command line  *)
(* or a descriptor to a comparison or a report.                            *)
(***************************************************************************)
EXTENDS Integers

(* An unsigned char parameter or variable keeps the low byte of an int.    *)
Byte(n) == n % 256

(* The largest value of an unsigned short: off time and LED period. *)
Uint16Max == 65535

(* bcdDevice holds the firmware version as two bytes.                      *)
GetFwVersionAsInt(release) == (release \div 256) * 100 + (release % 256)

(* g_fw_version is an unsigned char.                                       *)
StoredFwVersion(release) == Byte(GetFwVersionAsInt(release))

(* The bcdDevice value of version maj.min. *)
Release(maj, min) == maj * 256 + min

=============================================================================
