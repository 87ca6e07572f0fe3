------------------------------ MODULE Imprint ------------------------------
(***************************************************************************)
(* The recovery image a bundle carries: credentials are written into the   *)
(* space the published image reserves for them, and again for another      *)
(* network (tools/autoflash/imprint.py); files are altered by others; and  *)
(* the bundle's image is accepted or refused without the credentials being *)
(* known (require_imprinted_manifest of tools/safeboot_migration.py).      *)
(*                                                                         *)
(* A marker is one byte here.  The checksum and the hash, which cover the  *)
(* bytes before them, are one seal that no two contents share.             *)
(***************************************************************************)
EXTENDS Integers

CONSTANTS
  Bytes,
  SSID_MARKER, PASSWORD_MARKER, FILLER, NUL,
  Length,                                 \* bytes the seal covers
  Published,                              \* those of the published image
  SSID_FIELD_BYTES, PASSWORD_FIELD_BYTES,
  Values,                                 \* names and passwords to be written
  MaxAlterations                          \* bound: bytes altered by others

Cells == 1..Length

(* A value is a sequence of bytes of its own length.                       *)
ASSUME ImprintAssumption ==
  /\ {SSID_MARKER, PASSWORD_MARKER, FILLER, NUL} \subseteq Bytes
  /\ SSID_MARKER # PASSWORD_MARKER
  /\ NUL \notin {SSID_MARKER, PASSWORD_MARKER, FILLER}
  /\ Length \in Nat /\ Published \in [Cells -> Bytes]
  /\ SSID_FIELD_BYTES \in Nat \ {0} /\ PASSWORD_FIELD_BYTES \in Nat \ {0}
  /\ \A value \in Values : value.size \in Nat /\ value.bytes \in [1..value.size -> Bytes]
  /\ MaxAlterations \in Nat

VARIABLES
  image,      \* the file: its bytes, and the seal stored with them
  credentials,\* what the last imprint wrote, since the file was published
  alterations \* bytes altered since then by others

imprintVars == <<image, credentials, alterations>>

Images == [data : [Cells -> Bytes], seal : [Cells -> Bytes]]
Refused == [data |-> <<>>, seal |-> <<>>]
None == <<>>

-----------------------------------------------------------------------------
(* imprint.py *)

Marks(data, marker) == {i \in Cells : data[i] = marker}

(* Where the space after the marker begins; nowhere, if it is refused.      *)
find_field(data, marker, size) ==
  {at \in Cells : Marks(data, marker) = {at - 1} /\ at + size - 1 \in Cells}

Field(data, marker, size) ==
  UNION {at..(at + size - 1) : at \in find_field(data, marker, size)}

SsidField(data) == Field(data, SSID_MARKER, SSID_FIELD_BYTES)
PasswordField(data) == Field(data, PASSWORD_MARKER, PASSWORD_FIELD_BYTES)
Reserved(data) == SsidField(data) \cup PasswordField(data)

(* A value leaves room for a terminator.                                   *)
Fits(value, size) == value.size < size

(* Mutant: what the value leaves of the field stays as it is.              *)
write_unpadded(data, field, value) ==
  LET first == CHOOSE i \in field : \A j \in field : i <= j
  IN  [i \in Cells |->
         IF i \in field /\ i - first < value.size
         THEN value.bytes[i - first + 1] ELSE data[i]]

(* The value, and NULs to the end of the field.                            *)
write_field(data, field, value) ==
  LET first == CHOOSE i \in field : \A j \in field : i <= j
  IN  [i \in Cells |->
         IF i \notin field THEN data[i]
         ELSE IF i - first < value.size THEN value.bytes[i - first + 1] ELSE NUL]

repair_image(data) == [data |-> data, seal |-> data]
Sealed(file) == file.seal = file.data

imprint(data, ssid, password) ==
  IF /\ ssid.size > 0
     /\ SsidField(data) # {} /\ PasswordField(data) # {}
     /\ Fits(ssid, SSID_FIELD_BYTES) /\ Fits(password, PASSWORD_FIELD_BYTES)
  THEN repair_image(write_field(write_field(data, SsidField(data), ssid),
                                PasswordField(data), password))
  ELSE Refused

has_placeholders(data) ==
  SsidField(data) # {} /\ \A i \in SsidField(data) : data[i] = FILLER

(* Mutant: one byte more is left out of the comparison.                    *)
BlankedTooFar(data) ==
  [i \in Cells |-> IF i \in Reserved(data) \/ i - 1 \in SsidField(data)
                   THEN NUL ELSE data[i]]

(* The seal is blanked with the fields.                                    *)
blank_variable_regions(data) ==
  [i \in Cells |-> IF i \in Reserved(data) THEN NUL ELSE data[i]]

derived_from(data) == blank_variable_regions(data) = blank_variable_regions(Published)

(* The bundle's image is accepted for installation.                        *)
require_imprinted_manifest(file) ==
  Sealed(file) /\ ~has_placeholders(file.data) /\ derived_from(file.data)

(* The published image has each marker once, and their fields do not meet   *)
(* (validate_imprintable_safeboot.py finds both).                          *)
ASSUME PublishedAssumption ==
  /\ SsidField(Published) # {} /\ PasswordField(Published) # {}
  /\ SsidField(Published) \cap PasswordField(Published) = {}
  /\ \A i \in Reserved(Published) : Published[i] \notin {SSID_MARKER, PASSWORD_MARKER}

-----------------------------------------------------------------------------
TypeOK ==
  /\ image \in Images
  /\ credentials \in {None} \cup (Values \X Values)
  /\ alterations \in 0..MaxAlterations

ImprintInit ==
  /\ image = repair_image(Published)
  /\ credentials = None /\ alterations = 0

(* A refusal changes nothing.                                              *)
Imprint(data, ssid, password) ==
  /\ imprint(data, ssid, password) # Refused
  /\ image' = imprint(data, ssid, password)
  /\ credentials' = <<ssid, password>>

ImprintPublished(ssid, password) ==
  Imprint(Published, ssid, password) /\ alterations' = 0

ImprintAgain(ssid, password) ==
  Imprint(image.data, ssid, password) /\ UNCHANGED alterations

Alter(i, byte) ==
  /\ alterations < MaxAlterations /\ alterations' = alterations + 1
  /\ image.data[i] # byte
  /\ image' = [image EXCEPT !.data[i] = byte]
  /\ UNCHANGED credentials

Reseal ==
  /\ ~Sealed(image)
  /\ image' = repair_image(image.data)
  /\ UNCHANGED <<credentials, alterations>>

ImprintNext ==
  \/ \E ssid, password \in Values :
       ImprintPublished(ssid, password) \/ ImprintAgain(ssid, password)
  \/ \E i \in Cells, byte \in Bytes : Alter(i, byte)
  \/ Reseal

ImprintSpec == ImprintInit /\ [][ImprintNext]_imprintVars

-----------------------------------------------------------------------------
(* Properties. *)

(* "everything outside the reserved fields must be identical, so no other   *)
(* code can have been slipped in": an accepted image is the published one   *)
(* outside its fields, whatever was written, rewritten, altered and sealed  *)
(* again, and its network name is not the placeholder.                     *)
Provenance ==
  require_imprinted_manifest(image) =>
    /\ \A i \in Cells \ Reserved(Published) : image.data[i] = Published[i]
    /\ \E i \in SsidField(Published) : image.data[i] # FILLER

(* "keeping them lets an image be rewritten for a different network":       *)
(* however often that is done, nothing of the earlier networks is left; the *)
(* image is what writing to the published one would have given.            *)
Rewritten ==
  alterations = 0 =>
    image = IF credentials = None THEN repair_image(Published)
            ELSE imprint(Published, credentials[1], credentials[2])

(* Credentials that are not themselves markers give an image that is        *)
(* accepted: no network name is taken for the placeholder.                 *)
Usable ==
  /\ credentials # None /\ alterations = 0
  /\ \A k \in 1..2 : \A i \in DOMAIN credentials[k].bytes :
       credentials[k].bytes[i] \notin {SSID_MARKER, PASSWORD_MARKER}
  => require_imprinted_manifest(image)

=============================================================================
