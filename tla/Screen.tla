-------------------------------- MODULE Screen --------------------------------
(***************************************************************************)
(* kernel/src/rendering.c: text and numbers on the screen.                 *)
(*                                                                         *)
(* A screen is a function from the character cells that were drawn to the  *)
(* character codes in them; put_char draws the pixels of one cell.         *)
(***************************************************************************)
EXTENDS Integers, Sequences, SequencesExt

CONSTANT
    Nibbles     \* hexadecimal digits of the largest value (16 for 64 bits)

clear_screen == <<>>

\* put_char for each of the characters, side by side.
put_chars(screen, chars, x, y) ==
    [cell \in {<<x + i - 1, y>> : i \in DOMAIN chars} |-> chars[cell[1] - x + 1]] @@ screen

\* put_string skips what it cannot draw; it returns the length.
Drawable(c) == c >= 33 /\ c < 126
put_string(screen, str, x, y) ==
    [cell \in {<<x + i - 1, y>> : i \in {i \in DOMAIN str : Drawable(str[i])}} |->
        str[cell[1] - x + 1]] @@ screen

\* put_binary_len and put_binary.
Digits(value, b, n) == [i \in 1 .. n |-> (value \div b ^ (n - i)) % b]
put_binary_len(screen, value, x, y, bits) ==
    put_chars(screen, <<48, 98>> \o [i \in 1 .. bits |-> 48 + Digits(value, 2, bits)[i]], x, y)
SignificantBits(value) == Max({k \in 1 .. 4 * Nibbles : value >= 2 ^ (k - 1)} \cup {1})
put_binary(screen, value, x, y) == put_binary_len(screen, value, x, y, SignificantBits(value))

\* put_hex_len and put_hex, which shows three digits at least.
HexChar(digit) == IF digit >= 10 THEN 65 + digit - 10 ELSE 48 + digit
put_hex_len(screen, value, x, y, n) ==
    put_chars(screen, <<48, 120>> \o [i \in 1 .. n |-> HexChar(Digits(value, 16, n)[i])], x, y)
HexDigits_Short(value) == Max({k \in 3 .. Nibbles - 1 : (value \div 16 ^ k) % 16 # 0} \cup {2})
HexDigits(value) == Max({k \in 3 .. Nibbles - 1 : (value \div 16 ^ k) % 16 # 0} \cup {2}) + 1
put_hex(screen, value, x, y) == put_hex_len(screen, value, x, y, HexDigits(value))

-----------------------------------------------------------------------------
(* The framebuffer: pages of PAGE_SIZE bytes, four bytes per pixel.        *)

Framebuffer == [width : Nat, height : Nat, pixels_per_scanline : Nat]

round_up_to_multiple(n, k) == ((n + k - 1) \div k) * k
FramebufferPages(fb, page_size) ==
    round_up_to_multiple(fb.width * fb.height * 4, page_size) \div page_size
put_pixel_Offset(fb, x, y) == 4 * fb.pixels_per_scanline * y + 4 * x

\* The terminal program colours the pixels one after the other.
terminal_Offsets(fb) == {4 * i : i \in 0 .. fb.height * fb.width - 1}
=============================================================================
