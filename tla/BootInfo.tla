------------------------------ MODULE BootInfo ------------------------------
(***************************************************************************)
(* read_boot_info (boot_mb2.c): the tags a Multiboot2 loader leaves in     *)
(* memory.  tags is a function of addresses: the tag that starts there,    *)
(* with its type, size and value; the first is at address 8 and total is   *)
(* where the information ends.                                             *)
(***************************************************************************)
EXTENDS Integers, Sequences

MULTIBOOT_TAG_ALIGN == 8
ALIGN_UP(n, a) == ((n + a - 1) \div a) * a

NoBootInfo == [kernel_location |-> 0, initrd |-> 0, text_fb |-> 0]

\* One round of the loop's switch: only three types of tags are copied, a
\* frame buffer only when it is a text buffer.
CopyTag(b, tag) ==
    CASE tag.type = "LOAD_BASE_ADDR" -> [b EXCEPT !.kernel_location = tag.value]
      [] tag.type = "MODULE"         -> [b EXCEPT !.initrd = tag.value]
      [] tag.type = "EGA_TEXT"       -> [b EXCEPT !.text_fb = tag.value]
      [] OTHER                       -> b

\* The loop takes a tag of the type END like any other and stops at total.
read_boot_info(magic_ok, tags, total) ==
    LET loop[k \in 0 .. total] ==
            IF k = 0 THEN [pos |-> 8, b |-> NoBootInfo]
            ELSE LET at == loop[k - 1]
                 IN  IF at.pos >= total THEN at
                     ELSE [pos |-> at.pos + ALIGN_UP(tags[at.pos].size, MULTIBOOT_TAG_ALIGN),
                           b   |-> CopyTag(at.b, tags[at.pos])]
    IN  IF magic_ok THEN loop[total].b ELSE NoBootInfo

\* What the loader does with a sequence of tags: each starts at a multiple of
\* eight after the one before it.
Start(seq) ==
    LET f[i \in 1 .. Len(seq) + 1] ==
            IF i = 1 THEN 8 ELSE f[i - 1] + ALIGN_UP(seq[i - 1].size, 8)
    IN  f
Laid(seq) ==
    [a \in {Start(seq)[i] : i \in DOMAIN seq} |-> seq[CHOOSE i \in DOMAIN seq : Start(seq)[i] = a]]

LastValue(seq, type) ==
    LET hits == {i \in DOMAIN seq : seq[i].type = type}
    IN  IF hits = {} THEN 0 ELSE seq[CHOOSE i \in hits : \A j \in hits : j <= i].value

\* Whatever the tags' sizes and order, the loop meets every tag: of each kind
\* the last one counts.
BootInfoExact(seq) ==
    read_boot_info(TRUE, Laid(seq), Start(seq)[Len(seq) + 1])
        = [kernel_location |-> LastValue(seq, "LOAD_BASE_ADDR"),
           initrd |-> LastValue(seq, "MODULE"), text_fb |-> LastValue(seq, "EGA_TEXT")]
=============================================================================
