------------------------------- MODULE Chips --------------------------------
(***************************************************************************)
(* The interrupt controllers (intctl_8259.c) and the interval timer        *)
(* (pit_8253.c): the drivers as the bytes they write to the ports, and the *)
(* chips, which are external, as what they make of the bytes.              *)
(***************************************************************************)
EXTENDS Integers, FiniteSets

\* A controller: icw is the initialisation word it expects next, 0 for none;
\* base its first vector; mask, irr and isr sets of its eight lines.
PicAtBoot(base) == [icw |-> 0, base |-> base, cascade |-> 0, mask |-> {}, irr |-> {}, isr |-> {}]

Bits(byte) == {i \in 0 .. 7 : (byte \div 2^i) % 2 = 1}

\* External: a write to the command port.  Bit 4 starts the initialisation,
\* the top bits 011 end the service of one line.
PicCommand(c, byte) ==
    IF 4 \in Bits(byte) THEN [c EXCEPT !.icw = 2, !.mask = {}, !.isr = {}]
    ELSE IF byte \div 32 = 3 THEN [c EXCEPT !.isr = @ \ {byte % 8}]
    ELSE c

\* External: a write to the data port.
PicData(c, byte) ==
    CASE c.icw = 2 -> [c EXCEPT !.base = byte, !.icw = 3]
      [] c.icw = 3 -> [c EXCEPT !.cascade = byte, !.icw = 4]
      [] c.icw = 4 -> [c EXCEPT !.icw = 0]
      [] c.icw = 0 -> [c EXCEPT !.mask = Bits(byte)]

ICW1_INIT == 16
ICW1_NEED_ICW4 == 1
ICW4_MPM_8086 == 1
OCW2_EOI_SPECIFIC == 96
IRQ_TIMER == 0
IRQ_CASCADE == 2
IRQ_SLAVE_START == 8
IRQ_MASTER_LOWEST_PRIORITY == 7

pic_init_single(c, irq_start, icw3) ==
    LET w1 == PicCommand(c, ICW1_INIT + ICW1_NEED_ICW4)
        w2 == PicData(w1, irq_start)
        w3 == PicData(w2, icw3)
    IN  PicData(w3, ICW4_MPM_8086)

\* p is the pair of controllers.
pic_init(p, irq_start) ==
    [master |-> pic_init_single(p.master, irq_start, 2^IRQ_CASCADE),
     slave |-> pic_init_single(p.slave, irq_start + IRQ_SLAVE_START, IRQ_CASCADE)]

pic_set_mask(p, mask) ==
    [master |-> PicData(p.master, mask % 256),
     slave |-> PicData(p.slave, (mask \div 2^IRQ_SLAVE_START) % 256)]

pic_send_eoi(p, irq) ==
    IF irq < IRQ_SLAVE_START
    THEN [p EXCEPT !.master = PicCommand(@, OCW2_EOI_SPECIFIC + irq)]
    ELSE [master |-> PicCommand(p.master, OCW2_EOI_SPECIFIC + IRQ_CASCADE),
          slave |-> PicCommand(p.slave, OCW2_EOI_SPECIFIC + irq - IRQ_SLAVE_START)]

\* External: line irq is raised by its device.
PicRaise(p, irq) ==
    IF irq < IRQ_SLAVE_START THEN [p EXCEPT !.master.irr = @ \cup {irq}]
    ELSE [p EXCEPT !.slave.irr = @ \cup {irq - IRQ_SLAVE_START},
                   !.master.irr = @ \cup {IRQ_CASCADE}]

\* External: the controller may interrupt the CPU with line i: requested, not
\* masked, and no line of its priority or a higher one in service.
PicOffers(c, i) == i \in c.irr /\ i \notin c.mask /\ \A j \in c.isr : i < j

\* External: the CPU takes line i, which goes from requested to in service.
PicTake(c, i) == [c EXCEPT !.irr = @ \ {i}, !.isr = @ \cup {i}]

-----------------------------------------------------------------------------
PIT_BASE_HZ == 1193180
PIT_RW_LSB_MSB == 3
PIT_MODE_SQUARE_WAVE == 3
PIT_BASE2 == 0
PIT_CH_IRQ == 0

PitAtBoot == [next |-> "none", mode |-> 3, bcd |-> 0, low |-> 0, count |-> 0]

\* External: a command for channel 0, then the two bytes of the count.
PitCommand(t, byte) ==
    IF byte \div 64 # 0 \/ (byte \div 16) % 4 # 3 THEN [t EXCEPT !.next = "other"]
    ELSE [t EXCEPT !.next = "low", !.mode = (byte \div 2) % 8, !.bcd = byte % 2]
PitData(t, byte) ==
    CASE t.next = "low"  -> [t EXCEPT !.low = byte, !.next = "high"]
      [] t.next = "high" -> [t EXCEPT !.count = byte * 256 + t.low, !.next = "none"]
      [] OTHER           -> t
PitPeriod(t) == IF t.count = 0 THEN 65536 ELSE t.count

pit_cmd_byte(cntr, rw, mode, bcd) == cntr * 64 + rw * 16 + mode * 2 + bcd

\* count is a uint16_t.
pit_send_cmd(t, channel, mode, count) ==
    LET cmd == pit_cmd_byte(channel, PIT_RW_LSB_MSB, mode, PIT_BASE2)
        n   == count % 65536
    IN  PitData(PitData(PitCommand(t, cmd), n % 256), n \div 256)

pit_set_irq_freq(t, mode, target_hz) ==
    pit_send_cmd(t, PIT_CH_IRQ, mode, PIT_BASE_HZ \div target_hz)
=============================================================================
