-------------------------------- MODULE WireMC --------------------------------
(* Instances of CswpWire: the ccu commands of tests/ccu_tcp, and processes *)
(* that use the library for several requests.                              *)
EXTENDS CswpWire

Sub(addr, size, access) == [saddr |-> addr, size |-> size, acc_sz |-> access]

CcuSessions ==
    {init_cswp, get_dev_info, get_reg_list}
        \cup { get_dev_cap(dev) : dev \in 0 .. 2 }
        \cup { get_dev_reg(dev, 1, id) : dev \in {0, 2}, id \in {3328, 3580, 1314258944} }
        \cup { get_dev_reg(2, 2, 8960), set_dev_reg(0, 1, 1314258944, <<65537>>),
               set_dev_reg(2, 2, 127, <<17748, 16777216>>) }
        \cup { execute_get_dev_mem(dev, <<Sub(addr, 16, 3)>>) :
                   dev \in {0, 1}, addr \in {4096, 116736, 262272, 1073741824} }
        \cup { execute_get_dev_mem(1, <<Sub(8448, 8, 4), Sub(8456, 2, 2), Sub(8458, 1, 1)>>),
               execute_set_dev_mem(0, <<Sub(4096, 4, 3)>>),
               execute_set_dev_mem(1, <<Sub(384, 8, 4), Sub(392, 4, 3), Sub(396, 1, 1)>>),
               execute_set_dev_mem(1, <<Sub(384, 128, 4), Sub(512, 4, 3)>>) }

Read(dev, id) == Cmd(encode_reg_read_command(dev, <<id>>), 1)
Writes(dev, ids) ==
    Cmd(reg_write(dev, [i \in DOMAIN ids |-> [id |-> ids[i], value |-> 300]]), 0)
Write(dev, id) == Writes(dev, <<id>>)

(* Several handles on one session; a refused command in the middle of a    *)
(* batch of each kind; caller's buffers that are too small; requests that  *)
(* exceed the client's buffer: one whose encoder says so, and register     *)
(* writes that are cut off, alone and with a command behind them.          *)
LibrarySessions ==
    { <<Term>>,
      <<CswpInit, OpenAll, CswpInit, Term, CloseAll, Term>>,
      <<CswpInit, Request(BATCH_ABORT, <<Write(2, 128), Read(1, 3580), Write(0, 5)>>), Term>>,
      <<CswpInit, Request(BATCH_CONTINUE, <<Read(2, 3580), Read(2, 16384)>>), Term>>,
      <<CswpInit, Request(BATCH_NONE, <<Cmd(encode_get_devices_command, 2)>>), Term>>,
      <<CswpInit, Request(BATCH_ABORT, [i \in 1 .. 40 |-> Read(0, 3580)]), Term>>,
      <<CswpInit, Request(BATCH_NONE, <<Writes(2, [i \in 1 .. 30 |-> 127 + i])>>), Term>>,
      <<CswpInit, Request(BATCH_ABORT, <<Writes(2, [i \in 1 .. 30 |-> 127 + i]),
                                         Cmd(encode_get_devices_command, 3)>>), Term>> }

AllSessions == CcuSessions \cup LibrarySessions
TerminatingCommand == {term_cswp}
=============================================================================
