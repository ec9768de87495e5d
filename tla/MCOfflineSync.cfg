\* Two tabs that upload the queue of one device.
CONSTANTS
    Sales = {s1}
    Operators = {o1, o2}
    Tabs = {t1, t2}
    Uploads = {u1, u2}
    Null = Null
SPECIFICATION FairSpec
PROPERTIES
    ImplementsDelivery
    EverySaleArrives
